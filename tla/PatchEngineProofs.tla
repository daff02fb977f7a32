------------------------- MODULE PatchEngineProofs --------------------------
(***************************************************************************)
(* Proofs about PatchEngine, for any number of runs, any series and any    *)
(* number of edits.                                                        *)
(*                                                                         *)
(* What ends up under the workspace path was decided many steps before it  *)
(* is written, so the invariant follows a run through its stages: what it  *)
(* has learnt (Learnt), what it has built (Built), what it will report     *)
(* (Reported), and what its documents say (Kept).                          *)
(***************************************************************************)
EXTENDS PatchEngine, SequenceTheorems, TLAPS

Later == Reading \ {"start", "mkdir"}

\* Only the run that made the workspace gets past the mkdir.
Owned(r) ==
    /\ created[r] <=> workspace # Null /\ workspace.owner = r
    /\ pc[r] \in {"start", "mkdir"} => ~ created[r]
    /\ pc[r] \in Later \cup Building \cup {"bundle", "evidence"} => created[r]

\* Preflight is complete when building starts.
Learnt(r) ==
    /\ pc[r] \in {"source", "git", "series", "plan"} \cup Building => inputs[r].request
    /\ pc[r] \in {"git", "series", "plan"} \cup Building => inputs[r].source # Null
    /\ pc[r] \in {"plan"} \cup Building => PatchNames(inputs[r].patches) = Series
    /\ pc[r] \in Building => inputs[r].downstream # Null

\* s is the beginning of the series.
Begins(s) ==
    /\ Len(s) <= Len(Series)
    /\ \A i \in 1..Len(s) : s[i] = Series[i]

\* The tree holds the source, the downstream files and the first n patches.
TreeHolds(n) ==
    /\ workspace.tree # Null
    /\ workspace.tree.source # Null
    /\ workspace.tree.downstream # Null
    /\ Len(workspace.tree.applied) = n
    /\ \A i \in 1..n : workspace.tree.applied[i].name = Series[i]

\* The result of a run whose patch number Len(o.attempted) failed.
StoppedAt(o) ==
    /\ Begins(o.applied)
    /\ Begins(o.attempted)
    /\ Len(o.attempted) = Len(o.applied) + 1
    /\ o.failed = Series[Len(o.attempted)]

\* The tree and the record of it agree at every stage of building.
Built(r) ==
    /\ pc[r] \in Later \cup {"copy"} => workspace.tree = Null
    /\ pc[r] \in Reading \cup {"copy", "copying"} => outcome[r] = BaseOutcome
    /\ pc[r] = "copying" => workspace.tree # Null
    /\ pc[r] = "materialize" =>
        /\ workspace.tree # Null
        /\ workspace.tree.source # Null
        /\ workspace.tree.applied = <<>>
        /\ ~ workspace.tree.partial
        /\ outcome[r] = Outcome(Null, Null, <<>>, <<>>, "PREPARED", FALSE, FALSE)
    /\ pc[r] \in {"check", "apply"} =>
        LET o == outcome[r]
        IN  /\ TreeHolds(Len(o.applied))
            /\ ~ workspace.tree.partial
            /\ Begins(o.applied)
            /\ Begins(o.attempted)
            /\ Len(o.applied) < Len(Series)
            /\ Len(o.attempted) = Len(o.applied) + (IF pc[r] = "check" THEN 0 ELSE 1)
            /\ o.class = Null /\ o.failed = Null /\ o.status = "PREPARED"
            /\ ~ o.pass /\ ~ o.bundle

\* What a run is about to write is valid and agrees with the tree.
Reported(r) ==
    pc[r] \in {"judge", "bundle", "evidence"} =>
        LET o == outcome[r]
        IN  /\ ValidateEvidence(inputs[r], o)
            /\ o.pass =>
                /\ created[r]
                /\ TreeHolds(Len(Series))
                /\ ~ workspace.tree.partial
            /\ o.class \in PatchFailures =>
                /\ created[r]
                /\ StoppedAt(o)
                /\ TreeHolds(Len(o.applied))
            /\ o.bundle <=> pc[r] # "judge" /\ o.class \in PatchFailures
            /\ pc[r] = "bundle" => o.class \in PatchFailures

RunInv(r) == Owned(r) /\ Learnt(r) /\ Built(r) /\ Reported(r)

\* What is under the workspace path agrees with the run that owns it.
Kept ==
    workspace # Null =>
        LET w == workspace
            r == workspace.owner
        IN  /\ w.tree # Null =>
                /\ inputs[r].request /\ inputs[r].source # Null /\ inputs[r].downstream # Null
                /\ PatchNames(inputs[r].patches) = Series
            /\ w.bundle # Null =>
                /\ w.bundle.by = r
                /\ pc[r] \in {"evidence", "done", "dead"}
                /\ StoppedAt(w.bundle.outcome)
                /\ TreeHolds(Len(w.bundle.outcome.applied))
            /\ w.evidence # Null =>
                /\ pc[r] = "done"
                /\ w.evidence = Document(r)
                /\ w.evidence.outcome.pass =>
                    /\ TreeHolds(Len(Series))
                    /\ ~ w.tree.partial
            /\ pc[r] = "done" /\ w.evidence = Null => outcome[r].class = "EVIDENCE_WRITE_FAILED"

EngineInv == TypeOK /\ (\A r \in Runs : RunInv(r)) /\ Kept

-----------------------------------------------------------------------------
(* Lemmas about sequences and records                                      *)

\* Appending to a sequence keeps what it held.
LEMMA AppendKeeps ==
    ASSUME NEW S, NEW s \in Seq(S), NEW e \in S
    PROVE  /\ Append(s, e) \in Seq(S)
           /\ Len(Append(s, e)) = Len(s) + 1
           /\ \A i \in 1..Len(s) : Append(s, e)[i] = s[i]
           /\ Append(s, e)[Len(s) + 1] = e
OBVIOUS

\* The series is a sequence of patches.
LEMMA SeriesType ==
    /\ Series \in Seq(Patches)
    /\ Len(Series) \in Nat
    /\ \A i \in 1..Len(Series) : Series[i] \in Patches
BY SeriesAssumption, LenProperties, ElementOfSeq

\* Null is none of the values it stands beside.
LEMMA NullIsNoPatch == Null \notin Patches /\ Null \notin Runs /\ Null \notin Versions
BY InputsAssumption DEF Versions

\* The constructors build values of their types.
LEMMA OutcomeType ==
    ASSUME NEW class \in Optional(Failures), NEW failed \in Optional(Patches),
           NEW attempted \in Seq(Patches), NEW applied \in Seq(Patches),
           NEW status \in TreeStatuses, NEW pass \in BOOLEAN, NEW bundle \in BOOLEAN
    PROVE  Outcome(class, failed, attempted, applied, status, pass, bundle) \in Outcomes
BY DEF Outcome, Outcomes

\* The fields of an outcome.
LEMMA OutcomeFields ==
    ASSUME NEW o \in Outcomes
    PROVE  /\ o.class \in Optional(Failures) /\ o.failed \in Optional(Patches)
           /\ o.attempted \in Seq(Patches) /\ o.applied \in Seq(Patches)
           /\ o.status \in TreeStatuses /\ o.pass \in BOOLEAN /\ o.bundle \in BOOLEAN
BY DEF Outcomes

\* An integration tree.
LEMMA TreeType ==
    ASSUME NEW source \in Optional(Versions), NEW downstream \in Optional(Versions),
           NEW applied \in Seq(HashedPatches), NEW partial \in BOOLEAN
    PROVE  Tree(source, downstream, applied, partial) \in Trees
BY DEF Tree, Trees

\* A failure is recorded in a well-formed outcome.
LEMMA SetFailureType ==
    ASSUME NEW o \in Outcomes, NEW class \in Failures, NEW failed \in Optional(Patches)
    PROVE  SetFailure(o, class, failed) \in Outcomes
BY OutcomeFields, OutcomeType DEF SetFailure, TreeStatuses, Optional

\* What a run has to report before it has done anything.
LEMMA BaseOutcomeType == BaseOutcome \in Outcomes
<1>1. <<>> \in Seq(Patches)
    BY EmptySeq
<1> QED BY <1>1, OutcomeType DEF BaseOutcome, Optional, TreeStatuses

-----------------------------------------------------------------------------
(* Type correctness                                                        *)

\* At first every variable has its type.
LEMMA InitType == Init => TypeOK
BY BaseOutcomeType, InputsAssumption, EmptySeq
   DEF Init, TypeOK, NoInputs, InputRecords, Optional, Versions, Stages, Reading

\* What a failure changes keeps its type.
LEMMA FailType ==
    ASSUME TypeOK, NEW r \in Runs, NEW class \in Failures, NEW failed \in Optional(Patches),
           Fail(r, class, failed)
    PROVE  pc' \in [Runs -> Stages] /\ outcome' \in [Runs -> Outcomes]
<1>1. SetFailure(outcome[r], class, failed) \in Outcomes
    BY SetFailureType DEF TypeOK
<1> QED BY <1>1 DEF Fail, Goto, TypeOK, Stages, Writing

\* What a reading stage learns keeps its type.
LEMMA LearnType ==
    ASSUME TypeOK, NEW r \in Runs, NEW stage, NEW learnt \in InputRecords, NEW next \in Stages,
           Learn(r, stage, learnt, next)
    PROVE  TypeOK'
BY DEF Learn, Goto, TypeOK, vars

\* Replacing the tree of a workspace keeps its type and the rest of it.
LEMMA SetTreeType ==
    ASSUME TypeOK, workspace # Null, NEW tree \in Trees, SetTree(tree)
    PROVE  /\ workspace' \in Workspaces
           /\ workspace' # Null
           /\ workspace'.tree = tree
           /\ workspace'.owner = workspace.owner
           /\ workspace'.bundle = workspace.bundle
           /\ workspace'.evidence = workspace.evidence
<1>1. workspace \in Workspaces
    BY DEF TypeOK, Optional
<1>2. workspace' = [workspace EXCEPT !.tree = tree]
    BY DEF SetTree
<1>3. workspace' \in Workspaces
    BY <1>1, <1>2 DEF Workspaces, Optional
<1>4. workspace' # Null
    BY <1>3, NullAssumption
<1> QED BY <1>1, <1>2, <1>3, <1>4 DEF Workspaces

\* Preflight keeps the types.
LEMMA ReadType ==
    ASSUME TypeOK, NEW r \in Runs, Read(r)
    PROVE  TypeOK'
<1>n. Null \in Optional(Patches) /\ Patches \subseteq Optional(Patches)
    BY DEF Optional
<1>i. inputs[r] \in InputRecords /\ version \in [Patches \cup {Source, Downstream} -> Versions]
    BY DEF TypeOK
<1>1. CASE Refuse(r)
    <2> PICK class \in {"INVALID_SOURCE", "INVALID_WORKSPACE", "INTERNAL_ERROR"} :
            Fail(r, class, Null)
        BY <1>1 DEF Refuse
    <2> QED BY <1>1, <1>n, FailType DEF Refuse, Failures, TypeOK
<1>2. CASE Accept(r)
    BY <1>2 DEF Accept, Goto, TypeOK, Stages, Reading
<1>3. CASE MakeWorkspace(r)
    <2>1. CASE workspace = Null /\ workspace' = NewWorkspace(r) /\ Goto(r, "request") /\ UNCHANGED outcome
              /\ created' = [created EXCEPT ![r] = TRUE]
        <3>1. NewWorkspace(r) \in Workspaces
            BY DEF NewWorkspace, Workspaces, Optional
        <3> QED BY <1>3, <2>1, <3>1 DEF MakeWorkspace, Goto, TypeOK, Stages, Reading, Optional
    <2>2. CASE Fail(r, "INVALID_WORKSPACE", Null) /\ UNCHANGED <<workspace, created>>
        BY <1>3, <2>2, <1>n, FailType DEF MakeWorkspace, Failures, TypeOK
    <2> QED BY <1>3, <2>1, <2>2 DEF MakeWorkspace
<1>4. CASE LoadRequest(r)
    <2>1. [inputs[r] EXCEPT !.request = TRUE] \in InputRecords
        BY <1>i DEF InputRecords
    <2> QED BY <1>4, <2>1, LearnType DEF LoadRequest, Stages, Reading
<1>5. CASE HashSource(r)
    <2>1. [inputs[r] EXCEPT !.source = version[Source]] \in InputRecords
        BY <1>i DEF InputRecords, Optional
    <2> QED BY <1>5, <2>1, LearnType DEF HashSource, Stages, Reading
<1>6. CASE FindGit(r)
    BY <1>6, <1>i, LearnType DEF FindGit, Stages, Reading
<1>7. CASE ReadPatchSeries(r)
    <2> DEFINE hashes == [i \in 1..Len(Series) |-> Hashed(Series[i])]
    <2>1. hashes \in Seq(HashedPatches)
        BY <1>i, SeriesType DEF HashedPatches, Hashed
    <2>2. [inputs[r] EXCEPT !.patches = hashes] \in InputRecords
        BY <1>i, <2>1 DEF InputRecords
    <2> QED BY <1>7, <2>2, LearnType DEF ReadPatchSeries, Stages, Reading
<1>8. CASE BuildPlan(r)
    <2>1. [inputs[r] EXCEPT !.downstream = version[Downstream]] \in InputRecords
        BY <1>i DEF InputRecords, Optional
    <2> QED BY <1>8, <2>1, LearnType DEF BuildPlan, Stages, Building
<1>9. CASE ReadingFails(r)
    <2>1. CASE \E class \in ReadingFailures(pc[r]) : Fail(r, class, Null)
        <3> PICK class \in ReadingFailures(pc[r]) : Fail(r, class, Null)
            BY <2>1
        <3>1. class \in Failures
            BY <1>9 DEF ReadingFails, ReadingFailures, Reading, Failures
        <3> QED BY <1>9, <3>1, <1>n, FailType DEF ReadingFails, TypeOK
    <2>2. CASE \E i \in 1..Len(Series) : Fail(r, "INVALID_SERIES", Series[i])
        <3> PICK i \in 1..Len(Series) : Fail(r, "INVALID_SERIES", Series[i])
            BY <2>2
        <3> QED BY <1>9, <1>n, SeriesType, FailType DEF ReadingFails, TypeOK, Failures
    <2> QED BY <1>9, <2>1, <2>2 DEF ReadingFails
<1> QED BY <1>1, <1>2, <1>3, <1>4, <1>5, <1>6, <1>7, <1>8, <1>9 DEF Read

\* The workspace of a run past the mkdir, and the tree of a run past the copy.
LEMMA WorkspaceType ==
    ASSUME TypeOK, NEW r \in Runs, RunInv(r)
    PROVE  /\ created[r] => workspace \in Workspaces /\ workspace.owner = r
           /\ pc[r] \in Building \cup {"bundle", "evidence"} => created[r] /\ workspace # Null
           /\ pc[r] \in {"materialize", "check", "apply"} => workspace.tree \in Trees
           /\ pc[r] \in {"check", "apply"} => NextPatch(r) \in Patches
<1>1. created[r] => workspace \in Workspaces /\ workspace.owner = r /\ workspace # Null
    BY DEF RunInv, Owned, TypeOK, Optional
<1>2. pc[r] \in Building \cup {"bundle", "evidence"} => created[r]
    BY DEF RunInv, Owned
<1>3. pc[r] \in {"materialize", "check", "apply"} => workspace.tree \in Trees
    <2>1. pc[r] \in {"materialize", "check", "apply"} => workspace.tree # Null
        BY DEF RunInv, Built, TreeHolds
    <2> QED BY <1>1, <1>2, <2>1 DEF Workspaces, Optional, Building
<1>4. pc[r] \in {"check", "apply"} => NextPatch(r) \in Patches
    <2> SUFFICES ASSUME pc[r] \in {"check", "apply"} PROVE NextPatch(r) \in Patches
        OBVIOUS
    <2>1. outcome[r].applied \in Seq(Patches)
        BY OutcomeFields DEF TypeOK
    <2>2. Len(outcome[r].applied) \in Nat /\ Len(outcome[r].applied) < Len(Series)
        BY <2>1, LenProperties DEF RunInv, Built
    <2> QED BY <2>2, SeriesType DEF NextPatch
<1> QED BY <1>1, <1>2, <1>3, <1>4

\* Going on keeps types.
LEMMA ContinueType ==
    ASSUME TypeOK, NEW r \in Runs, NEW o \in Outcomes, Continue(r, o)
    PROVE  pc' \in [Runs -> Stages] /\ outcome' \in [Runs -> Outcomes]
<1>1. Outcome(o.class, o.failed, o.attempted, o.applied, "COMPLETE", TRUE, o.bundle) \in Outcomes
    BY OutcomeFields, OutcomeType DEF TreeStatuses
<1> QED BY <1>1 DEF Continue, WithStatus, Goto, TypeOK, Stages, Building, Writing

\* The tree with the next patch is a tree, and so is the record of it.
LEMMA PatchTypes ==
    ASSUME TypeOK, NEW r \in Runs, RunInv(r), pc[r] \in {"check", "apply"}
    PROVE  /\ PatchedTree(r) \in Trees
           /\ \A torn \in BOOLEAN : TornTree(torn) \in Trees
           /\ Attempted(r) \in Outcomes
           /\ Applied(r) \in Outcomes
<1>1. NextPatch(r) \in Patches /\ workspace.tree \in Trees
    BY WorkspaceType
<1>2. Hashed(NextPatch(r)) \in HashedPatches
    BY <1>1 DEF Hashed, HashedPatches, TypeOK
<1>3. /\ workspace.tree.source \in Optional(Versions)
      /\ workspace.tree.downstream \in Optional(Versions)
      /\ workspace.tree.applied \in Seq(HashedPatches)
      /\ workspace.tree.partial \in BOOLEAN
    BY <1>1 DEF Trees
<1>4. Append(workspace.tree.applied, Hashed(NextPatch(r))) \in Seq(HashedPatches)
    BY <1>2, <1>3, AppendKeeps
<1>5. outcome[r] \in Outcomes
    BY DEF TypeOK
<1>6. /\ Append(outcome[r].attempted, NextPatch(r)) \in Seq(Patches)
      /\ Append(outcome[r].applied, NextPatch(r)) \in Seq(Patches)
    BY <1>1, <1>5, AppendKeeps, OutcomeFields
<1>7. PatchedTree(r) \in Trees /\ \A torn \in BOOLEAN : TornTree(torn) \in Trees
    BY <1>3, <1>4, TreeType DEF PatchedTree, TornTree
<1>8. Attempted(r) \in Outcomes /\ Applied(r) \in Outcomes
    BY <1>5, <1>6, OutcomeFields, OutcomeType DEF Attempted, Applied
<1> QED BY <1>7, <1>8

\* Building replaces the tree by a tree, if it changes the workspace at all.
LEMMA BuildTrees ==
    ASSUME TypeOK, NEW r \in Runs, RunInv(r), Build(r)
    PROVE  workspace' = workspace \/ \E tree \in Trees : SetTree(tree)
<1>v. /\ version[Source] \in Optional(Versions) /\ version[Downstream] \in Optional(Versions)
      /\ Null \in Optional(Versions) /\ <<>> \in Seq(HashedPatches)
    BY EmptySeq DEF TypeOK, Optional
<1>t. pc[r] = "materialize" =>
        /\ workspace.tree.source \in Optional(Versions)
        /\ workspace.tree.downstream \in Optional(Versions)
        /\ workspace.tree.applied \in Seq(HashedPatches)
        /\ workspace.tree.partial \in BOOLEAN
    BY WorkspaceType DEF Trees
<1>1. CASE StartCopy(r)
    BY <1>1, <1>v, TreeType DEF StartCopy, Unfinished
<1>2. CASE FinishCopy(r)
    BY <1>2, <1>v, TreeType DEF FinishCopy
<1>3. CASE Materialize(r)
    <2> DEFINE tree == Tree(workspace.tree.source, version[Downstream], workspace.tree.applied,
                            workspace.tree.partial)
    <2>1. tree \in Trees /\ SetTree(tree)
        BY <1>3, <1>t, <1>v, TreeType DEF Materialize
    <2> QED BY <2>1
<1>4. CASE MaterializeFails(r)
    <2> DEFINE tree == Tree(workspace.tree.source, workspace.tree.downstream,
                            workspace.tree.applied, TRUE)
    <2>1. tree \in Trees /\ SetTree(tree)
        BY <1>4, <1>t, TreeType DEF MaterializeFails
    <2> QED BY <2>1
<1>5. CASE ApplyPatch(r)
    BY <1>5, PatchTypes DEF ApplyPatch
<1>6. CASE CopyFails(r) \/ CheckPatch(r) \/ BuildingFails(r)
    BY <1>6 DEF CopyFails, CheckPatch, BuildingFails
<1> QED BY <1>1, <1>2, <1>3, <1>4, <1>5, <1>6 DEF Build

\* Building keeps them.
LEMMA BuildType ==
    ASSUME TypeOK, NEW r \in Runs, RunInv(r), Build(r)
    PROVE  TypeOK'
<1>n. Null \in Optional(Patches) /\ Patches \subseteq Optional(Patches)
    BY DEF Optional
<1>b. pc[r] \in Building /\ UNCHANGED <<version, inputs, created>>
    BY DEF Build, StartCopy, FinishCopy, CopyFails, Materialize, MaterializeFails, CheckPatch,
           ApplyPatch, BuildingFails, Building
<1>w. workspace' \in Optional(Workspaces)
    <2>1. workspace # Null
        BY <1>b, WorkspaceType
    <2>2. workspace' = workspace \/ workspace' \in Workspaces
        BY <2>1, BuildTrees, SetTreeType
    <2> QED BY <2>2 DEF TypeOK, Optional
<1>s. ASSUME pc' \in [Runs -> Stages], outcome' \in [Runs -> Outcomes]
      PROVE  TypeOK'
    BY <1>s, <1>b, <1>w DEF TypeOK
<1>f. ASSUME NEW class \in Failures, NEW failed \in Optional(Patches), Fail(r, class, failed)
      PROVE  TypeOK'
    BY <1>f, <1>s, FailType
<1>1. CASE StartCopy(r)
    BY <1>1, <1>s DEF StartCopy, Goto, TypeOK, Stages, Building
<1>2. CASE FinishCopy(r)
    <2>1. outcome' \in [Runs -> Outcomes]
        <3>1. WithStatus(outcome[r], "PREPARED", FALSE) \in Outcomes
            BY OutcomeFields, OutcomeType DEF WithStatus, TypeOK, TreeStatuses
        <3> QED BY <1>2, <3>1 DEF FinishCopy, TypeOK
    <2> QED BY <1>2, <2>1, <1>s DEF FinishCopy, Goto, TypeOK, Stages, Building
<1>3. CASE CopyFails(r)
    BY <1>3, <1>n, <1>f DEF CopyFails, Failures
<1>4. CASE Materialize(r)
    BY <1>4, <1>s, ContinueType DEF Materialize, TypeOK
<1>5. CASE MaterializeFails(r)
    BY <1>5, <1>n, <1>f DEF MaterializeFails, Failures
<1>6. CASE CheckPatch(r)
    <2>1. Attempted(r) \in Outcomes /\ NextPatch(r) \in Patches
        BY <1>6, PatchTypes, WorkspaceType DEF CheckPatch
    <2>2. SetFailure(Attempted(r), "PATCH_CHECK_FAILED", NextPatch(r)) \in Outcomes
        BY <2>1, <1>n, SetFailureType DEF Failures, PatchFailures
    <2> QED BY <1>6, <2>1, <2>2, <1>s DEF CheckPatch, Goto, TypeOK, Stages, Building, Writing
<1>7. CASE ApplyPatch(r)
    <2>1. Applied(r) \in Outcomes /\ NextPatch(r) \in Patches
        BY <1>7, PatchTypes, WorkspaceType DEF ApplyPatch
    <2>2. CASE Continue(r, Applied(r))
        BY <2>1, <2>2, <1>s, ContinueType
    <2>3. CASE Fail(r, "PATCH_APPLY_FAILED", NextPatch(r))
        BY <2>1, <2>3, <1>n, <1>f DEF Failures, PatchFailures
    <2> QED BY <1>7, <2>2, <2>3 DEF ApplyPatch
<1>8. CASE BuildingFails(r)
    BY <1>8, <1>n, <1>f DEF BuildingFails, Failures
<1> QED BY <1>1, <1>2, <1>3, <1>4, <1>5, <1>6, <1>7, <1>8 DEF Build

\* Writing keeps them.
LEMMA WriteType ==
    ASSUME TypeOK, NEW r \in Runs, RunInv(r), Write(r)
    PROVE  TypeOK'
<1>n. Null \in Optional(Patches)
    BY DEF Optional
<1>o. outcome[r] \in Outcomes /\ inputs[r] \in InputRecords
    BY DEF TypeOK
<1>d. Document(r) \in Documents
    BY <1>o DEF Document, Documents
<1>w. pc[r] \in {"bundle", "evidence"} => workspace \in Workspaces
    BY WorkspaceType
<1>s. Workspaces \subseteq Optional(Workspaces)
    BY DEF Optional
<1>e. \A o \in Outcomes : EvidenceWriteFailed(o) \in Outcomes
    <2> TAKE o \in Outcomes
    <2>1. SetFailure(o, "EVIDENCE_WRITE_FAILED", Null) \in Outcomes
        BY <1>n, SetFailureType DEF Failures
    <2> QED BY <2>1, OutcomeFields, OutcomeType DEF EvidenceWriteFailed
<1>b. WithBundle(outcome[r]) \in Outcomes
    <2>1. (outcome[r].class \in PatchFailures) \in BOOLEAN
        OBVIOUS
    <2> DEFINE b == outcome[r].class \in PatchFailures
    <2>2. b \in BOOLEAN
        BY <2>1
    <2> HIDE DEF b
    <2>3. \A c \in BOOLEAN : LET o == outcome[r] IN
            Outcome(o.class, o.failed, o.attempted, o.applied, o.status, o.pass, c) \in Outcomes
        BY <1>o, OutcomeFields, OutcomeType
    <2>4. LET o == outcome[r] IN
            Outcome(o.class, o.failed, o.attempted, o.applied, o.status, o.pass, b) \in Outcomes
        BY <2>2, <2>3
    <2> QED BY <2>4 DEF WithBundle, b
<1>1. CASE Judge(r)
    <2>1. outcome' \in [Runs -> Outcomes]
        BY <1>1, <1>b, <1>e DEF Judge, TypeOK
    <2>2. pc' \in [Runs -> Stages]
        BY <1>1 DEF Judge, Goto, TypeOK, Stages, Writing
    <2> QED BY <1>1, <2>1, <2>2 DEF Judge, TypeOK
<1>2. CASE WriteBundle(r)
    <2>1. workspace' \in Workspaces
        BY <1>2, <1>d, <1>w DEF WriteBundle, Workspaces, Optional
    <2> QED BY <1>2, <2>1, <1>s DEF WriteBundle, Goto, TypeOK, Stages, Writing
<1>3. CASE WriteEvidence(r)
    <2>1. workspace' \in Workspaces
        BY <1>3, <1>d, <1>w DEF WriteEvidence, Workspaces, Optional
    <2> QED BY <1>3, <2>1, <1>s DEF WriteEvidence, Goto, TypeOK, Stages, Writing
<1>4. CASE WriteFails(r)
    BY <1>4, <1>o, <1>e DEF WriteFails, Goto, TypeOK, Stages, Writing
<1> QED BY <1>1, <1>2, <1>3, <1>4 DEF Write

-----------------------------------------------------------------------------
(* A step of one run leaves the others alone                               *)

\* What a step of r leaves alone: every other run, and a workspace that is
\* there and not its own.
Frame(r) ==
    /\ \A q \in Runs \ {r} :
        /\ pc'[q] = pc[q] /\ inputs'[q] = inputs[q]
        /\ outcome'[q] = outcome[q] /\ created'[q] = created[q]
    /\ \/ workspace' = workspace
       \/ /\ workspace = Null \/ created[r]
          /\ workspace' # Null /\ workspace'.owner = r

\* A failing run changes no other.
LEMMA FailFrame ==
    ASSUME TypeOK, NEW r \in Runs, NEW class, NEW failed, Fail(r, class, failed)
    PROVE  \A q \in Runs \ {r} : pc'[q] = pc[q] /\ outcome'[q] = outcome[q]
BY DEF Fail, Goto, TypeOK

\* A run in preflight leaves the others alone.
LEMMA ReadFrame ==
    ASSUME TypeOK, NEW r \in Runs, RunInv(r), Read(r)
    PROVE  Frame(r)
<1>l. ASSUME NEW stage, NEW learnt, NEW next, Learn(r, stage, learnt, next)
      PROVE  Frame(r)
    BY <1>l DEF Learn, Goto, TypeOK, Frame
<1>1. CASE Refuse(r)
    BY <1>1, FailFrame DEF Refuse, Frame
<1>2. CASE Accept(r)
    BY <1>2 DEF Accept, Goto, TypeOK, Frame
<1>3. CASE MakeWorkspace(r)
    <2>1. NewWorkspace(r) \in Workspaces
        BY DEF NewWorkspace, Workspaces, Optional
    <2>2. NewWorkspace(r) # Null /\ NewWorkspace(r).owner = r
        BY <2>1, NullAssumption DEF NewWorkspace
    <2> QED BY <1>3, <2>2, FailFrame DEF MakeWorkspace, Goto, TypeOK, Frame
<1>4. CASE LoadRequest(r)
    BY <1>4, <1>l DEF LoadRequest
<1>5. CASE HashSource(r)
    BY <1>5, <1>l DEF HashSource
<1>6. CASE FindGit(r)
    BY <1>6, <1>l DEF FindGit
<1>7. CASE ReadPatchSeries(r)
    BY <1>7, <1>l DEF ReadPatchSeries
<1>8. CASE BuildPlan(r)
    BY <1>8, <1>l DEF BuildPlan
<1>9. CASE ReadingFails(r)
    BY <1>9, FailFrame DEF ReadingFails, Frame
<1> QED BY <1>1, <1>2, <1>3, <1>4, <1>5, <1>6, <1>7, <1>8, <1>9 DEF Read

\* All steps that build have this much in common.
LEMMA BuildSteps ==
    ASSUME NEW r, Build(r)
    PROVE  pc[r] \in Building /\ UNCHANGED <<version, inputs, created>>
BY DEF Build, StartCopy, FinishCopy, CopyFails, Materialize, MaterializeFails, CheckPatch,
       ApplyPatch, BuildingFails, Building

\* A step that builds leaves the workspace as it was but for its tree.
LEMMA BuildKeepsDocuments ==
    ASSUME TypeOK, NEW r \in Runs, RunInv(r), Build(r)
    PROVE  /\ created[r] /\ workspace # Null /\ workspace.owner = r
           /\ workspace' # Null /\ workspace'.owner = r
           /\ workspace'.bundle = workspace.bundle
           /\ workspace'.evidence = workspace.evidence
<1>1. created[r] /\ workspace # Null /\ workspace.owner = r
    BY BuildSteps, WorkspaceType
<1> QED BY <1>1, BuildTrees, SetTreeType

\* A building run changes only the workspace it owns.
LEMMA BuildFrame ==
    ASSUME TypeOK, NEW r \in Runs, RunInv(r), Build(r)
    PROVE  Frame(r)
<1>c. ASSUME NEW o, Continue(r, o)
      PROVE  \A q \in Runs \ {r} : pc'[q] = pc[q] /\ outcome'[q] = outcome[q]
    BY <1>c DEF Continue, Goto, TypeOK
<1>1. \A q \in Runs \ {r} : pc'[q] = pc[q] /\ outcome'[q] = outcome[q]
    <2>1. CASE StartCopy(r)
        BY <2>1 DEF StartCopy, Goto, TypeOK
    <2>2. CASE FinishCopy(r)
        BY <2>2 DEF FinishCopy, Goto, TypeOK
    <2>3. CASE CopyFails(r) \/ MaterializeFails(r) \/ BuildingFails(r)
        BY <2>3, FailFrame DEF CopyFails, MaterializeFails, BuildingFails
    <2>4. CASE Materialize(r) \/ ApplyPatch(r)
        BY <2>4, <1>c, FailFrame DEF Materialize, ApplyPatch
    <2>5. CASE CheckPatch(r)
        BY <2>5 DEF CheckPatch, Goto, TypeOK
    <2> QED BY <2>1, <2>2, <2>3, <2>4, <2>5 DEF Build
<1> QED BY <1>1, BuildSteps, BuildKeepsDocuments DEF Frame

\* What writing does to the workspace.
LEMMA WriteDocuments ==
    ASSUME TypeOK, NEW r \in Runs, RunInv(r), WriteBundle(r) \/ WriteEvidence(r)
    PROVE  /\ created[r] /\ workspace # Null /\ workspace.owner = r
           /\ workspace' # Null /\ workspace'.owner = r
           /\ workspace'.tree = workspace.tree
           /\ WriteBundle(r) => /\ workspace'.bundle = Document(r)
                                /\ workspace'.evidence = workspace.evidence
           /\ WriteEvidence(r) => /\ workspace'.bundle = workspace.bundle
                                  /\ workspace'.evidence = Document(r)
<1>1. created[r] /\ workspace \in Workspaces /\ workspace # Null /\ workspace.owner = r
    BY WorkspaceType DEF WriteBundle, WriteEvidence
<1>2. Document(r) \in Documents
    BY DEF Document, Documents, TypeOK
<1>3. CASE WriteBundle(r)
    <2>1. workspace' \in Workspaces
        BY <1>1, <1>2, <1>3 DEF WriteBundle, Workspaces, Optional
    <2>2. workspace' # Null
        BY <2>1, NullAssumption
    <2>3. pc[r] = "bundle"
        BY <1>3 DEF WriteBundle
    <2> QED BY <1>1, <1>3, <2>1, <2>2, <2>3 DEF WriteBundle, WriteEvidence, Workspaces
<1>4. CASE WriteEvidence(r)
    <2>1. workspace' \in Workspaces
        BY <1>1, <1>2, <1>4 DEF WriteEvidence, Workspaces, Optional
    <2>2. workspace' # Null
        BY <2>1, NullAssumption
    <2>3. pc[r] = "evidence"
        BY <1>4 DEF WriteEvidence
    <2> QED BY <1>1, <1>4, <2>1, <2>2, <2>3 DEF WriteBundle, WriteEvidence, Workspaces
<1> QED BY <1>3, <1>4

\* So does one that writes.
LEMMA WriteFrame ==
    ASSUME TypeOK, NEW r \in Runs, RunInv(r), Write(r) \/ Crash(r)
    PROVE  Frame(r)
<1>1. CASE WriteBundle(r) \/ WriteEvidence(r)
    BY <1>1, WriteDocuments DEF WriteBundle, WriteEvidence, Goto, TypeOK, Frame
<1>2. CASE Judge(r)
    BY <1>2 DEF Judge, Goto, TypeOK, Frame
<1>3. CASE WriteFails(r)
    BY <1>3 DEF WriteFails, Goto, TypeOK, Frame
<1>4. CASE Crash(r)
    BY <1>4 DEF Crash, Goto, TypeOK, Frame
<1> QED BY <1>1, <1>2, <1>3, <1>4 DEF Write

\* The other runs keep their invariant: what it says of the workspace holds
\* of the run that owns it only.
LEMMA OthersKeep ==
    ASSUME TypeOK, NEW r \in Runs, RunInv(r), Frame(r), NEW q \in Runs, q # r, RunInv(q)
    PROVE  RunInv(q)'
<1>1. pc'[q] = pc[q] /\ inputs'[q] = inputs[q] /\ outcome'[q] = outcome[q]
        /\ created'[q] = created[q]
    BY DEF Frame
<1>2. Learnt(q)'
    BY <1>1 DEF RunInv, Learnt
<1>3. CASE workspace' = workspace
    <2>1. Owned(q)'
        BY <1>1, <1>3 DEF RunInv, Owned
    <2>2. Built(q)' /\ Reported(q)'
        BY <1>1, <1>3 DEF RunInv, Built, Reported, TreeHolds
    <2> QED BY <1>2, <2>1, <2>2 DEF RunInv
<1>4. CASE workspace' # Null /\ workspace'.owner = r /\ (workspace = Null \/ created[r])
    <2>1. ~ created[q] /\ Owned(q)'
        BY <1>1, <1>4 DEF RunInv, Owned
    <2>2. pc[q] \notin Later \cup Building \cup {"bundle", "evidence"}
        BY <2>1 DEF RunInv, Owned
    <2>3. Built(q)'
        BY <1>1, <2>2 DEF RunInv, Built, Later, Building
    <2>4. Reported(q)'
        BY <1>1, <2>1, <2>2 DEF RunInv, Reported
    <2> QED BY <1>2, <2>1, <2>3, <2>4 DEF RunInv
<1> QED BY <1>3, <1>4 DEF Frame

-----------------------------------------------------------------------------
(* A run keeps its own invariant                                           *)

\* Before a run has done anything its invariant holds.
LEMMA InitRunInv == ASSUME Init, NEW r \in Runs PROVE RunInv(r)
<1>1. Owned(r) /\ Learnt(r) /\ Reported(r)
    BY DEF Init, Owned, Learnt, Reported, Later, Reading, Building
<1>2. Built(r)
    BY DEF Init, Built, Later, Reading, Building
<1> QED BY <1>1, <1>2 DEF RunInv

\* A failure before the patches ends in a result that may be written.
LEMMA FailKeeps ==
    ASSUME TypeOK, NEW r \in Runs, RunInv(r), pc[r] \in Reading \cup Building,
           NEW class \in Failures \ PatchFailures, NEW failed, Fail(r, class, failed),
           Frame(r), created' = created, workspace = Null => workspace' = Null
    PROVE  RunInv(r)'
<1>1. pc'[r] = "judge" /\ outcome'[r] = SetFailure(outcome[r], class, failed)
    BY DEF Fail, Goto, TypeOK
<1>2. Owned(r)'
    BY <1>1 DEF RunInv, Owned, Frame, Later, Reading, Building
<1>3. Learnt(r)' /\ Built(r)'
    BY <1>1 DEF Learnt, Built, Later, Reading, Building
<1>4. ~ outcome[r].bundle
    <2>1. CASE pc[r] \in Reading \cup {"copy", "copying"}
        BY <2>1 DEF RunInv, Built, BaseOutcome, Outcome
    <2>2. CASE pc[r] = "materialize"
        BY <2>2 DEF RunInv, Built, Outcome
    <2>3. CASE pc[r] \in {"check", "apply"}
        BY <2>3 DEF RunInv, Built
    <2> QED BY <2>1, <2>2, <2>3 DEF Building
<1>5. class # Null
    BY NullAssumption
<1>6. Reported(r)'
    <2>1. /\ outcome'[r].class = class /\ ~ outcome'[r].pass /\ ~ outcome'[r].bundle
          /\ outcome'[r].status \in {"NOT_CREATED", "FAILED"}
        BY <1>1, <1>4 DEF SetFailure, Outcome
    <2>2. ValidateEvidence(inputs'[r], outcome'[r])
        BY <1>5, <2>1 DEF ValidateEvidence
    <2> QED BY <1>1, <2>1, <2>2 DEF Reported
<1> QED BY <1>2, <1>3, <1>6 DEF RunInv

\* A stage of the preflight that ends well.
LEMMA LearnKeeps ==
    ASSUME TypeOK, NEW r \in Runs, RunInv(r), NEW stage \in Later, NEW learnt,
           NEW next \in Later \cup {"copy"}, Learn(r, stage, learnt, next), Learnt(r)'
    PROVE  RunInv(r)'
<1>1. pc[r] = stage /\ pc'[r] = next /\ workspace' = workspace /\ outcome' = outcome
        /\ created' = created
    BY DEF Learn, Goto, TypeOK
<1>2. Owned(r)' /\ Reported(r)'
    BY <1>1 DEF RunInv, Owned, Reported, Later, Reading, Building
<1>3. Built(r)'
    BY <1>1 DEF RunInv, Built, Later, Reading, Building
<1> QED BY <1>2, <1>3 DEF RunInv

\* Preflight only learns.
LEMMA ReadKeeps ==
    ASSUME TypeOK, NEW r \in Runs, RunInv(r), Read(r)
    PROVE  RunInv(r)'
<1>f. Frame(r)
    BY ReadFrame
<1>v. version[Source] # Null /\ version[Downstream] # Null
    BY NullIsNoPatch DEF TypeOK
<1>i. inputs[r] \in InputRecords
    BY DEF TypeOK
<1>1. CASE Refuse(r)
    BY <1>1, <1>f, FailKeeps DEF Refuse, Reading, Failures, PatchFailures
<1>2. CASE Accept(r)
    <2>1. pc[r] = "start" /\ pc'[r] = "mkdir" /\ UNCHANGED <<workspace, inputs, outcome, created>>
        BY <1>2 DEF Accept, Goto, TypeOK
    <2>2. Owned(r)' /\ Learnt(r)' /\ Reported(r)'
        BY <2>1 DEF RunInv, Owned, Learnt, Reported, Later, Reading, Building
    <2>3. Built(r)'
        BY <2>1 DEF RunInv, Built, Later, Reading, Building
    <2> QED BY <2>2, <2>3 DEF RunInv
<1>3. CASE MakeWorkspace(r)
    <2>1. CASE /\ workspace = Null /\ workspace' = NewWorkspace(r) /\ Goto(r, "request")
               /\ created' = [created EXCEPT ![r] = TRUE] /\ UNCHANGED outcome
        <3>1. pc[r] = "mkdir" /\ pc'[r] = "request" /\ created'[r] /\ inputs' = inputs
            BY <1>3, <2>1 DEF MakeWorkspace, Goto, TypeOK
        <3>2. workspace' # Null /\ workspace'.owner = r /\ workspace'.tree = Null
            <4>1. NewWorkspace(r) \in Workspaces
                BY DEF NewWorkspace, Workspaces, Optional
            <4> QED BY <2>1, <4>1, NullAssumption DEF NewWorkspace
        <3>3. Owned(r)' /\ Learnt(r)' /\ Reported(r)'
            BY <3>1, <3>2 DEF Owned, Learnt, Reported, Later, Reading, Building
        <3>4. Built(r)'
            BY <2>1, <3>1, <3>2 DEF RunInv, Built, Later, Reading, Building
        <3> QED BY <3>3, <3>4 DEF RunInv
    <2>2. CASE Fail(r, "INVALID_WORKSPACE", Null) /\ UNCHANGED <<workspace, created>>
        BY <1>3, <2>2, <1>f, FailKeeps DEF MakeWorkspace, Reading, Failures, PatchFailures
    <2> QED BY <1>3, <2>1, <2>2 DEF MakeWorkspace
<1>4. CASE LoadRequest(r)
    <2>1. pc'[r] = "source" /\ inputs'[r].request
        BY <1>4, <1>i DEF LoadRequest, Learn, Goto, TypeOK, InputRecords
    <2>2. Learnt(r)'
        BY <2>1 DEF Learnt, Building
    <2> QED BY <1>4, <2>2, LearnKeeps DEF LoadRequest, Later, Reading
<1>5. CASE HashSource(r)
    <2>1. pc[r] = "source" /\ pc'[r] = "git" /\ inputs'[r].source # Null
            /\ inputs'[r].request = inputs[r].request
        BY <1>5, <1>i, <1>v DEF HashSource, Learn, Goto, TypeOK, InputRecords
    <2>2. Learnt(r)'
        BY <2>1 DEF RunInv, Learnt, Building
    <2> QED BY <1>5, <2>2, LearnKeeps DEF HashSource, Later, Reading
<1>6. CASE FindGit(r)
    <2>1. pc[r] = "git" /\ pc'[r] = "series" /\ inputs'[r] = inputs[r]
        BY <1>6 DEF FindGit, Learn, Goto, TypeOK
    <2>2. Learnt(r)'
        BY <2>1 DEF RunInv, Learnt, Building
    <2> QED BY <1>6, <2>2, LearnKeeps DEF FindGit, Later, Reading
<1>7. CASE ReadPatchSeries(r)
    <2> DEFINE hashes == [i \in 1..Len(Series) |-> Hashed(Series[i])]
    <2>1. pc[r] = "series" /\ pc'[r] = "plan" /\ inputs'[r] = [inputs[r] EXCEPT !.patches = hashes]
        BY <1>7 DEF ReadPatchSeries, Learn, Goto, TypeOK
    <2>2. inputs'[r].patches = hashes /\ inputs'[r].request = inputs[r].request
            /\ inputs'[r].source = inputs[r].source
        BY <2>1, <1>i DEF InputRecords
    <2>3. PatchNames(hashes) = Series
        <3>1. \A i \in 1..Len(Series) : hashes[i].name = Series[i]
            BY DEF Hashed
        <3>2. Series = [i \in 1..Len(Series) |-> Series[i]]
            BY SeriesType, LenProperties
        <3>3. DOMAIN hashes = 1..Len(Series)
            OBVIOUS
        <3> QED BY <3>1, <3>2, <3>3, Zenon DEF PatchNames
    <2>4. Learnt(r)'
        BY <2>1, <2>2, <2>3 DEF RunInv, Learnt, Building
    <2> QED BY <1>7, <2>4, LearnKeeps DEF ReadPatchSeries, Later, Reading
<1>8. CASE BuildPlan(r)
    <2>1. /\ pc[r] = "plan" /\ pc'[r] = "copy" /\ inputs'[r].downstream # Null
          /\ inputs'[r].request = inputs[r].request /\ inputs'[r].source = inputs[r].source
          /\ inputs'[r].patches = inputs[r].patches
        BY <1>8, <1>i, <1>v DEF BuildPlan, Learn, Goto, TypeOK, InputRecords
    <2>2. Learnt(r)'
        BY <2>1 DEF RunInv, Learnt, Building
    <2> QED BY <1>8, <2>2, LearnKeeps DEF BuildPlan, Later, Reading
<1>9. CASE ReadingFails(r)
    <2>1. CASE \E class \in ReadingFailures(pc[r]) : Fail(r, class, Null)
        <3> PICK class \in ReadingFailures(pc[r]) : Fail(r, class, Null)
            BY <2>1
        <3>1. class \in Failures \ PatchFailures
            BY <1>9 DEF ReadingFails, ReadingFailures, Reading, Failures, PatchFailures
        <3> QED BY <1>9, <3>1, <1>f, FailKeeps DEF ReadingFails
    <2>2. CASE \E i \in 1..Len(Series) : Fail(r, "INVALID_SERIES", Series[i])
        BY <1>9, <2>2, <1>f, FailKeeps DEF ReadingFails, Failures, PatchFailures
    <2> QED BY <1>9, <2>1, <2>2 DEF ReadingFails
<1> QED BY <1>1, <1>2, <1>3, <1>4, <1>5, <1>6, <1>7, <1>8, <1>9 DEF Read

\* The tree of the next state holds the first n patches.
WillHold(n) ==
    /\ workspace'.tree # Null
    /\ workspace'.tree.source # Null
    /\ workspace'.tree.downstream # Null
    /\ ~ workspace'.tree.partial
    /\ Len(workspace'.tree.applied) = n
    /\ \A i \in 1..n : workspace'.tree.applied[i].name = Series[i]

\* An outcome in which every patch tried so far was applied.
SoFar(o) ==
    /\ Begins(o.applied) /\ Begins(o.attempted) /\ Len(o.attempted) = Len(o.applied)
    /\ o.class = Null /\ o.failed = Null /\ o.status = "PREPARED" /\ ~ o.pass /\ ~ o.bundle

\* The beginning of the series that is as long as the series is the series.
LEMMA WholeSeries ==
    ASSUME NEW s \in Seq(Patches), Begins(s), ~ (Len(s) < Len(Series))
    PROVE  s = Series
<1>1. Len(s) = Len(Series)
    BY SeriesType, LenProperties DEF Begins
<1> QED BY <1>1, SeriesType, SeqEqual DEF Begins

\* One patch more is still a beginning of the series.
LEMMA BeginsAppend ==
    ASSUME NEW s \in Seq(Patches), Begins(s), Len(s) < Len(Series)
    PROVE  /\ Begins(Append(s, Series[Len(s) + 1]))
           /\ Len(Append(s, Series[Len(s) + 1])) = Len(s) + 1
<1>1. Len(s) \in Nat /\ Series[Len(s) + 1] \in Patches
    BY SeriesType, LenProperties
<1> DEFINE t == Append(s, Series[Len(s) + 1])
<1>2. /\ Len(t) = Len(s) + 1
      /\ \A i \in 1..Len(s) : t[i] = s[i]
      /\ t[Len(s) + 1] = Series[Len(s) + 1]
    BY <1>1, AppendKeeps
<1> HIDE DEF t
<1>3. Begins(t)
    BY <1>1, <1>2, SeriesType DEF Begins
<1> QED BY <1>2, <1>3 DEF t

\* Building on.
LEMMA ContinueKeeps ==
    ASSUME TypeOK, NEW r \in Runs, RunInv(r), Build(r), NEW o \in Outcomes, Continue(r, o),
           SoFar(o), WillHold(Len(o.applied))
    PROVE  RunInv(r)'
<1>1. /\ pc[r] \in Building /\ inputs' = inputs /\ created' = created
      /\ created[r] /\ workspace' # Null /\ workspace'.owner = r
    BY BuildSteps, BuildKeepsDocuments
<1>2. CASE Len(o.applied) < Len(Series)
    <2>1. pc'[r] = "check" /\ outcome'[r] = o
        BY <1>2 DEF Continue, Goto, TypeOK
    <2>2. Owned(r)' /\ Learnt(r)' /\ Reported(r)'
        BY <1>1, <2>1 DEF RunInv, Owned, Learnt, Reported, Later, Reading, Building
    <2>3. TreeHolds(Len(outcome[r].applied))'
        BY <2>1 DEF WillHold, TreeHolds
    <2>4. Len(outcome'[r].attempted) = Len(outcome'[r].applied) + 0
        BY <2>1, OutcomeFields, LenProperties DEF SoFar
    <2>5. Built(r)'
        BY <1>2, <2>1, <2>3, <2>4 DEF Built, Later, Reading, SoFar, WillHold, Begins
    <2> QED BY <2>2, <2>5 DEF RunInv
<1>3. CASE ~ (Len(o.applied) < Len(Series))
    <2>1. /\ pc'[r] = "judge"
          /\ outcome'[r] = Outcome(o.class, o.failed, o.attempted, o.applied, "COMPLETE", TRUE, o.bundle)
        BY <1>3 DEF Continue, Goto, TypeOK, WithStatus
    <2>2. o.applied = Series
        BY <1>3, OutcomeFields, WholeSeries DEF SoFar
    <2>3. Owned(r)' /\ Learnt(r)' /\ Built(r)'
        BY <1>1, <2>1 DEF RunInv, Owned, Learnt, Built, Later, Reading, Building
    <2>4. inputs[r].request /\ inputs[r].source # Null /\ PatchNames(inputs[r].patches) = Series
        BY <1>1 DEF RunInv, Learnt
    <2>5. /\ outcome'[r].class = Null /\ outcome'[r].failed = Null /\ outcome'[r].pass = TRUE
          /\ outcome'[r].bundle = o.bundle /\ outcome'[r].applied = Series
          /\ outcome'[r].status = "COMPLETE"
        BY <2>1, <2>2 DEF Outcome, SoFar
    <2>6. ValidateEvidence(inputs'[r], outcome'[r])
        BY <1>1, <2>4, <2>5 DEF ValidateEvidence
    <2>7. TreeHolds(Len(Series))' /\ ~ workspace'.tree.partial
        BY <2>2 DEF WillHold, TreeHolds
    <2>8. Null \notin PatchFailures
        BY NullAssumption DEF Failures
    <2>9. Reported(r)'
        BY <1>1, <2>1, <2>5, <2>6, <2>7, <2>8 DEF Reported, SoFar
    <2> QED BY <2>3, <2>9 DEF RunInv
<1> QED BY <1>2, <1>3

\* A patch that fails ends in a result that names it.
LEMMA PatchFailureKeeps ==
    ASSUME TypeOK, NEW r \in Runs, RunInv(r), Build(r), NEW o \in Outcomes,
           NEW class \in PatchFailures, pc'[r] = "judge",
           outcome'[r] = SetFailure(o, class, Series[Len(o.attempted)]),
           Begins(o.applied), Begins(o.attempted), Len(o.attempted) = Len(o.applied) + 1,
           ~ o.bundle, TreeHolds(Len(o.applied)),
           workspace'.tree # Null, workspace'.tree.source = workspace.tree.source,
           workspace'.tree.downstream = workspace.tree.downstream,
           workspace'.tree.applied = workspace.tree.applied
    PROVE  RunInv(r)'
<1>1. /\ pc[r] \in Building /\ inputs' = inputs /\ created' = created
      /\ created[r] /\ workspace' # Null /\ workspace'.owner = r
    BY BuildSteps, BuildKeepsDocuments
<1>2. Owned(r)' /\ Learnt(r)' /\ Built(r)'
    BY <1>1 DEF RunInv, Owned, Learnt, Built, Later, Reading, Building
<1>3. /\ outcome'[r].class = class /\ outcome'[r].failed = Series[Len(o.attempted)]
      /\ outcome'[r].attempted = o.attempted /\ outcome'[r].applied = o.applied
      /\ ~ outcome'[r].pass /\ ~ outcome'[r].bundle
      /\ outcome'[r].status \in {"NOT_CREATED", "FAILED"}
    BY DEF SetFailure, Outcome
<1>4. class # Null
    BY NullAssumption DEF Failures
<1>5. ValidateEvidence(inputs'[r], outcome'[r])
    BY <1>3, <1>4 DEF ValidateEvidence
<1>6. TreeHolds(Len(outcome[r].applied))'
    BY <1>3 DEF TreeHolds
<1>7. StoppedAt(outcome'[r])
    BY <1>3 DEF StoppedAt
<1>8. Reported(r)'
    BY <1>1, <1>3, <1>5, <1>6, <1>7 DEF Reported, StoppedAt, Begins
<1> QED BY <1>2, <1>8 DEF RunInv

\* Building changes tree and record together.
LEMMA BuildKeeps ==
    ASSUME TypeOK, NEW r \in Runs, RunInv(r), Build(r)
    PROVE  RunInv(r)'
<1>b. /\ pc[r] \in Building /\ inputs' = inputs /\ created' = created
      /\ created[r] /\ workspace # Null /\ workspace.owner = r
      /\ workspace' # Null /\ workspace'.owner = r
    BY BuildSteps, BuildKeepsDocuments
<1>f. ASSUME NEW class \in Failures \ PatchFailures, NEW failed, Fail(r, class, failed)
      PROVE  RunInv(r)'
    BY <1>f, <1>b, BuildFrame, FailKeeps
<1>v. /\ version[Source] \in Optional(Versions) /\ version[Downstream] \in Optional(Versions)
      /\ version[Source] # Null /\ version[Downstream] # Null
      /\ Null \in Optional(Versions) /\ <<>> \in Seq(HashedPatches) /\ Len(<<>>) = 0
    BY EmptySeq, NullIsNoPatch DEF TypeOK, Optional
<1>t. ASSUME NEW tree \in Trees, SetTree(tree)
      PROVE  workspace'.tree = tree /\ tree # Null
    BY <1>t, <1>b, SetTreeType, NullAssumption
<1>1. CASE StartCopy(r)
    <2>1. Unfinished \in Trees
        BY <1>v, TreeType DEF Unfinished
    <2>2. pc[r] = "copy" /\ pc'[r] = "copying" /\ outcome' = outcome /\ workspace'.tree # Null
        BY <1>1, <2>1, <1>t DEF StartCopy, Goto, TypeOK
    <2>3. Owned(r)' /\ Learnt(r)' /\ Reported(r)'
        BY <1>b, <2>2 DEF RunInv, Owned, Learnt, Reported, Later, Reading, Building
    <2>4. Built(r)'
        BY <2>2 DEF RunInv, Built, Later, Reading
    <2> QED BY <2>3, <2>4 DEF RunInv
<1>2. CASE FinishCopy(r)
    <2> DEFINE tree == Tree(version[Source], Null, <<>>, FALSE)
    <2>1. tree \in Trees /\ SetTree(tree)
        BY <1>2, <1>v, TreeType DEF FinishCopy
    <2>2. workspace'.tree = tree /\ tree # Null
        BY <2>1, <1>t
    <2>3. workspace'.tree.source # Null /\ workspace'.tree.applied = <<>> /\ ~ workspace'.tree.partial
        BY <2>2, <1>v DEF Tree
    <2>4. pc[r] = "copying" /\ pc'[r] = "materialize"
        BY <1>2 DEF FinishCopy, Goto, TypeOK
    <2>5. outcome'[r] = Outcome(Null, Null, <<>>, <<>>, "PREPARED", FALSE, FALSE)
        <3>1. outcome[r] = BaseOutcome
            BY <2>4 DEF RunInv, Built
        <3> QED BY <1>2, <3>1 DEF FinishCopy, TypeOK, BaseOutcome, Outcome, WithStatus
    <2>6. Owned(r)' /\ Learnt(r)' /\ Reported(r)'
        BY <1>b, <2>4 DEF RunInv, Owned, Learnt, Reported, Later, Reading, Building
    <2>7. Built(r)'
        BY <2>2, <2>3, <2>4, <2>5 DEF Built, Later, Reading
    <2> QED BY <2>6, <2>7 DEF RunInv
<1>3. CASE CopyFails(r)
    BY <1>3, <1>f DEF CopyFails, Failures, PatchFailures
<1>4. CASE Materialize(r)
    <2> DEFINE t    == workspace.tree
               tree == Tree(t.source, version[Downstream], t.applied, t.partial)
    <2>1. pc[r] = "materialize" /\ SetTree(tree) /\ Continue(r, outcome[r])
        BY <1>4 DEF Materialize
    <2>2. /\ t # Null /\ t.source # Null /\ t.applied = <<>> /\ ~ t.partial
          /\ outcome[r] = Outcome(Null, Null, <<>>, <<>>, "PREPARED", FALSE, FALSE)
        BY <2>1 DEF RunInv, Built
    <2>3. t \in Trees
        BY <2>1, WorkspaceType
    <2>4. tree \in Trees
        BY <2>3, <1>v, TreeType DEF Trees
    <2>5. workspace'.tree = tree /\ tree # Null
        BY <2>1, <2>4, <1>t
    <2>6. WillHold(0)
        BY <2>2, <2>5, <1>v DEF WillHold, Tree
    <2>7. SoFar(outcome[r]) /\ Len(outcome[r].applied) = 0
        BY <2>2, SeriesType, <1>v DEF SoFar, Begins, Outcome
    <2>8. outcome[r] \in Outcomes
        BY DEF TypeOK
    <2> QED BY <2>1, <2>6, <2>7, <2>8, ContinueKeeps
<1>5. CASE MaterializeFails(r)
    BY <1>5, <1>f DEF MaterializeFails, Failures, PatchFailures
<1>6. CASE CheckPatch(r)
    <2> DEFINE o == outcome[r]
    <2>1. pc[r] = "check" /\ workspace' = workspace
        BY <1>6 DEF CheckPatch
    <2>2. /\ TreeHolds(Len(o.applied)) /\ ~ workspace.tree.partial
          /\ Begins(o.applied) /\ Begins(o.attempted) /\ Len(o.applied) < Len(Series)
          /\ Len(o.attempted) = Len(o.applied) + 0
          /\ o.class = Null /\ o.failed = Null /\ o.status = "PREPARED" /\ ~ o.pass /\ ~ o.bundle
        BY <2>1 DEF RunInv, Built
    <2>3. o \in Outcomes /\ o.attempted \in Seq(Patches) /\ Len(o.applied) \in Nat
        BY OutcomeFields, LenProperties DEF TypeOK
    <2>4. Len(o.attempted) = Len(o.applied) /\ NextPatch(r) = Series[Len(o.attempted) + 1]
        BY <2>2, <2>3 DEF NextPatch
    <2>5. /\ Begins(Append(o.attempted, NextPatch(r)))
          /\ Len(Append(o.attempted, NextPatch(r))) = Len(o.applied) + 1
        BY <2>2, <2>3, <2>4, BeginsAppend
    <2>6. /\ Attempted(r).attempted = Append(o.attempted, NextPatch(r))
          /\ Attempted(r).applied = o.applied /\ Attempted(r).class = Null
          /\ Attempted(r).failed = Null /\ Attempted(r).status = "PREPARED"
          /\ ~ Attempted(r).pass /\ ~ Attempted(r).bundle
        BY <2>2 DEF Attempted, Outcome
    <2>7. Attempted(r) \in Outcomes
        BY <2>1, PatchTypes
    <2>8. CASE outcome' = [outcome EXCEPT ![r] = Attempted(r)] /\ Goto(r, "apply")
        <3>1. pc'[r] = "apply" /\ outcome'[r] = Attempted(r)
            BY <2>8 DEF Goto, TypeOK
        <3>2. Owned(r)' /\ Learnt(r)' /\ Reported(r)'
            BY <1>b, <3>1 DEF RunInv, Owned, Learnt, Reported, Later, Reading, Building
        <3>3. TreeHolds(Len(outcome[r].applied))'
            BY <2>1, <2>2, <2>6, <3>1 DEF TreeHolds
        <3>4. Built(r)'
            BY <2>1, <2>2, <2>5, <2>6, <3>1, <3>3 DEF Built, Later, Reading, Begins
        <3> QED BY <3>2, <3>4 DEF RunInv
    <2>9. CASE /\ outcome' = [outcome EXCEPT ![r] =
                        SetFailure(Attempted(r), "PATCH_CHECK_FAILED", NextPatch(r))]
               /\ Goto(r, "judge")
        <3>1. /\ pc'[r] = "judge"
              /\ outcome'[r] = SetFailure(Attempted(r), "PATCH_CHECK_FAILED", NextPatch(r))
            BY <2>9 DEF Goto, TypeOK
        <3>2. NextPatch(r) = Series[Len(Attempted(r).attempted)]
            BY <2>3, <2>4, <2>5, <2>6
        <3>3. workspace'.tree # Null
            BY <2>1, <2>2 DEF TreeHolds
        <3> QED BY <2>1, <2>2, <2>5, <2>6, <2>7, <3>1, <3>2, <3>3, PatchFailureKeeps DEF PatchFailures
    <2> QED BY <1>6, <2>8, <2>9 DEF CheckPatch
<1>7. CASE ApplyPatch(r)
    <2> DEFINE o == outcome[r]
    <2>1. pc[r] = "apply"
        BY <1>7 DEF ApplyPatch
    <2>2. /\ TreeHolds(Len(o.applied)) /\ ~ workspace.tree.partial
          /\ Begins(o.applied) /\ Begins(o.attempted) /\ Len(o.applied) < Len(Series)
          /\ Len(o.attempted) = Len(o.applied) + 1
          /\ o.class = Null /\ o.failed = Null /\ o.status = "PREPARED" /\ ~ o.pass /\ ~ o.bundle
        BY <2>1 DEF RunInv, Built
    <2>3. o \in Outcomes /\ o.applied \in Seq(Patches) /\ Len(o.applied) \in Nat
        BY OutcomeFields, LenProperties DEF TypeOK
    <2>4. NextPatch(r) \in Patches /\ NextPatch(r) = Series[Len(o.applied) + 1]
        BY <2>1, WorkspaceType DEF NextPatch
    <2>5. PatchedTree(r) \in Trees /\ \A torn \in BOOLEAN : TornTree(torn) \in Trees
        BY <2>1, PatchTypes
    <2>6. CASE SetTree(PatchedTree(r)) /\ Continue(r, Applied(r))
        <3>1. Applied(r) \in Outcomes
            BY <2>1, PatchTypes
        <3>2. /\ Applied(r).applied = Append(o.applied, NextPatch(r))
              /\ Applied(r).attempted = o.attempted /\ Applied(r).class = Null
              /\ Applied(r).failed = Null /\ Applied(r).status = "PREPARED"
              /\ ~ Applied(r).pass /\ ~ Applied(r).bundle
            BY <2>2 DEF Applied, Outcome
        <3>3. /\ Begins(Append(o.applied, NextPatch(r)))
              /\ Len(Append(o.applied, NextPatch(r))) = Len(o.applied) + 1
            BY <2>2, <2>3, <2>4, BeginsAppend
        <3>4. SoFar(Applied(r))
            BY <2>2, <3>2, <3>3 DEF SoFar
        <3>5. WillHold(Len(o.applied) + 1)
            <4> DEFINE applied == workspace.tree.applied
                       h       == Hashed(NextPatch(r))
            <4>1. workspace.tree \in Trees /\ applied \in Seq(HashedPatches)
                BY <2>1, WorkspaceType DEF Trees
            <4>2. h \in HashedPatches /\ h.name = NextPatch(r)
                BY <2>4 DEF Hashed, HashedPatches, TypeOK
            <4>3. /\ Len(Append(applied, h)) = Len(applied) + 1
                  /\ \A i \in 1..Len(applied) : Append(applied, h)[i] = applied[i]
                  /\ Append(applied, h)[Len(applied) + 1] = h
                BY <4>1, <4>2, AppendKeeps
            <4>4. Len(applied) = Len(o.applied)
                    /\ \A i \in 1..Len(o.applied) : applied[i].name = Series[i]
                BY <2>2 DEF TreeHolds
            <4> DEFINE appended == Append(applied, h)
            <4>5. /\ workspace'.tree = PatchedTree(r) /\ workspace'.tree # Null
                BY <2>5, <2>6, <1>t
            <4>6. /\ workspace'.tree.source # Null /\ workspace'.tree.downstream # Null
                  /\ ~ workspace'.tree.partial /\ workspace'.tree.applied = appended
                BY <2>2, <4>5 DEF PatchedTree, Tree, TreeHolds
            <4>7. Len(appended) = Len(o.applied) + 1
                    /\ \A i \in 1..Len(o.applied) + 1 : appended[i].name = Series[i]
                <5> HIDE DEF h
                <5>1. \A i \in 1..Len(o.applied) : appended[i].name = Series[i]
                    BY <4>3, <4>4
                <5>2. appended[Len(o.applied) + 1].name = Series[Len(o.applied) + 1]
                    BY <4>2, <4>3, <4>4, <2>4
                <5>3. Len(appended) = Len(o.applied) + 1
                    BY <4>3, <4>4
                <5> HIDE DEF appended
                <5> QED BY <5>1, <5>2, <5>3, <2>3
            <4> HIDE DEF appended
            <4> QED BY <4>5, <4>6, <4>7 DEF WillHold
        <3> QED BY <2>6, <3>1, <3>2, <3>3, <3>4, <3>5, ContinueKeeps
    <2>7. CASE /\ \E torn \in BOOLEAN : SetTree(TornTree(torn))
               /\ Fail(r, "PATCH_APPLY_FAILED", NextPatch(r))
        <3> PICK torn \in BOOLEAN : SetTree(TornTree(torn))
            BY <2>7
        <3>1. workspace'.tree = TornTree(torn) /\ workspace'.tree # Null
            BY <2>5, <1>t
        <3>2. /\ workspace'.tree.source = workspace.tree.source
              /\ workspace'.tree.downstream = workspace.tree.downstream
              /\ workspace'.tree.applied = workspace.tree.applied
            BY <3>1 DEF TornTree, Tree
        <3>3. /\ pc'[r] = "judge"
              /\ outcome'[r] = SetFailure(o, "PATCH_APPLY_FAILED", Series[Len(o.attempted)])
            BY <2>2, <2>4, <2>7 DEF Fail, Goto, TypeOK
        <3> QED BY <2>2, <2>3, <3>1, <3>2, <3>3, PatchFailureKeeps DEF PatchFailures
    <2> QED BY <1>7, <2>6, <2>7 DEF ApplyPatch
<1>8. CASE BuildingFails(r)
    BY <1>8, <1>f DEF BuildingFails, Failures, PatchFailures
<1> QED BY <1>1, <1>2, <1>3, <1>4, <1>5, <1>6, <1>7, <1>8 DEF Build

\* Validity does not depend on the repair bundle.
LEMMA BundleKeepsValidity ==
    ASSUME NEW i, NEW o
    PROVE  /\ ValidateEvidence(i, WithBundle(o)) <=> ValidateEvidence(i, o)
           /\ WithBundle(o).class = o.class /\ WithBundle(o).pass = o.pass
           /\ WithBundle(o).applied = o.applied /\ WithBundle(o).attempted = o.attempted
           /\ WithBundle(o).failed = o.failed
           /\ WithBundle(o).bundle <=> o.class \in PatchFailures
BY DEF ValidateEvidence, WithBundle, Outcome

\* The result of a run that owns no workspace, or that could not be written.
LEMMA EndKeeps ==
    ASSUME TypeOK, NEW r \in Runs, RunInv(r), pc'[r] \in {"done", "dead"},
           workspace' = workspace, created' = created
    PROVE  RunInv(r)'
<1>1. Owned(r)'
    BY DEF RunInv, Owned, Later, Reading, Building
<1>2. Learnt(r)' /\ Built(r)' /\ Reported(r)'
    BY DEF Learnt, Built, Reported, Later, Reading, Building
<1> QED BY <1>1, <1>2 DEF RunInv

\* What is written agrees with the tree.
LEMMA WriteKeeps ==
    ASSUME TypeOK, NEW r \in Runs, RunInv(r), Write(r) \/ Crash(r)
    PROVE  RunInv(r)'
<1>1. CASE Judge(r)
    <2> DEFINE o == WithBundle(outcome[r])
    <2>1. pc[r] = "judge" /\ UNCHANGED <<version, workspace, inputs, created>>
        BY <1>1 DEF Judge
    <2>2. ValidateEvidence(inputs[r], outcome[r])
        BY <2>1 DEF RunInv, Reported
    <2>3. outcome'[r] = o
        BY <1>1, <2>2, BundleKeepsValidity DEF Judge, TypeOK
    <2>4. CASE ~ created[r]
        <3>1. pc'[r] = "done"
            BY <1>1, <2>4 DEF Judge, Goto, TypeOK
        <3> QED BY <2>1, <3>1, EndKeeps
    <2>5. CASE created[r]
        <3>1. pc'[r] = IF o.bundle THEN "bundle" ELSE "evidence"
            BY <1>1, <2>2, <2>5, BundleKeepsValidity DEF Judge, Goto, TypeOK
        <3>2. Owned(r)'
            BY <2>1, <2>5, <3>1 DEF RunInv, Owned, Later, Reading, Building
        <3>3. Learnt(r)' /\ Built(r)'
            BY <3>1 DEF Learnt, Built, Later, Reading, Building
        <3>4. StoppedAt(outcome[r]) => StoppedAt(outcome'[r])
            BY <2>3, BundleKeepsValidity DEF StoppedAt
        <3>5. /\ TreeHolds(Len(Series)) => TreeHolds(Len(Series))'
              /\ TreeHolds(Len(outcome[r].applied)) => TreeHolds(Len(outcome[r].applied))'
            <4>1. outcome'[r].applied = outcome[r].applied
                BY <2>3, BundleKeepsValidity
            <4> QED BY <2>1, <4>1 DEF TreeHolds
        <3>6. ValidateEvidence(inputs'[r], outcome'[r])
            BY <2>1, <2>2, <2>3, BundleKeepsValidity
        <3>7. /\ outcome'[r].class = outcome[r].class /\ outcome'[r].pass = outcome[r].pass
              /\ outcome'[r].bundle <=> outcome[r].class \in PatchFailures
              /\ pc'[r] = "bundle" <=> outcome[r].class \in PatchFailures
            BY <2>3, <3>1, BundleKeepsValidity
        <3>8. Reported(r)'
            <4>1. /\ outcome[r].pass => TreeHolds(Len(Series)) /\ ~ workspace.tree.partial
                  /\ outcome[r].class \in PatchFailures =>
                        StoppedAt(outcome[r]) /\ TreeHolds(Len(outcome[r].applied))
                BY <2>1 DEF RunInv, Reported
            <4> QED BY <2>1, <2>5, <3>1, <3>4, <3>5, <3>6, <3>7, <4>1 DEF Reported
        <3> QED BY <3>2, <3>3, <3>8 DEF RunInv
    <2> QED BY <2>4, <2>5
<1>2. CASE WriteBundle(r)
    <2>1. pc[r] = "bundle" /\ pc'[r] = "evidence" /\ UNCHANGED <<inputs, outcome, created>>
        BY <1>2 DEF WriteBundle, Goto, TypeOK
    <2>2. /\ created[r] /\ workspace' # Null /\ workspace'.owner = r
          /\ workspace'.tree = workspace.tree
        BY <1>2, WriteDocuments
    <2>3. Owned(r)' /\ Learnt(r)' /\ Built(r)'
        BY <2>1, <2>2 DEF RunInv, Owned, Learnt, Built, Later, Reading, Building
    <2>4. Reported(r)'
        BY <2>1, <2>2 DEF RunInv, Reported, TreeHolds
    <2> QED BY <2>3, <2>4 DEF RunInv
<1>3. CASE WriteEvidence(r)
    <2>1. pc[r] = "evidence" /\ pc'[r] = "done" /\ UNCHANGED <<inputs, outcome, created>>
        BY <1>3 DEF WriteEvidence, Goto, TypeOK
    <2>2. created[r] /\ workspace' # Null /\ workspace'.owner = r
        BY <1>3, WriteDocuments
    <2>3. Owned(r)' /\ Learnt(r)' /\ Built(r)' /\ Reported(r)'
        BY <2>1, <2>2 DEF RunInv, Owned, Learnt, Built, Reported, Later, Reading, Building
    <2> QED BY <2>3 DEF RunInv
<1>4. CASE WriteFails(r)
    BY <1>4, EndKeeps DEF WriteFails, Goto, TypeOK
<1>5. CASE Crash(r)
    BY <1>5, EndKeeps DEF Crash, Goto, TypeOK
<1> QED BY <1>1, <1>2, <1>3, <1>4, <1>5 DEF Write

-----------------------------------------------------------------------------
(* What is under the workspace path                                        *)

\* A step of another run.
LEMMA KeptByOthers ==
    ASSUME TypeOK, Kept, NEW r \in Runs, Frame(r), workspace' = workspace,
           workspace # Null => workspace.owner # r
    PROVE  Kept'
<1> SUFFICES ASSUME workspace # Null PROVE Kept'
    BY DEF Kept
<1> DEFINE q == workspace.owner
<1>1. q \in Runs \ {r}
    BY DEF TypeOK, Optional, Workspaces
<1>2. /\ pc'[q] = pc[q] /\ inputs'[q] = inputs[q] /\ outcome'[q] = outcome[q]
    BY <1>1 DEF Frame
<1>3. \A n : TreeHolds(n) => TreeHolds(n)'
    BY DEF TreeHolds
<1>4. Document(q)' = Document(q)
    BY <1>2 DEF Document
<1> QED BY <1>2, <1>3, <1>4 DEF Kept

\* The owner is still at work: no document is there yet.
LEMMA KeptAtWork ==
    ASSUME TypeOK, NEW r \in Runs, workspace' # Null, workspace'.owner = r,
           workspace'.bundle = Null, workspace'.evidence = Null, pc'[r] # "done",
           workspace'.tree # Null =>
                /\ inputs'[r].request /\ inputs'[r].source # Null /\ inputs'[r].downstream # Null
                /\ PatchNames(inputs'[r].patches) = Series
    PROVE  Kept'
BY DEF Kept

\* A workspace has no documents while its run builds.
LEMMA NoDocumentsYet ==
    ASSUME Kept, NEW r, workspace # Null, workspace.owner = r,
           pc[r] \in Reading \cup Building \cup {"judge", "bundle"}
    PROVE  workspace.bundle = Null /\ workspace.evidence = Null
BY DEF Kept, Reading, Building

\* Preflight does not disturb what was written.
LEMMA ReadKeepsKept ==
    ASSUME TypeOK, Kept, NEW r \in Runs, RunInv(r), Read(r)
    PROVE  Kept'
<1>f. Frame(r)
    BY ReadFrame
<1>1. CASE MakeWorkspace(r) /\ workspace = Null /\ workspace' = NewWorkspace(r) /\ Goto(r, "request")
    <2>1. NewWorkspace(r) \in Workspaces
        BY DEF NewWorkspace, Workspaces, Optional
    <2>2. NewWorkspace(r) # Null
        BY <2>1, NullAssumption
    <2>3. pc'[r] = "request"
        BY <1>1 DEF Goto, TypeOK
    <2> QED BY <1>1, <2>2, <2>3, KeptAtWork DEF NewWorkspace
<1>2. CASE workspace' = workspace
    <2>1. CASE workspace = Null \/ workspace.owner # r
        BY <1>2, <1>f, <2>1, KeptByOthers
    <2>2. CASE workspace # Null /\ workspace.owner = r
        <3>1. created[r]
            BY <2>2 DEF RunInv, Owned
        <3>2. pc[r] \in Later
            BY <3>1 DEF RunInv, Owned, Read, Refuse, Accept, MakeWorkspace, LoadRequest, HashSource,
                FindGit, ReadPatchSeries, BuildPlan, ReadingFails, Learn, Later, Reading
        <3>3. workspace.tree = Null /\ workspace.bundle = Null /\ workspace.evidence = Null
            BY <2>2, <3>2, NoDocumentsYet DEF RunInv, Built, Later
        <3>4. pc'[r] # "done"
            <4>1. ASSUME NEW class, NEW failed, Fail(r, class, failed)
                  PROVE  pc'[r] # "done"
                BY <4>1 DEF Fail, Goto, TypeOK
            <4> QED BY <3>2, <4>1 DEF Read, Refuse, Accept, MakeWorkspace, LoadRequest, HashSource,
                    FindGit, ReadPatchSeries, BuildPlan, ReadingFails, Learn, Goto, TypeOK, Later
        <3> QED BY <1>2, <2>2, <3>3, <3>4, KeptAtWork
    <2> QED BY <2>1, <2>2
<1>3. MakeWorkspace(r) => <1>1!1 \/ workspace' = workspace
    BY DEF MakeWorkspace
<1>4. ~ MakeWorkspace(r) => workspace' = workspace
    BY DEF Read, Refuse, Accept, LoadRequest, HashSource, FindGit, ReadPatchSeries, BuildPlan,
           ReadingFails, Learn
<1> QED BY <1>1, <1>2, <1>3, <1>4

\* Nor does building.
LEMMA BuildKeepsKept ==
    ASSUME TypeOK, Kept, NEW r \in Runs, RunInv(r), Build(r)
    PROVE  Kept'
<1>1. pc[r] \in Building /\ inputs' = inputs
    BY BuildSteps
<1>2. /\ workspace # Null /\ workspace.owner = r /\ workspace' # Null /\ workspace'.owner = r
      /\ workspace'.bundle = Null /\ workspace'.evidence = Null
    BY <1>1, BuildKeepsDocuments, NoDocumentsYet
<1>3. /\ inputs[r].request /\ inputs[r].source # Null /\ inputs[r].downstream # Null
      /\ PatchNames(inputs[r].patches) = Series
    BY <1>1 DEF RunInv, Learnt
<1>4. pc'[r] # "done"
    <2>1. ASSUME NEW class, NEW failed, Fail(r, class, failed)
          PROVE  pc'[r] # "done"
        BY <2>1 DEF Fail, Goto, TypeOK
    <2>2. ASSUME NEW o, Continue(r, o)
          PROVE  pc'[r] # "done"
        BY <2>2 DEF Continue, Goto, TypeOK
    <2> QED BY <2>1, <2>2 DEF Build, StartCopy, FinishCopy, CopyFails, Materialize, MaterializeFails,
            CheckPatch, ApplyPatch, BuildingFails, Goto, TypeOK
<1> QED BY <1>1, <1>2, <1>3, <1>4, KeptAtWork

\* What is written stays in agreement with the tree.
LEMMA WriteKeepsKept ==
    ASSUME TypeOK, Kept, NEW r \in Runs, RunInv(r), Write(r) \/ Crash(r)
    PROVE  Kept'
<1>f. Frame(r)
    BY WriteFrame
<1>o. CASE ~ (workspace # Null /\ workspace.owner = r)
    <2>1. ~ created[r]
        BY <1>o DEF RunInv, Owned
    <2>2. pc[r] \notin {"bundle", "evidence"}
        BY <2>1 DEF RunInv, Owned
    <2>3. workspace' = workspace
        BY <2>2 DEF Write, Judge, WriteBundle, WriteEvidence, WriteFails, Crash
    <2> QED BY <1>o, <1>f, <2>3, KeptByOthers
<1>w. CASE workspace # Null /\ workspace.owner = r
    <2>0. created[r]
        BY <1>w DEF RunInv, Owned
    <2>t. ASSUME workspace'.tree = workspace.tree
          PROVE  \A n : TreeHolds(n) => TreeHolds(n)'
        BY <2>t DEF TreeHolds
    <2>1. CASE Judge(r)
        <3>1. pc[r] = "judge" /\ UNCHANGED <<workspace, inputs>>
            BY <2>1 DEF Judge
        <3>2. workspace.bundle = Null /\ workspace.evidence = Null
            BY <1>w, <3>1, NoDocumentsYet
        <3>3. ValidateEvidence(inputs[r], WithBundle(outcome[r]))
            BY <3>1, BundleKeepsValidity DEF RunInv, Reported
        <3>4. pc'[r] # "done"
            BY <2>0, <2>1, <3>3 DEF Judge, Goto, TypeOK
        <3> QED BY <1>w, <3>1, <3>2, <3>4 DEF Kept
    <2>2. CASE WriteBundle(r)
        <3>1. pc[r] = "bundle" /\ pc'[r] = "evidence" /\ UNCHANGED <<inputs, outcome>>
            BY <2>2 DEF WriteBundle, Goto, TypeOK
        <3>2. /\ workspace' # Null /\ workspace'.owner = r /\ workspace'.tree = workspace.tree
              /\ workspace'.bundle = Document(r) /\ workspace'.evidence = workspace.evidence
            BY <2>2, WriteDocuments
        <3>3. workspace'.evidence = Null
            BY <1>w, <3>1, <3>2, NoDocumentsYet
        <3>4. StoppedAt(outcome[r]) /\ TreeHolds(Len(outcome[r].applied))
            BY <3>1 DEF RunInv, Reported
        <3>5. Document(r).by = r /\ Document(r).outcome = outcome[r]
            BY DEF Document
        <3>6. /\ workspace'.bundle.by = r /\ StoppedAt(workspace'.bundle.outcome)
              /\ TreeHolds(Len(workspace.bundle.outcome.applied))'
            BY <3>2, <3>4, <3>5 DEF TreeHolds
        <3> QED BY <1>w, <3>1, <3>2, <3>3, <3>6 DEF Kept
    <2>3. CASE WriteEvidence(r)
        <3>1. pc[r] = "evidence" /\ pc'[r] = "done" /\ UNCHANGED <<inputs, outcome>>
            BY <2>3 DEF WriteEvidence, Goto, TypeOK
        <3>2. /\ workspace' # Null /\ workspace'.owner = r /\ workspace'.tree = workspace.tree
              /\ workspace'.bundle = workspace.bundle /\ workspace'.evidence = Document(r)
            BY <2>3, WriteDocuments
        <3>3. Document(r)' = Document(r) /\ Document(r).outcome = outcome[r]
            BY <3>1 DEF Document
        <3>4. outcome[r].pass => TreeHolds(Len(Series)) /\ ~ workspace.tree.partial
            BY <3>1 DEF RunInv, Reported
        <3>5. Document(r) # Null
            <4>1. Document(r) \in Documents
                BY DEF Document, Documents, TypeOK
            <4> QED BY <4>1, NullAssumption
        <3>6. workspace.bundle # Null =>
                /\ workspace'.bundle.by = r
                /\ StoppedAt(workspace'.bundle.outcome)
                /\ TreeHolds(Len(workspace.bundle.outcome.applied))'
            BY <1>w, <3>2 DEF Kept, TreeHolds
        <3>7. workspace'.tree # Null =>
                /\ inputs'[r].request /\ inputs'[r].source # Null /\ inputs'[r].downstream # Null
                /\ PatchNames(inputs'[r].patches) = Series
            BY <1>w, <3>1, <3>2 DEF Kept
        <3>8. workspace'.evidence.outcome.pass => TreeHolds(Len(Series))' /\ ~ workspace'.tree.partial
            BY <3>2, <3>3, <3>4 DEF TreeHolds
        <3> QED BY <3>1, <3>2, <3>3, <3>5, <3>6, <3>7, <3>8 DEF Kept
    <2>4. CASE WriteFails(r) \/ Crash(r)
        <3>1. workspace' = workspace /\ inputs' = inputs /\ pc[r] \notin {"done", "dead"}
            BY <2>4 DEF WriteFails, Crash
        <3>2. workspace.evidence = Null
            BY <1>w, <3>1 DEF Kept
        <3>3. \/ pc'[r] = "done" /\ outcome'[r].class = "EVIDENCE_WRITE_FAILED"
              \/ pc'[r] = "dead"
            BY <2>4 DEF WriteFails, Crash, Goto, TypeOK, EvidenceWriteFailed, SetFailure, Outcome
        <3>4. \A n : TreeHolds(n) => TreeHolds(n)'
            BY <3>1, <2>t
        <3> QED BY <1>w, <3>1, <3>2, <3>3, <3>4 DEF Kept
    <2> QED BY <2>1, <2>2, <2>3, <2>4 DEF Write
<1> QED BY <1>o, <1>w

-----------------------------------------------------------------------------
(* The invariant                                                           *)

\* The invariant does not speak of the versions.
LEMMA VersionsAside ==
    ASSUME EngineInv, UNCHANGED <<workspace, pc, inputs, outcome, created>>
    PROVE  (\A r \in Runs : RunInv(r)') /\ Kept'
<1>1. ASSUME NEW r \in Runs PROVE RunInv(r)'
    <2>0. RunInv(r)
        BY DEF EngineInv
    <2>1. Owned(r)' /\ Learnt(r)'
        BY <2>0 DEF RunInv, Owned, Learnt
    <2>2. Built(r)'
        BY <2>0 DEF RunInv, Built, TreeHolds
    <2>3. Reported(r)'
        BY <2>0 DEF RunInv, Reported, TreeHolds
    <2> QED BY <2>1, <2>2, <2>3 DEF RunInv
<1>2. Kept'
    BY DEF EngineInv, Kept, TreeHolds, Document
<1> QED BY <1>1, <1>2

\* Somebody edits an input.
LEMMA EditKeeps ==
    ASSUME EngineInv, NEW x \in DOMAIN version, Edit(x)
    PROVE  EngineInv'
<1>1. TypeOK'
    BY InputsAssumption DEF EngineInv, TypeOK, Edit, Versions
<1> QED BY <1>1, VersionsAside DEF EngineInv, Edit

\* Every step of a run keeps the invariant.
LEMMA StepKeeps ==
    ASSUME EngineInv, NEW r \in Runs, Read(r) \/ Build(r) \/ Write(r) \/ Crash(r)
    PROVE  EngineInv'
<1> USE DEF EngineInv
<1>1. TypeOK'
    <2>1. CASE Crash(r)
        BY <2>1 DEF Crash, Goto, TypeOK, Stages
    <2> QED BY <2>1, ReadType, BuildType, WriteType
<1>2. Frame(r)
    BY ReadFrame, BuildFrame, WriteFrame
<1>3. ASSUME NEW q \in Runs PROVE RunInv(q)'
    <2>1. CASE q = r
        BY <2>1, ReadKeeps, BuildKeeps, WriteKeeps
    <2>2. CASE q # r
        BY <2>2, <1>2, OthersKeep
    <2> QED BY <2>1, <2>2
<1>4. Kept'
    BY ReadKeepsKept, BuildKeepsKept, WriteKeepsKept
<1> QED BY <1>1, <1>3, <1>4

\* The invariant holds throughout.
LEMMA EngineInvariant == Spec => []EngineInv
<1>1. Init => EngineInv
    BY InitType, InitRunInv DEF EngineInv, Kept, Init
<1>2. EngineInv /\ [Next]_vars => EngineInv'
    <2> SUFFICES ASSUME EngineInv, [Next]_vars PROVE EngineInv'
        OBVIOUS
    <2>1. CASE UNCHANGED vars
        <3>1. TypeOK'
            BY <2>1 DEF vars, EngineInv, TypeOK
        <3> QED BY <2>1, <3>1, VersionsAside DEF vars, EngineInv
    <2>2. CASE Next
        BY <2>2, StepKeeps, EditKeeps DEF Next
    <2> QED BY <2>1, <2>2
<1> QED BY <1>1, <1>2, PTL DEF Spec

-----------------------------------------------------------------------------
(* What follows from it                                                    *)

\* The names of what the tree holds are the beginning of the series.
LEMMA HeldPatches ==
    ASSUME EngineInv, workspace # Null, NEW n \in 0..Len(Series), TreeHolds(n)
    PROVE  PatchNames(workspace.tree.applied) = SubSeq(Series, 1, n)
<1>1. workspace.tree \in Trees
    BY DEF EngineInv, TypeOK, Optional, Workspaces, TreeHolds
<1>2. workspace.tree.applied \in Seq(HashedPatches) /\ Len(workspace.tree.applied) = n
    BY <1>1 DEF Trees, TreeHolds
<1>3. DOMAIN workspace.tree.applied = 1..n
    BY <1>2, LenProperties
<1>4. PatchNames(workspace.tree.applied) = [i \in 1..n |-> workspace.tree.applied[i].name]
    BY <1>3 DEF PatchNames
<1>5. [i \in 1..n |-> workspace.tree.applied[i].name] = [i \in 1..n |-> Series[i]]
    BY DEF TreeHolds
<1>6. [i \in 1..n |-> Series[i]] = SubSeq(Series, 1, n)
    <2>1. n \in Nat /\ \A i \in 1..n : Series[i] \in Patches
        BY SeriesType
    <2> QED BY <2>1, SeriesType
<1> QED BY <1>4, <1>5, <1>6

\* A sequence that begins the series is a SubSeq of it.
LEMMA BeginsIsSubSeq ==
    ASSUME NEW s \in Seq(Patches), Begins(s)
    PROVE  s = SubSeq(Series, 1, Len(s))
<1>1. Len(s) \in Nat /\ s = [i \in 1..Len(s) |-> s[i]]
    BY LenProperties
<1>2. \A i \in 1..Len(s) : Series[i] \in Patches
    BY <1>1, SeriesType DEF Begins
<1>3. [i \in 1..Len(s) |-> s[i]] = [i \in 1..Len(s) |-> Series[i]]
    BY DEF Begins
<1>4. [i \in 1..Len(s) |-> Series[i]] = SubSeq(Series, 1, Len(s))
    BY <1>1, <1>2, SeriesType
<1> QED BY <1>1, <1>3, <1>4

\* RunQualification keeps every variable in its type at every step.
THEOREM TypeCorrect == Spec => []TypeOK
<1>1. EngineInv => TypeOK
    BY DEF EngineInv
<1> QED BY <1>1, EngineInvariant, PTL

\* However many runs are given one workspace path, what is under it was
\* written by the run whose mkdir succeeded.
THEOREM WorkspaceHasOneWriter == Spec => []OneWriter
<1>1. EngineInv => OneWriter
    <2> SUFFICES ASSUME EngineInv PROVE OneWriter
        OBVIOUS
    <2>1. \A r \in Runs : created[r] => workspace # Null /\ workspace.owner = r
        BY DEF EngineInv, RunInv, Owned
    <2>2. workspace # Null =>
            /\ workspace.bundle # Null => workspace.bundle.by = workspace.owner
            /\ workspace.evidence # Null => workspace.evidence.by = workspace.owner
        BY DEF EngineInv, Kept, Document
    <2> QED BY <2>1, <2>2 DEF OneWriter
<1> QED BY <1>1, EngineInvariant, PTL

\* The repair bundle names the first patch missing from the tree.
THEOREM BundleIsAccurate == Spec => []BundleNamesFirstFailure
<1>1. EngineInv => BundleNamesFirstFailure
    <2> SUFFICES ASSUME EngineInv, workspace # Null, workspace.bundle # Null
                 PROVE  LET o == workspace.bundle.outcome
                            n == Len(workspace.tree.applied)
                        IN  /\ n < Len(Series)
                            /\ PatchNames(workspace.tree.applied) = SubSeq(Series, 1, n)
                            /\ o.applied = SubSeq(Series, 1, n)
                            /\ o.attempted = SubSeq(Series, 1, n + 1)
                            /\ o.failed = Series[n + 1]
        BY DEF BundleNamesFirstFailure
    <2> DEFINE o == workspace.bundle.outcome
    <2>1. StoppedAt(o) /\ TreeHolds(Len(o.applied))
        BY DEF EngineInv, Kept
    <2>2. o \in Outcomes
        BY DEF EngineInv, TypeOK, Optional, Workspaces, Documents
    <2>3. o.applied \in Seq(Patches) /\ o.attempted \in Seq(Patches)
        BY <2>2, OutcomeFields
    <2>4. /\ Len(o.applied) \in Nat /\ Len(o.attempted) = Len(o.applied) + 1
          /\ Len(o.attempted) <= Len(Series) /\ Len(workspace.tree.applied) = Len(o.applied)
        BY <2>1, <2>3, LenProperties DEF StoppedAt, Begins, TreeHolds
    <2>5. PatchNames(workspace.tree.applied) = SubSeq(Series, 1, Len(o.applied))
        BY <2>1, <2>4, SeriesType, HeldPatches
    <2>6. o.applied = SubSeq(Series, 1, Len(o.applied))
        BY <2>1, <2>3, BeginsIsSubSeq DEF StoppedAt
    <2>7. o.attempted = SubSeq(Series, 1, Len(o.attempted))
        BY <2>1, <2>3, BeginsIsSubSeq DEF StoppedAt
    <2>8. o.failed = Series[Len(o.attempted)]
        BY <2>1 DEF StoppedAt
    <2> QED BY <2>4, <2>5, <2>6, <2>7, <2>8, SeriesType
<1> QED BY <1>1, EngineInvariant, PTL

\* No tree is created before the request, the source, the series and the
\* plan have been read.
THEOREM PreflightComesFirst == Spec => []PreflightBeforeTree
<1>1. EngineInv => PreflightBeforeTree
    BY DEF EngineInv, Kept, PreflightBeforeTree
<1> QED BY <1>1, EngineInvariant, PTL

\* What a run returns is what it left on disk.
THEOREM ReturnIsHonest == Spec => []ReturnMatchesDisk
<1>1. EngineInv => ReturnMatchesDisk
    BY DEF EngineInv, RunInv, Owned, Kept, ReturnMatchesDisk
<1> QED BY <1>1, EngineInvariant, PTL

\* ValidateEvidence never rejects what the engine recorded.
THEOREM RecordedResultIsValid == Spec => []EvidenceIsValid
<1>1. EngineInv => EvidenceIsValid
    BY BundleKeepsValidity DEF EngineInv, RunInv, Reported, EvidenceIsValid
<1> QED BY <1>1, EngineInvariant, PTL

-----------------------------------------------------------------------------
(* Evidence is about the tree beside it                                    *)

\* What the status, the attempts and the applied patches of a result say of
\* a tree.
TreeFits(tree, o) ==
    /\ o.pass => o.status = "COMPLETE"
    /\ o.status = "NOT_CREATED" => tree \in {Null, Unfinished} /\ o.attempted = <<>>
    /\ o.status # "NOT_CREATED" =>
        /\ tree # Null /\ tree.source # Null
        /\ o.attempted # <<>> => tree.downstream # Null
        /\ PatchNames(tree.applied) = o.applied
        /\ Begins(o.applied)

\* The result of the run that made the workspace fits the tree, from the end
\* of the first try block on.  EngineInv says this only of a PASS and of a
\* failed patch; a copy that is cut short has to be followed for the others.
Fits(r) ==
    /\ pc[r] = "copying" => workspace.tree = Unfinished
    /\ created[r] /\ pc[r] \in Writing \cup {"done"} => TreeFits(workspace.tree, outcome[r])

FitInv == EngineInv /\ \A r \in Runs : Fits(r)

\* A tree whose copy did not end is a tree.
LEMMA UnfinishedIsTree == Unfinished \in Trees /\ Unfinished # Null
<1>1. Unfinished \in Trees
    BY EmptySeq, TreeType DEF Unfinished, Optional
<1> QED BY <1>1, NullAssumption

\* A tree that holds the beginning of the series which is recorded as applied.
LEMMA HoldingFits ==
    ASSUME NEW tree \in Trees, tree # Null, tree.source # Null, tree.downstream # Null,
           NEW o \in Outcomes, o.status # "NOT_CREATED",
           o.pass => o.status = "COMPLETE", Begins(o.applied),
           Len(tree.applied) = Len(o.applied),
           \A i \in 1..Len(o.applied) : tree.applied[i].name = Series[i]
    PROVE  TreeFits(tree, o)
<1>1. tree.applied \in Seq(HashedPatches) /\ o.applied \in Seq(Patches)
    BY OutcomeFields DEF Trees
<1>2. /\ DOMAIN tree.applied = 1..Len(o.applied)
      /\ o.applied = [i \in 1..Len(o.applied) |-> o.applied[i]]
    BY <1>1, LenProperties
<1>3. PatchNames(tree.applied) = [i \in 1..Len(o.applied) |-> tree.applied[i].name]
    BY <1>2 DEF PatchNames
<1>4. \A i \in 1..Len(o.applied) : tree.applied[i].name = o.applied[i]
    BY DEF Begins
<1>5. PatchNames(tree.applied) = o.applied
    BY <1>2, <1>3, <1>4
<1> QED BY <1>5 DEF TreeFits

\* Whether a result fits depends on neither its failure nor its bundle, and
\* of its status only on whether there is a tree.
LEMMA FitsStays ==
    ASSUME NEW tree, NEW o, NEW f, TreeFits(tree, o),
           f.attempted = o.attempted, f.applied = o.applied, f.pass => o.pass /\ f.status = o.status,
           f.status = "NOT_CREATED" <=> o.status = "NOT_CREATED"
    PROVE  TreeFits(tree, f)
BY DEF TreeFits, Begins

\* So a failure that is recorded fits, however late it comes.
LEMMA FailureFits ==
    ASSUME NEW tree, NEW o, TreeFits(tree, o)
    PROVE  /\ \A class, failed : TreeFits(tree, SetFailure(o, class, failed))
           /\ TreeFits(tree, EvidenceWriteFailed(o))
           /\ TreeFits(tree, WithBundle(o))
<1>1. ASSUME NEW class, NEW failed
      PROVE  TreeFits(tree, SetFailure(o, class, failed))
    <2> DEFINE f == SetFailure(o, class, failed)
    <2>1. /\ f.attempted = o.attempted /\ f.applied = o.applied
          /\ f.status = "NOT_CREATED" <=> o.status = "NOT_CREATED"
          /\ ~ f.pass
        BY DEF SetFailure, Outcome
    <2> QED BY <2>1, FitsStays
<1>2. TreeFits(tree, EvidenceWriteFailed(o))
    <2> DEFINE f == EvidenceWriteFailed(o)
    <2>1. /\ f.attempted = o.attempted /\ f.applied = o.applied
          /\ f.status = "NOT_CREATED" <=> o.status = "NOT_CREATED"
          /\ ~ f.pass
        BY DEF EvidenceWriteFailed, SetFailure, Outcome
    <2> QED BY <2>1, FitsStays
<1>3. TreeFits(tree, WithBundle(o))
    <2> DEFINE f == WithBundle(o)
    <2>1. /\ f.attempted = o.attempted /\ f.applied = o.applied
          /\ f.status = o.status /\ f.pass = o.pass
        BY DEF WithBundle, Outcome
    <2> QED BY <2>1, FitsStays
<1> QED BY <1>1, <1>2, <1>3

\* Before a file was copied, and while they are, there is nothing to report.
LEMMA NothingFits ==
    ASSUME NEW tree \in {Null, Unfinished}
    PROVE  TreeFits(tree, BaseOutcome)
BY DEF TreeFits, BaseOutcome, Outcome

\* A PASS and a failed patch: that their trees hold what they say is part of
\* EngineInv.
ResultsFit ==
    \A r \in Runs :
        /\ pc[r] = "judge" /\ created[r] /\ outcome[r].status # "NOT_CREATED"
        /\ outcome[r].pass \/ outcome[r].class \in PatchFailures
        => TreeFits(workspace.tree, outcome[r])

\* What EngineInv says of them.
LEMMA InvariantFits == EngineInv => ResultsFit
<1> SUFFICES ASSUME EngineInv, NEW r \in Runs, pc[r] = "judge", created[r],
                    outcome[r].status # "NOT_CREATED",
                    outcome[r].pass \/ outcome[r].class \in PatchFailures
             PROVE  TreeFits(workspace.tree, outcome[r])
    BY DEF ResultsFit
<1> DEFINE o    == outcome[r]
           tree == workspace.tree
<1>1. /\ TypeOK /\ Owned(r) /\ Reported(r) /\ Kept
      /\ o \in Outcomes
    BY DEF EngineInv, RunInv, TypeOK
<1>2. workspace # Null /\ workspace.owner = r /\ workspace \in Workspaces
    BY <1>1 DEF Owned, TypeOK, Optional
<1>3. CASE o.pass
    <2>1. TreeHolds(Len(Series)) /\ ValidateEvidence(inputs[r], o)
        BY <1>1, <1>3 DEF Reported
    <2>2. PatchNames(inputs[r].patches) = Series
        BY <1>1, <1>2, <2>1 DEF Kept, TreeHolds
    <2>3. o.applied = Series
        BY <1>3, <2>1, <2>2 DEF ValidateEvidence
    <2>4. Begins(o.applied)
        BY <2>3, SeriesType DEF Begins
    <2>5. tree \in Trees
        BY <1>2, <2>1 DEF TreeHolds, Workspaces, Optional
    <2>6. o.status = "COMPLETE"
        BY <1>3, <2>1 DEF ValidateEvidence
    <2> QED BY <1>1, <2>1, <2>3, <2>4, <2>5, <2>6, HoldingFits DEF TreeHolds
<1>4. CASE o.class \in PatchFailures
    <2>1. StoppedAt(o) /\ TreeHolds(Len(o.applied))
        BY <1>1, <1>4 DEF Reported
    <2>2. tree \in Trees
        BY <1>2, <2>1 DEF TreeHolds, Workspaces, Optional
    <2>3. ~ o.pass
        BY <1>1, <1>4, NullAssumption DEF Reported, ValidateEvidence, Failures
    <2> QED BY <1>1, <2>1, <2>2, <2>3, HoldingFits DEF TreeHolds, StoppedAt
<1> QED BY <1>3, <1>4

\* They say it after a step as before it.
LEMMA InvariantFitsNext == EngineInv' => ResultsFit'
BY InvariantFits, PTL

\* While the tree is built, result and tree agree.
LEMMA BuildingFits ==
    ASSUME FitInv, NEW r \in Runs, pc[r] \in Building
    PROVE  TreeFits(workspace.tree, outcome[r])
<1> DEFINE o    == outcome[r]
           tree == workspace.tree
<1>1. TypeOK /\ Owned(r) /\ Built(r) /\ o \in Outcomes /\ RunInv(r)
    BY DEF FitInv, EngineInv, RunInv, TypeOK
<1>2. CASE pc[r] \in {"copy", "copying"}
    <2>1. o = BaseOutcome /\ tree \in {Null, Unfinished}
        BY <1>1, <1>2 DEF Built, Fits, FitInv
    <2> QED BY <2>1, NothingFits
<1>3. CASE pc[r] = "materialize"
    <2>1. /\ tree # Null /\ tree.source # Null /\ tree.applied = <<>>
          /\ o.status = "PREPARED" /\ o.attempted = <<>> /\ o.applied = <<>> /\ ~ o.pass
        BY <1>1, <1>3 DEF Built, Outcome
    <2>2. PatchNames(<<>>) = <<>>
        BY DEF PatchNames
    <2>3. Begins(<<>>)
        BY SeriesType DEF Begins
    <2> QED BY <2>1, <2>2, <2>3 DEF TreeFits
<1>4. CASE pc[r] \in {"check", "apply"}
    <2>1. TreeHolds(Len(o.applied)) /\ Begins(o.applied) /\ o.status = "PREPARED" /\ ~ o.pass
        BY <1>1, <1>4 DEF Built
    <2>2. tree \in Trees
        BY <1>1, <1>4, WorkspaceType
    <2> QED BY <1>1, <2>1, <2>2, HoldingFits DEF TreeHolds
<1> QED BY <1>2, <1>3, <1>4 DEF Building

\* A failure of the stages that build fits, whatever part of the tree it left.
LEMMA BuildingFailureFits ==
    ASSUME FitInv, NEW r \in Runs, pc[r] \in Building, NEW class, NEW failed,
           Fail(r, class, failed), workspace' = workspace
    PROVE  pc'[r] = "judge" /\ TreeFits(workspace'.tree, outcome'[r])
<1>1. pc'[r] = "judge" /\ outcome'[r] = SetFailure(outcome[r], class, failed)
    BY DEF Fail, Goto, FitInv, EngineInv, TypeOK
<1> QED BY <1>1, BuildingFits, FailureFits

\* A step of preflight leaves a result that fits.
LEMMA ReadKeepsFits ==
    ASSUME FitInv, NEW r \in Runs, Read(r)
    PROVE  Fits(r)'
<1>1. TypeOK /\ Owned(r) /\ Built(r)
    BY DEF FitInv, EngineInv, RunInv
<1>l. ASSUME NEW stage, NEW learnt, NEW next \in {"source", "git", "series", "plan", "copy"},
             Learn(r, stage, learnt, next)
      PROVE  Fits(r)'
    BY <1>1, <1>l DEF Learn, Goto, TypeOK, Fits, Writing
<1>2. CASE Refuse(r) \/ Accept(r)
    <2>1. ~ created'[r] /\ pc'[r] # "copying"
        BY <1>1, <1>2 DEF Refuse, Accept, Fail, Goto, TypeOK, Owned
    <2> QED BY <2>1 DEF Fits
<1>3. CASE MakeWorkspace(r)
    <2>1. pc'[r] = "request" \/ (pc'[r] = "judge" /\ ~ created'[r])
        BY <1>1, <1>3 DEF MakeWorkspace, Fail, Goto, TypeOK, Owned
    <2> QED BY <2>1 DEF Fits, Writing
<1>4. CASE LoadRequest(r) \/ HashSource(r) \/ FindGit(r)
    BY <1>4, <1>l DEF LoadRequest, HashSource, FindGit
<1>5. CASE ReadPatchSeries(r) \/ BuildPlan(r)
    BY <1>5, <1>l DEF ReadPatchSeries, BuildPlan
<1>6. CASE ReadingFails(r)
    <2>1. PICK class, failed : Fail(r, class, failed)
        BY <1>6 DEF ReadingFails
    <2>2. pc'[r] = "judge" /\ outcome'[r] = SetFailure(outcome[r], class, failed)
        BY <1>1, <2>1 DEF Fail, Goto, TypeOK
    <2>3. workspace.tree = Null /\ outcome[r] = BaseOutcome /\ workspace' = workspace
        BY <1>1, <1>6 DEF ReadingFails, Built, Later, Reading
    <2> QED BY <2>2, <2>3, NothingFits, FailureFits DEF Fits
<1> QED BY <1>2, <1>3, <1>4, <1>5, <1>6 DEF Read

\* So does one that builds: when it ends the first try block, the tree is as
\* the result says, or the copy never ended and the result says NOT_CREATED.
LEMMA BuildKeepsFits ==
    ASSUME FitInv, EngineInv', NEW r \in Runs, Build(r)
    PROVE  Fits(r)'
<1>1. /\ TypeOK /\ RunInv(r) /\ Built(r) /\ pc[r] \in Building
      /\ created[r] /\ created' = created /\ workspace # Null
      /\ outcome[r] \in Outcomes
    BY BuildSteps, BuildKeepsDocuments DEF FitInv, EngineInv, RunInv, TypeOK
<1>2. ResultsFit'
    BY InvariantFitsNext
<1>j. ASSUME pc'[r] = "judge", outcome'[r].status # "NOT_CREATED",
             outcome'[r].pass \/ outcome'[r].class \in PatchFailures
      PROVE  Fits(r)'
    BY <1>1, <1>2, <1>j DEF ResultsFit, Fits
<1>c. ASSUME NEW o \in Outcomes, Continue(r, o)
      PROVE  Fits(r)'
    <2>1. CASE Len(o.applied) < Len(Series)
        BY <1>1, <1>c, <2>1 DEF Continue, Goto, TypeOK, Fits, Writing
    <2>2. CASE ~ (Len(o.applied) < Len(Series))
        <3>1. pc'[r] = "judge" /\ outcome'[r] = WithStatus(o, "COMPLETE", TRUE)
            BY <1>1, <1>c, <2>2 DEF Continue, Goto, TypeOK
        <3>2. outcome'[r].status = "COMPLETE" /\ outcome'[r].pass
            BY <3>1 DEF WithStatus, Outcome
        <3> QED BY <1>j, <3>1, <3>2
    <2> QED BY <2>1, <2>2
<1>3. CASE StartCopy(r)
    <2>1. workspace'.tree = Unfinished /\ pc'[r] = "copying"
        BY <1>1, <1>3, UnfinishedIsTree, SetTreeType DEF StartCopy, Goto, TypeOK
    <2> QED BY <2>1 DEF Fits, Writing
<1>4. CASE FinishCopy(r)
    BY <1>1, <1>4 DEF FinishCopy, Goto, TypeOK, Fits, Writing
<1>5. CASE CopyFails(r) \/ BuildingFails(r)
    <2>1. workspace' = workspace /\ \E class, failed : Fail(r, class, failed)
        BY <1>5 DEF CopyFails, BuildingFails
    <2> QED BY <1>1, <2>1, BuildingFailureFits DEF Fits
<1>6. CASE Materialize(r)
    BY <1>1, <1>6, <1>c DEF Materialize
<1>7. CASE MaterializeFails(r)
    <2> DEFINE t    == workspace.tree
               tree == Tree(t.source, t.downstream, t.applied, TRUE)
    <2>1. /\ pc[r] = "materialize" /\ t.source # Null /\ t.applied = <<>>
          /\ outcome[r].status = "PREPARED" /\ outcome[r].attempted = <<>>
          /\ outcome[r].applied = <<>> /\ ~ outcome[r].pass
        BY <1>1, <1>7 DEF MaterializeFails, Built, Outcome
    <2>2. t \in Trees
        BY <1>1, <2>1, WorkspaceType
    <2>3. tree \in Trees
        BY <2>2, TreeType DEF Trees
    <2>4. workspace'.tree = tree /\ tree # Null
        BY <1>1, <1>7, <2>3, SetTreeType, NullAssumption DEF MaterializeFails
    <2>5. PICK class, failed : Fail(r, class, failed)
        BY <1>7 DEF MaterializeFails
    <2>6. pc'[r] = "judge" /\ outcome'[r] = SetFailure(outcome[r], class, failed)
        BY <1>1, <2>5 DEF Fail, Goto, TypeOK
    <2>7. tree.source # Null /\ tree.applied = <<>>
        BY <2>1 DEF Tree
    <2>8. TreeFits(tree, outcome[r])
        <3>1. PatchNames(<<>>) = <<>> /\ Begins(<<>>)
            BY SeriesType DEF PatchNames, Begins
        <3> HIDE DEF tree
        <3> QED BY <2>1, <2>4, <2>7, <3>1 DEF TreeFits
    <2> HIDE DEF tree
    <2> QED BY <2>4, <2>6, <2>8, FailureFits DEF Fits
<1>8. CASE CheckPatch(r)
    <2>1. CASE Goto(r, "apply")
        BY <1>1, <2>1 DEF Goto, TypeOK, Fits, Writing
    <2>2. CASE /\ outcome' = [outcome EXCEPT ![r] =
                        SetFailure(Attempted(r), "PATCH_CHECK_FAILED", NextPatch(r))]
               /\ Goto(r, "judge")
        <3>1. /\ pc'[r] = "judge"
              /\ outcome'[r] = SetFailure(Attempted(r), "PATCH_CHECK_FAILED", NextPatch(r))
            BY <1>1, <2>2 DEF Goto, TypeOK
        <3>2. Attempted(r).status = "PREPARED"
            BY <1>1, <1>8 DEF CheckPatch, Built, Attempted, Outcome
        <3>3. outcome'[r].status = "FAILED" /\ outcome'[r].class = "PATCH_CHECK_FAILED"
            BY <3>1, <3>2 DEF SetFailure, Outcome
        <3> QED BY <1>j, <3>1, <3>3 DEF PatchFailures
    <2> QED BY <1>8, <2>1, <2>2 DEF CheckPatch
<1>9. CASE ApplyPatch(r)
    <2>1. CASE Continue(r, Applied(r))
        BY <1>1, <1>9, <1>c, <2>1, PatchTypes DEF ApplyPatch
    <2>2. CASE Fail(r, "PATCH_APPLY_FAILED", NextPatch(r))
        <3>1. /\ pc'[r] = "judge"
              /\ outcome'[r] = SetFailure(outcome[r], "PATCH_APPLY_FAILED", NextPatch(r))
            BY <1>1, <2>2 DEF Fail, Goto, TypeOK
        <3>2. outcome[r].status = "PREPARED"
            BY <1>1, <1>9 DEF ApplyPatch, Built
        <3>3. outcome'[r].status = "FAILED" /\ outcome'[r].class = "PATCH_APPLY_FAILED"
            BY <3>1, <3>2 DEF SetFailure, Outcome
        <3> QED BY <1>j, <3>1, <3>3 DEF PatchFailures
    <2> QED BY <1>9, <2>1, <2>2 DEF ApplyPatch
<1> QED BY <1>3, <1>4, <1>5, <1>6, <1>7, <1>8, <1>9 DEF Build

\* Writing changes neither the tree nor what fits it.
LEMMA WriteKeepsFits ==
    ASSUME FitInv, NEW r \in Runs, Write(r) \/ Crash(r)
    PROVE  Fits(r)'
<1>1. TypeOK /\ RunInv(r) /\ Fits(r)
    BY DEF FitInv, EngineInv
<1>2. /\ pc'[r] # "copying" /\ created' = created
      /\ pc'[r] # "dead" => pc[r] \in Writing
    BY <1>1 DEF Write, Judge, WriteBundle, WriteEvidence, WriteFails, Crash, Goto, TypeOK, Writing
<1>3. workspace'.tree = workspace.tree
    BY <1>1, WriteDocuments DEF Write, Judge, WriteFails, Crash
<1>4. ASSUME TreeFits(workspace.tree, outcome[r]), pc'[r] # "dead"
      PROVE  TreeFits(workspace.tree, outcome'[r])
    <2>1. CASE Judge(r)
        <3>1. \/ outcome'[r] = WithBundle(outcome[r])
              \/ outcome'[r] = EvidenceWriteFailed(WithBundle(outcome[r]))
            BY <1>1, <2>1 DEF Judge, TypeOK
        <3>2. /\ TreeFits(workspace.tree, WithBundle(outcome[r]))
              /\ TreeFits(workspace.tree, EvidenceWriteFailed(WithBundle(outcome[r])))
            BY <1>4, FailureFits
        <3> QED BY <3>1, <3>2
    <2>2. CASE WriteBundle(r) \/ WriteEvidence(r)
        BY <1>4, <2>2 DEF WriteBundle, WriteEvidence
    <2>3. CASE WriteFails(r)
        <3>1. outcome'[r] = EvidenceWriteFailed(outcome[r])
            BY <1>1, <2>3 DEF WriteFails, TypeOK
        <3> QED BY <1>4, <3>1, FailureFits
    <2>4. CASE Crash(r)
        BY <1>1, <1>4, <2>4 DEF Crash, Goto, TypeOK
    <2> QED BY <2>1, <2>2, <2>3, <2>4 DEF Write
<1> QED BY <1>1, <1>2, <1>3, <1>4 DEF Fits, Writing

\* A step of another run leaves the owner's tree alone.
LEMMA OthersKeepFits ==
    ASSUME FitInv, NEW r \in Runs, Frame(r), NEW q \in Runs, q # r
    PROVE  Fits(q)'
<1>1. pc'[q] = pc[q] /\ outcome'[q] = outcome[q] /\ created'[q] = created[q]
    BY DEF Frame
<1>2. Owned(q) /\ Owned(r) /\ Fits(q)
    BY DEF FitInv, EngineInv, RunInv
<1>3. CASE workspace' = workspace
    BY <1>1, <1>2, <1>3 DEF Fits
<1>4. CASE workspace = Null \/ created[r]
    <2>1. ~ created[q] /\ pc[q] # "copying"
        BY <1>2, <1>4 DEF Owned, Building
    <2> QED BY <1>1, <2>1 DEF Fits
<1> QED BY <1>3, <1>4 DEF Frame

\* evidence.json says what is beside it: which patches are in the tree, that
\* there is no tree but one whose copy was cut short, or that it is whole.
\* That holds whichever stage failed or was the last of the run that wrote
\* it, and whatever other runs were given the same path.
THEOREM EvidenceIsAccurate == Spec => []EvidenceDescribesTree
<1>1. Init => FitInv
    <2>1. Init => EngineInv
        BY InitType, InitRunInv DEF EngineInv, Kept, Init
    <2> QED BY <2>1 DEF Init, FitInv, Fits, Writing
<1>2. FitInv /\ EngineInv' /\ [Next]_vars => FitInv'
    <2> SUFFICES ASSUME FitInv, EngineInv', [Next]_vars, NEW q \in Runs PROVE Fits(q)'
        BY DEF FitInv
    <2>1. CASE UNCHANGED <<workspace, pc, outcome, created>>
        BY <2>1 DEF FitInv, Fits
    <2>2. ASSUME NEW r \in Runs, Read(r) \/ Build(r) \/ Write(r) \/ Crash(r)
          PROVE  Fits(q)'
        <3>1. Frame(r)
            BY <2>2, ReadFrame, BuildFrame, WriteFrame DEF FitInv, EngineInv
        <3>2. CASE q = r
            BY <2>2, <3>2, ReadKeepsFits, BuildKeepsFits, WriteKeepsFits
        <3>3. CASE q # r
            BY <3>1, <3>3, OthersKeepFits
        <3> QED BY <3>2, <3>3
    <2> QED BY <2>1, <2>2 DEF Next, Edit, vars
<1>3. FitInv => EvidenceDescribesTree
    <2> SUFFICES ASSUME FitInv, workspace # Null, workspace.evidence # Null
                 PROVE  EvidenceDescribesTree
        BY DEF EvidenceDescribesTree
    <2> DEFINE r    == workspace.owner
               o    == outcome[r]
               tree == workspace.tree
    <2>1. r \in Runs /\ o \in Outcomes
        BY DEF FitInv, EngineInv, TypeOK, Optional, Workspaces
    <2>2. /\ pc[r] = "done" /\ workspace.evidence = Document(r)
          /\ o.pass => TreeHolds(Len(Series)) /\ ~ tree.partial
        BY DEF FitInv, EngineInv, Kept, Document
    <2>3. workspace.evidence.outcome = o
        BY <2>2 DEF Document
    <2>4. TreeFits(tree, o)
        BY <2>1, <2>2 DEF FitInv, EngineInv, RunInv, Owned, Fits
    <2>5. o.applied \in Seq(Patches)
        BY <2>1, OutcomeFields
    <2>6. Begins(o.applied) => o.applied = SubSeq(Series, 1, Len(o.applied))
        BY <2>5, BeginsIsSubSeq
    <2>7. ASSUME o.pass
          PROVE  o.status = "COMPLETE" /\ o.applied = Series
        <3>1. PatchNames(tree.applied) = SubSeq(Series, 1, Len(Series))
            BY <2>2, <2>7, SeriesType, HeldPatches DEF FitInv
        <3>2. SubSeq(Series, 1, Len(Series)) = Series
            BY SeriesType, SubSeqFull
        <3> QED BY <2>4, <2>7, <3>1, <3>2 DEF TreeFits
    <2> QED BY <2>2, <2>3, <2>4, <2>6, <2>7 DEF EvidenceDescribesTree, TreeFits, TreeHolds
<1> QED BY <1>1, <1>2, <1>3, EngineInvariant, PTL DEF Spec

-----------------------------------------------------------------------------
(* The engine implements the store of evidence, twice                      *)

\* The one path all runs were given, with each of its two documents.
FilesWith(document) ==
    [p \in {"workspace"} |->
        IF workspace = Null THEN Null
        ELSE [by |-> workspace.owner, document |-> document]]

EvidenceFiles == FilesWith(workspace.evidence)
BundleFiles == FilesWith(workspace.bundle)

EvidenceFile == INSTANCE EvidenceStore
    WITH Writers <- Runs, Paths <- {"workspace"}, files <- EvidenceFiles
BundleFile == INSTANCE EvidenceStore
    WITH Writers <- Runs, Paths <- {"workspace"}, files <- BundleFiles

\* A step that leaves owner and documents is none of the stores'.
LEMMA NothingPublished ==
    ASSUME workspace # Null, workspace' # Null, workspace'.owner = workspace.owner
    PROVE  /\ workspace'.evidence = workspace.evidence => EvidenceFiles' = EvidenceFiles
           /\ workspace'.bundle = workspace.bundle => BundleFiles' = BundleFiles
BY DEF EvidenceFiles, BundleFiles, FilesWith

\* Nor is one that leaves the workspace.
LEMMA WorkspaceLeft ==
    ASSUME workspace' = workspace
    PROVE  EvidenceFiles' = EvidenceFiles /\ BundleFiles' = BundleFiles
BY DEF EvidenceFiles, BundleFiles, FilesWith

\* The mkdir claims the path, for both documents.
LEMMA MakeClaims ==
    ASSUME TypeOK, NEW r \in Runs, MakeWorkspace(r)
    PROVE  \/ EvidenceFile!Claim(r, "workspace") /\ BundleFile!Claim(r, "workspace")
           \/ workspace' = workspace
<1>1. NewWorkspace(r) # Null
    <2>1. NewWorkspace(r) \in Workspaces
        BY DEF NewWorkspace, Workspaces, Optional
    <2> QED BY <2>1, NullAssumption
<1>2. CASE workspace = Null /\ workspace' = NewWorkspace(r)
    <2>1. /\ workspace' # Null /\ workspace'.owner = r
          /\ workspace'.evidence = Null /\ workspace'.bundle = Null
        BY <1>1, <1>2 DEF NewWorkspace
    <2>2. EvidenceFile!Claim(r, "workspace")
        BY <1>2, <2>1 DEF EvidenceFile!Claim, EvidenceFile!File, EvidenceFiles, FilesWith
    <2>3. BundleFile!Claim(r, "workspace")
        BY <1>2, <2>1 DEF BundleFile!Claim, BundleFile!File, BundleFiles, FilesWith
    <2> QED BY <2>2, <2>3
<1> QED BY <1>2 DEF MakeWorkspace

\* WriteEvidence publishes evidence.json, once.
LEMMA EvidencePublished ==
    ASSUME EngineInv, NEW r \in Runs, WriteEvidence(r)
    PROVE  EvidenceFile!Publish(r, "workspace") /\ BundleFiles' = BundleFiles
<1>1. TypeOK /\ RunInv(r) /\ Kept /\ pc[r] = "evidence"
    BY DEF EngineInv, WriteEvidence
<1>2. /\ workspace # Null /\ workspace.owner = r
      /\ workspace' # Null /\ workspace'.owner = r
      /\ workspace'.bundle = workspace.bundle /\ workspace'.evidence = Document(r)
    BY <1>1, WriteDocuments
<1>3. workspace.evidence = Null
    BY <1>1, <1>2 DEF Kept
<1>4. Document(r) \in Documents
    BY <1>1 DEF Document, Documents, TypeOK
<1>5. EvidenceFile!Publish(r, "workspace")
    BY <1>2, <1>3, <1>4 DEF EvidenceFile!Publish, EvidenceFile!File, EvidenceFiles, FilesWith
<1> QED BY <1>2, <1>5, NothingPublished

\* WriteBundle publishes repair-bundle.json, once.
LEMMA BundlePublished ==
    ASSUME EngineInv, NEW r \in Runs, WriteBundle(r)
    PROVE  BundleFile!Publish(r, "workspace") /\ EvidenceFiles' = EvidenceFiles
<1>1. TypeOK /\ RunInv(r) /\ Kept /\ pc[r] = "bundle"
    BY DEF EngineInv, WriteBundle
<1>2. /\ workspace # Null /\ workspace.owner = r
      /\ workspace' # Null /\ workspace'.owner = r
      /\ workspace'.evidence = workspace.evidence /\ workspace'.bundle = Document(r)
    BY <1>1, WriteDocuments
<1>3. workspace.bundle = Null
    BY <1>1, <1>2 DEF Kept
<1>4. Document(r) \in Documents
    BY <1>1 DEF Document, Documents, TypeOK
<1>5. BundleFile!Publish(r, "workspace")
    BY <1>2, <1>3, <1>4 DEF BundleFile!Publish, BundleFile!File, BundleFiles, FilesWith
<1> QED BY <1>2, <1>5, NothingPublished

\* Every step claims the path, publishes one of the documents, or is
\* invisible.
LEMMA StepOfStores ==
    EngineInv /\ [Next]_vars =>
        [EvidenceFile!Next]_EvidenceFiles /\ [BundleFile!Next]_BundleFiles
<1> SUFFICES ASSUME EngineInv, [Next]_vars
             PROVE  [EvidenceFile!Next]_EvidenceFiles /\ [BundleFile!Next]_BundleFiles
    OBVIOUS
<1>0. TypeOK /\ \A r \in Runs : RunInv(r)
    BY DEF EngineInv
<1>1. ASSUME NEW r \in Runs, MakeWorkspace(r)
      PROVE  [EvidenceFile!Next]_EvidenceFiles /\ [BundleFile!Next]_BundleFiles
    <2>1. PICK p \in {"workspace"} : p = "workspace"
        OBVIOUS
    <2>2. \/ EvidenceFile!Claim(r, p) /\ BundleFile!Claim(r, p)
          \/ EvidenceFiles' = EvidenceFiles /\ BundleFiles' = BundleFiles
        BY <1>0, <1>1, <2>1, MakeClaims, WorkspaceLeft
    <2> QED BY <2>2 DEF EvidenceFile!Next, BundleFile!Next
<1>2. ASSUME NEW r \in Runs, WriteEvidence(r)
      PROVE  [EvidenceFile!Next]_EvidenceFiles /\ [BundleFile!Next]_BundleFiles
    <2>1. PICK p \in {"workspace"} : p = "workspace"
        OBVIOUS
    <2>2. EvidenceFile!Publish(r, p) /\ BundleFiles' = BundleFiles
        BY <1>2, <2>1, EvidencePublished
    <2> QED BY <2>2 DEF EvidenceFile!Next
<1>3. ASSUME NEW r \in Runs, WriteBundle(r)
      PROVE  [EvidenceFile!Next]_EvidenceFiles /\ [BundleFile!Next]_BundleFiles
    <2>1. PICK p \in {"workspace"} : p = "workspace"
        OBVIOUS
    <2>2. BundleFile!Publish(r, p) /\ EvidenceFiles' = EvidenceFiles
        BY <1>3, <2>1, BundlePublished
    <2> QED BY <2>2 DEF BundleFile!Next
<1>4. ASSUME NEW r \in Runs, Build(r)
      PROVE  EvidenceFiles' = EvidenceFiles /\ BundleFiles' = BundleFiles
    BY <1>0, <1>4, BuildKeepsDocuments, NothingPublished
<1>5. ASSUME NEW r \in Runs, Read(r), ~ MakeWorkspace(r)
      PROVE  EvidenceFiles' = EvidenceFiles /\ BundleFiles' = BundleFiles
    <2>1. workspace' = workspace
        BY <1>5 DEF Read, Refuse, Accept, LoadRequest, HashSource, FindGit, ReadPatchSeries,
                BuildPlan, ReadingFails, Learn
    <2> QED BY <2>1, WorkspaceLeft
<1>6. ASSUME NEW r \in Runs, Judge(r) \/ WriteFails(r) \/ Crash(r)
      PROVE  EvidenceFiles' = EvidenceFiles /\ BundleFiles' = BundleFiles
    BY <1>6, WorkspaceLeft DEF Judge, WriteFails, Crash
<1>7. CASE (\E x \in DOMAIN version : Edit(x)) \/ UNCHANGED vars
    BY <1>7, WorkspaceLeft DEF Edit, vars
<1> QED BY <1>1, <1>2, <1>3, <1>4, <1>5, <1>6, <1>7 DEF Next, Write

\* Whatever is edited, whoever dies and however many runs were given the path,
\* evidence.json and repair-bundle.json behave there as a store of evidence
\* promises: only the run whose mkdir made the directory writes them, each at
\* most once, and nobody replaces or removes them.
THEOREM EngineImplementsEvidenceStore == Spec => EvidenceFile!Spec /\ BundleFile!Spec
<1>1. Init => EvidenceFile!Init /\ BundleFile!Init
    BY DEF Init, EvidenceFile!Init, BundleFile!Init, EvidenceFiles, BundleFiles, FilesWith
<1>2. EngineInv /\ [Next]_vars =>
          [EvidenceFile!Next]_EvidenceFiles /\ [BundleFile!Next]_BundleFiles
    BY StepOfStores
<1> QED BY <1>1, <1>2, EngineInvariant, PTL DEF Spec, EvidenceFile!Spec, BundleFile!Spec

\* Once evidence.json is there nothing under the workspace path changes: the
\* run that wrote it has ended, and no other can get in.  What the evidence
\* says of the tree and of the bundle it therefore says for ever.
THEOREM FinishedWorkspaceIsFinal ==
    Spec => [][workspace # Null /\ workspace.evidence # Null => workspace' = workspace]_vars
<1>1. ASSUME EngineInv, Next, workspace # Null, workspace.evidence # Null
      PROVE  workspace' = workspace
    <2>1. /\ pc[workspace.owner] = "done"
          /\ \A r \in Runs : created[r] => pc[r] = "done"
        BY <1>1 DEF EngineInv, Kept, RunInv, Owned
    <2>2. ASSUME NEW r \in Runs, Read(r) \/ Build(r) \/ Write(r) \/ Crash(r)
          PROVE  workspace' = workspace
        <3>1. Frame(r)
            BY <1>1, <2>2, ReadFrame, BuildFrame, WriteFrame DEF EngineInv
        <3>2. pc[r] # "done"
            BY <2>2, BuildSteps
               DEF Read, Refuse, Accept, MakeWorkspace, LoadRequest, HashSource, FindGit,
                   ReadPatchSeries, BuildPlan, ReadingFails, Learn, Reading, Building, Write,
                   Judge, WriteBundle, WriteEvidence, WriteFails, Crash
        <3> QED BY <1>1, <2>1, <3>1, <3>2 DEF Frame
    <2> QED BY <1>1, <2>2 DEF Next, Edit
<1>2. EngineInv /\ [Next]_vars =>
          [workspace # Null /\ workspace.evidence # Null => workspace' = workspace]_vars
    BY <1>1
<1> QED BY <1>2, EngineInvariant, PTL DEF Spec

-----------------------------------------------------------------------------
(* A PASS over inputs nobody edits                                         *)

\* The stages between the first hash and the last use of an input.
Hashing == {"git", "series", "plan"} \cup Building

\* What somebody has to arrange for "the declared inputs" to be those that
\* were used: no input is edited while a run is at one of these stages.  The
\* code does not see to it, so PassUsesDeclaredInputs fails of Spec.
InputsAtRest == version' # version => \A r \in Runs : pc[r] \notin Hashing

RestSpec == Init /\ [][Next /\ InputsAtRest]_vars

HashedSeries == [k \in 1..Len(Series) |-> Hashed(Series[k])]

\* A tree made of inputs as recorded, with the first n of the patches.
MadeOf(tree, input, n) ==
    /\ tree.source = input.source
    /\ tree.downstream = input.downstream
    /\ Len(tree.applied) = n
    /\ \A k \in 1..n : tree.applied[k] = input.patches[k]

\* What a run has hashed is what is there, and what it has built is made of it.
Declared(r) ==
    /\ pc[r] \in Hashing => inputs[r].source = version[Source]
    /\ pc[r] \in {"plan"} \cup Building => inputs[r].patches = HashedSeries
    /\ pc[r] \in Building => inputs[r].downstream = version[Downstream]
    /\ pc[r] = "materialize" => workspace.tree.source = inputs[r].source
    /\ pc[r] \in {"check", "apply"} => MadeOf(workspace.tree, inputs[r], Len(outcome[r].applied))
    /\ outcome[r].pass =>
        /\ created[r]
        /\ Len(inputs[r].patches) = Len(Series)
        /\ MadeOf(workspace.tree, inputs[r], Len(Series))

DeclaredInv == EngineInv /\ \A r \in Runs : Declared(r)

\* A run that fails declares nothing.
LEMMA FailureDeclares ==
    ASSUME TypeOK, NEW r \in Runs, NEW class, NEW failed, Fail(r, class, failed)
    PROVE  Declared(r)'
<1>1. pc'[r] = "judge" /\ outcome'[r] = SetFailure(outcome[r], class, failed)
    BY DEF Fail, Goto, TypeOK
<1>2. ~ outcome'[r].pass
    BY <1>1 DEF SetFailure, Outcome
<1> QED BY <1>1, <1>2 DEF Declared, Hashing, Building

\* Preflight records the hashes of what is there.
LEMMA ReadKeepsDeclared ==
    ASSUME DeclaredInv, NEW r \in Runs, Read(r)
    PROVE  Declared(r)'
<1>1. /\ TypeOK /\ Built(r) /\ Declared(r) /\ inputs[r] \in InputRecords
      /\ version' = version /\ HashedSeries' = HashedSeries
    BY DEF DeclaredInv, EngineInv, RunInv, TypeOK, Read, Refuse, Accept, MakeWorkspace, LoadRequest,
       HashSource, FindGit, ReadPatchSeries, BuildPlan, ReadingFails, Learn, HashedSeries, Hashed
<1>2. ~ outcome[r].pass
    BY <1>1 DEF Read, Refuse, Accept, MakeWorkspace, LoadRequest, HashSource, FindGit,
       ReadPatchSeries, BuildPlan, ReadingFails, Learn, Built, Reading, BaseOutcome, Outcome
<1>3. CASE Refuse(r) \/ ReadingFails(r)
    BY <1>1, <1>3, FailureDeclares DEF Refuse, ReadingFails
<1>4. CASE Accept(r)
    BY <1>1, <1>2, <1>4 DEF Accept, Goto, TypeOK, Declared, Hashing, Building
<1>5. CASE MakeWorkspace(r)
    <2>1. CASE Goto(r, "request") /\ UNCHANGED outcome
        BY <1>1, <1>2, <2>1 DEF Goto, TypeOK, Declared, Hashing, Building
    <2> QED BY <1>1, <1>5, <2>1, FailureDeclares DEF MakeWorkspace
<1>6. CASE LoadRequest(r)
    BY <1>1, <1>2, <1>6 DEF LoadRequest, Learn, Goto, TypeOK, Declared, Hashing, Building
<1>7. CASE HashSource(r)
    BY <1>1, <1>2, <1>7
       DEF HashSource, Learn, Goto, TypeOK, Declared, Hashing, Building, InputRecords
<1>8. CASE FindGit(r)
    BY <1>1, <1>2, <1>8 DEF FindGit, Learn, Goto, TypeOK, Declared, Hashing, Building
<1>9. CASE ReadPatchSeries(r)
    BY <1>1, <1>2, <1>9 DEF ReadPatchSeries, Learn, Goto, TypeOK, Declared, Hashing, Building,
       InputRecords, HashedSeries
<1>10. CASE BuildPlan(r)
    BY <1>1, <1>2, <1>10
       DEF BuildPlan, Learn, Goto, TypeOK, Declared, Hashing, Building, InputRecords
<1> QED BY <1>3, <1>4, <1>5, <1>6, <1>7, <1>8, <1>9, <1>10 DEF Read

\* Going on with the next patch, or ending with a PASS.
LEMMA ContinueDeclares ==
    ASSUME DeclaredInv, NEW r \in Runs, pc[r] \in Building, NEW o \in Outcomes, Continue(r, o),
           ~ o.pass, Len(o.applied) <= Len(Series),
           UNCHANGED <<version, inputs, created>>,
           MadeOf(workspace'.tree, inputs[r], Len(o.applied))
    PROVE  Declared(r)'
<1>1. /\ TypeOK /\ Declared(r) /\ created[r] /\ HashedSeries' = HashedSeries
    BY DEF DeclaredInv, EngineInv, RunInv, Owned, HashedSeries, Hashed
<1>2. Len(o.applied) \in Nat /\ Len(Series) \in Nat
    BY OutcomeFields, SeriesType
<1>3. CASE Len(o.applied) < Len(Series)
    <2>1. pc'[r] = "check" /\ outcome'[r] = o
        BY <1>1, <1>3 DEF Continue, Goto, TypeOK
    <2> QED BY <1>1, <2>1 DEF Declared, Hashing, Building
<1>4. CASE ~ (Len(o.applied) < Len(Series))
    <2>1. pc'[r] = "judge" /\ Len(o.applied) = Len(Series)
        BY <1>1, <1>2, <1>4 DEF Continue, Goto, TypeOK
    <2>2. Len(inputs[r].patches) = Len(Series)
        BY <1>1, <1>2 DEF Declared, HashedSeries
    <2> QED BY <1>1, <2>1, <2>2 DEF Declared, Hashing, Building
<1> QED BY <1>3, <1>4

\* Building uses what was hashed.
LEMMA BuildKeepsDeclared ==
    ASSUME DeclaredInv, NEW r \in Runs, Build(r)
    PROVE  Declared(r)'
<1>1. /\ TypeOK /\ RunInv(r) /\ Built(r) /\ Declared(r) /\ workspace # Null
      /\ pc[r] \in Building /\ UNCHANGED <<version, inputs, created>>
      /\ HashedSeries' = HashedSeries /\ outcome[r] \in Outcomes
    BY BuildSteps, BuildKeepsDocuments
       DEF DeclaredInv, EngineInv, RunInv, TypeOK, HashedSeries, Hashed
<1>v. /\ version[Source] \in Optional(Versions) /\ version[Downstream] \in Optional(Versions)
      /\ Null \in Optional(Versions) /\ <<>> \in Seq(HashedPatches)
    BY <1>1, EmptySeq DEF TypeOK, Optional
<1>2. CASE StartCopy(r)
    <2>1. pc'[r] = "copying" /\ ~ outcome'[r].pass
        BY <1>1, <1>2 DEF StartCopy, Goto, TypeOK, Built, BaseOutcome, Outcome
    <2> QED BY <1>1, <2>1 DEF Declared, Hashing, Building
<1>3. CASE FinishCopy(r)
    <2> DEFINE tree == Tree(version[Source], Null, <<>>, FALSE)
    <2>1. tree \in Trees /\ SetTree(tree)
        BY <1>3, <1>v, TreeType DEF FinishCopy
    <2>2. workspace'.tree = tree /\ tree.source = version[Source]
        BY <1>1, <2>1, SetTreeType DEF Tree
    <2>3. pc'[r] = "materialize" /\ ~ outcome'[r].pass
        BY <1>1, <1>3 DEF FinishCopy, Goto, TypeOK, WithStatus, Outcome
    <2> QED BY <1>1, <2>2, <2>3 DEF Declared, Hashing, Building
<1>4. CASE CopyFails(r) \/ MaterializeFails(r) \/ BuildingFails(r)
    BY <1>1, <1>4, FailureDeclares DEF CopyFails, MaterializeFails, BuildingFails
<1>5. CASE Materialize(r)
    <2> DEFINE t    == workspace.tree
               tree == Tree(t.source, version[Downstream], t.applied, t.partial)
    <2>1. /\ t \in Trees /\ t.applied = <<>> /\ t.source = inputs[r].source
          /\ ~ outcome[r].pass /\ outcome[r].applied = <<>>
        BY <1>1, <1>5, WorkspaceType DEF Materialize, Built, Declared, Outcome
    <2>2. tree \in Trees /\ SetTree(tree)
        BY <1>5, <1>v, <2>1, TreeType DEF Materialize, Trees
    <2>3. workspace'.tree = tree
        BY <1>1, <2>2, SetTreeType
    <2>4. MadeOf(tree, inputs[r], 0)
        BY <1>1, <2>1 DEF MadeOf, Tree, Declared
    <2>5. Continue(r, outcome[r]) /\ Len(outcome[r].applied) = 0 /\ 0 <= Len(Series)
        BY <1>5, <2>1, SeriesType DEF Materialize
    <2> HIDE DEF t, tree
    <2> QED BY <1>1, <2>1, <2>3, <2>4, <2>5, ContinueDeclares
<1>6. CASE CheckPatch(r)
    <2>1. CASE outcome' = [outcome EXCEPT ![r] = Attempted(r)] /\ Goto(r, "apply")
        <3>1. pc'[r] = "apply" /\ outcome'[r] = Attempted(r) /\ workspace' = workspace
            BY <1>1, <1>6, <2>1 DEF CheckPatch, Goto, TypeOK
        <3>2. outcome'[r].applied = outcome[r].applied /\ ~ outcome'[r].pass
            BY <1>1, <1>6, <3>1 DEF CheckPatch, Attempted, Outcome, Built
        <3> QED BY <1>1, <1>6, <3>1, <3>2 DEF CheckPatch, Declared, Hashing, Building
    <2>2. CASE /\ outcome' = [outcome EXCEPT ![r] =
                        SetFailure(Attempted(r), "PATCH_CHECK_FAILED", NextPatch(r))]
               /\ Goto(r, "judge")
        <3>1. pc'[r] = "judge" /\ ~ outcome'[r].pass
            BY <1>1, <2>2 DEF Goto, TypeOK, SetFailure, Outcome
        <3> QED BY <3>1 DEF Declared, Hashing, Building
    <2> QED BY <1>6, <2>1, <2>2 DEF CheckPatch
<1>7. CASE ApplyPatch(r)
    <2>1. CASE Fail(r, "PATCH_APPLY_FAILED", NextPatch(r))
        BY <1>1, <2>1, FailureDeclares
    <2>2. CASE SetTree(PatchedTree(r)) /\ Continue(r, Applied(r))
        <3> DEFINE t == workspace.tree
                   n == Len(outcome[r].applied)
        <3>1. /\ t \in Trees /\ MadeOf(t, inputs[r], n) /\ n \in Nat /\ n < Len(Series)
              /\ inputs[r].patches = HashedSeries /\ ~ outcome[r].pass
              /\ outcome[r].applied \in Seq(Patches)
            BY <1>1, <1>7, WorkspaceType, OutcomeFields DEF ApplyPatch, Built, Declared
        <3>2. t.applied \in Seq(HashedPatches) /\ Hashed(NextPatch(r)) \in HashedPatches
            BY <1>1, <1>7, <3>1, WorkspaceType
               DEF ApplyPatch, Trees, Hashed, HashedPatches, TypeOK
        <3>3. workspace'.tree = PatchedTree(r)
            BY <1>1, <1>7, <2>2, PatchTypes, SetTreeType DEF ApplyPatch
        <3>4. Hashed(NextPatch(r)) = inputs[r].patches[n + 1]
            BY <3>1, SeriesType DEF HashedSeries, NextPatch
        <3>5. MadeOf(PatchedTree(r), inputs[r], n + 1)
            <4> DEFINE applied == Append(t.applied, Hashed(NextPatch(r)))
            <4>1. /\ PatchedTree(r).source = t.source /\ PatchedTree(r).downstream = t.downstream
                  /\ PatchedTree(r).applied = applied
                BY DEF PatchedTree, Tree
            <4>2. Len(applied) = n + 1 /\ \A k \in 1..n : applied[k] = t.applied[k]
                BY <3>1, <3>2, AppendProperties DEF MadeOf
            <4>3. applied[n + 1] = Hashed(NextPatch(r))
                BY <3>1, <3>2, AppendProperties DEF MadeOf
            <4> HIDE DEF applied, t, n
            <4> QED BY <3>1, <3>4, <4>1, <4>2, <4>3 DEF MadeOf
        <3>6. ~ Applied(r).pass /\ Len(Applied(r).applied) = n + 1
            BY <1>1, <1>7, <3>1, WorkspaceType, AppendProperties DEF ApplyPatch, Applied, Outcome
        <3>7. Applied(r) \in Outcomes
            BY <1>1, <1>7, PatchTypes DEF ApplyPatch
        <3>8. n + 1 <= Len(Series)
            BY <3>1, SeriesType
        <3> HIDE DEF n, t
        <3> QED BY <1>1, <2>2, <3>3, <3>5, <3>6, <3>7, <3>8, ContinueDeclares
    <2> QED BY <1>7, <2>1, <2>2 DEF ApplyPatch
<1> QED BY <1>2, <1>3, <1>4, <1>5, <1>6, <1>7 DEF Build

\* Writing leaves tree and hashes as they are, and makes no PASS.
LEMMA WriteKeepsDeclared ==
    ASSUME DeclaredInv, NEW r \in Runs, Write(r) \/ Crash(r)
    PROVE  Declared(r)'
<1>1. TypeOK /\ RunInv(r) /\ Declared(r)
    BY DEF DeclaredInv, EngineInv
<1>2. /\ pc'[r] \notin Hashing /\ pc'[r] \notin {"plan"} \cup Building
      /\ inputs' = inputs /\ created' = created
    BY <1>1 DEF Write, Judge, WriteBundle, WriteEvidence, WriteFails, Crash, Goto, TypeOK, Hashing,
       Building
<1>3. workspace'.tree = workspace.tree
    BY <1>1, WriteDocuments DEF Write, Judge, WriteFails, Crash
<1>4. outcome'[r].pass => outcome[r].pass
    BY <1>1 DEF Write, Judge, WriteBundle, WriteEvidence, WriteFails, Crash, TypeOK, WithBundle,
       EvidenceWriteFailed, SetFailure, Outcome
<1> QED BY <1>1, <1>2, <1>3, <1>4 DEF Declared, Building

\* A step of another run leaves what a run has declared and built.
LEMMA OthersKeepDeclared ==
    ASSUME DeclaredInv, NEW r \in Runs, Frame(r), version' = version, NEW q \in Runs, q # r
    PROVE  Declared(q)'
<1>1. /\ pc'[q] = pc[q] /\ inputs'[q] = inputs[q] /\ outcome'[q] = outcome[q]
      /\ created'[q] = created[q] /\ HashedSeries' = HashedSeries
    BY DEF Frame, HashedSeries, Hashed
<1>2. Owned(q) /\ Owned(r) /\ Declared(q)
    BY DEF DeclaredInv, EngineInv, RunInv
<1>3. CASE workspace' = workspace
    BY <1>1, <1>2, <1>3 DEF Declared
<1>4. CASE workspace = Null \/ created[r]
    <2>1. ~ created[q] /\ pc[q] \notin Building
        BY <1>2, <1>4 DEF Owned
    <2> QED BY <1>1, <1>2, <2>1 DEF Declared, Building
<1> QED BY <1>3, <1>4 DEF Frame

\* While nobody edits an input between its hash and its last use, a PASS is
\* about the inputs it declares: the source, the downstream files and the
\* contents of every patch in the tree are those whose hashes are recorded.
THEOREM PassOfInputsAtRest == RestSpec => []PassUsesDeclaredInputs
<1>1. Init => DeclaredInv
    <2>1. Init => EngineInv
        BY InitType, InitRunInv DEF EngineInv, Kept, Init
    <2> QED BY <2>1
            DEF Init, DeclaredInv, Declared, Hashing, Building, BaseOutcome, Outcome
<1>2. DeclaredInv /\ EngineInv' /\ [Next /\ InputsAtRest]_vars => DeclaredInv'
    <2> SUFFICES ASSUME DeclaredInv, EngineInv', [Next /\ InputsAtRest]_vars, NEW q \in Runs
                 PROVE  Declared(q)'
        BY DEF DeclaredInv
    <2>1. CASE UNCHANGED vars
        BY <2>1 DEF vars, DeclaredInv, Declared, HashedSeries, Hashed
    <2>2. ASSUME NEW r \in Runs, Read(r) \/ Build(r) \/ Write(r) \/ Crash(r)
          PROVE  Declared(q)'
        <3>1. Frame(r)
            BY <2>2, ReadFrame, BuildFrame, WriteFrame DEF DeclaredInv, EngineInv
        <3>2. version' = version
            BY <2>2, BuildSteps
               DEF Read, Refuse, Accept, MakeWorkspace, LoadRequest, HashSource, FindGit,
                   ReadPatchSeries, BuildPlan, ReadingFails, Learn, Write, Judge, WriteBundle,
                   WriteEvidence, WriteFails, Crash
        <3>3. CASE q = r
            BY <2>2, <3>3, ReadKeepsDeclared, BuildKeepsDeclared, WriteKeepsDeclared
        <3>4. CASE q # r
            BY <3>1, <3>2, <3>4, OthersKeepDeclared
        <3> QED BY <3>3, <3>4
    <2>3. ASSUME NEW x \in DOMAIN version, Edit(x), InputsAtRest
          PROVE  Declared(q)'
        <3>1. x \in DOMAIN version /\ version[x] \in Nat
            BY <2>3, InputsAssumption DEF DeclaredInv, EngineInv, TypeOK, Versions
        <3>2. version' # version
            BY <2>3, <3>1 DEF Edit
        <3>3. pc[q] \notin Hashing
            BY <2>3, <3>2 DEF InputsAtRest
        <3> QED BY <2>3, <3>3 DEF Edit, DeclaredInv, Declared, Hashing, Building
    <2> QED BY <2>1, <2>2, <2>3 DEF Next
<1>3. DeclaredInv => PassUsesDeclaredInputs
    <2> SUFFICES ASSUME DeclaredInv, workspace # Null, workspace.evidence # Null,
                        workspace.evidence.outcome.pass
                 PROVE  PassUsesDeclaredInputs
        BY DEF PassUsesDeclaredInputs
    <2> DEFINE r    == workspace.owner
               tree == workspace.tree
    <2>1. /\ r \in Runs /\ workspace \in Workspaces /\ inputs[r] \in InputRecords
        BY DEF DeclaredInv, EngineInv, TypeOK, Optional, Workspaces
    <2>2. workspace.evidence = Document(r)
        BY DEF DeclaredInv, EngineInv, Kept
    <2>3. workspace.evidence.inputs = inputs[r] /\ outcome[r].pass
        BY <2>2 DEF Document
    <2>4. Len(inputs[r].patches) = Len(Series) /\ MadeOf(tree, inputs[r], Len(Series))
        BY <2>1, <2>3 DEF DeclaredInv, Declared
    <2>5. tree # Null
        BY <2>2, <2>3 DEF DeclaredInv, EngineInv, Kept, TreeHolds
    <2>6. tree.applied \in Seq(HashedPatches) /\ inputs[r].patches \in Seq(HashedPatches)
        BY <2>1, <2>5 DEF Workspaces, Optional, Trees, InputRecords
    <2>7. tree.applied = inputs[r].patches
        BY <2>4, <2>6, SeqEqual DEF MadeOf
    <2> QED BY <2>3, <2>4, <2>7 DEF PassUsesDeclaredInputs, MadeOf
<1>4. RestSpec => Spec
    <2>1. [Next /\ InputsAtRest]_vars => [Next]_vars
        OBVIOUS
    <2> QED BY <2>1, PTL DEF RestSpec, Spec
<1> QED BY <1>1, <1>2, <1>3, <1>4, EngineInvariant, PTL DEF RestSpec
=============================================================================
