---------------------------- MODULE PatchEngine -----------------------------
(***************************************************************************)
(* RunQualification of scripts/patch_qualify.py: the synthetic PATCH-APPLY *)
(* engine.  Several runs are started with the same workspace path while    *)
(* people edit the inputs; a run may die at any step, and whoever starts   *)
(* the next one finds the workspace the dead run left.                     *)
(*                                                                         *)
(* An input (the source tree, the downstream tree, a patch file) is its    *)
(* version, a number every edit increases: a hash recorded in evidence is  *)
(* the version read when the hash was taken.  What git or the file system  *)
(* makes of a content is open, so every stage may succeed or fail.         *)
(***************************************************************************)
EXTENDS Naturals, Sequences

CONSTANTS
    Runs,         \* invocations of the engine, all with one workspace path
    Patches,      \* the patch files
    Series,       \* patches/series
    Source,       \* the source tree
    Downstream,   \* src/chromium of the repository
    MaxEdits,     \* bound: edits of one input
    Null

ASSUME SeriesAssumption ==
    /\ Series \in Seq(Patches)
    /\ \A i, j \in 1..Len(Series) : Series[i] = Series[j] => i = j
ASSUME InputsAssumption ==
    /\ Source \notin Patches /\ Downstream \notin Patches /\ Source # Downstream
    /\ MaxEdits \in Nat
    /\ Null \notin Runs /\ Null \notin Patches /\ Null \notin 0..MaxEdits

VARIABLES
    version,     \* the version of each input
    workspace,   \* the directory all runs were given: Null until it is made
    pc,          \* the stage each run is in
    inputs,      \* what each run has recorded of its inputs
    outcome,     \* what each run has recorded of its execution
    created      \* WorkspaceCreated of each run

vars == <<version, workspace, pc, inputs, outcome, created>>

-----------------------------------------------------------------------------
(* State                                                                   *)

Versions == 0..MaxEdits
Optional(S) == S \cup {Null}

Hashed(p) == [name |-> p, hash |-> version[p]]
HashedPatches == [name : Patches, hash : Versions]

\* The stages that read, those that build the tree, those that write.
Reading == {"start", "mkdir", "request", "source", "git", "series", "plan"}
Building == {"copy", "copying", "materialize", "check", "apply"}
Writing == {"judge", "bundle", "evidence"}
Stages == Reading \cup Building \cup Writing \cup {"done", "dead"}

PatchFailures == {"PATCH_CHECK_FAILED", "PATCH_APPLY_FAILED"}
Failures ==
    {"INVALID_REQUEST", "INVALID_SOURCE", "INVALID_WORKSPACE", "INVALID_SERIES",
     "UNSAFE_PATH", "MATERIALIZATION_COLLISION", "MATERIALIZATION_FAILURE",
     "TOOL_MISSING", "EVIDENCE_WRITE_FAILED", "INTERNAL_ERROR"} \cup PatchFailures

PatchNames(patches) == [i \in DOMAIN patches |-> patches[i].name]

\* The candidate of the request is known or not; the hashes are as taken.
InputRecords ==
    [request : BOOLEAN, source : Optional(Versions),
     patches : Seq(HashedPatches), downstream : Optional(Versions)]

NoInputs == [request |-> FALSE, source |-> Null, patches |-> <<>>, downstream |-> Null]

TreeStatuses == {"NOT_CREATED", "PREPARED", "FAILED", "COMPLETE"}

Outcomes ==
    [class : Optional(Failures), failed : Optional(Patches), attempted : Seq(Patches),
     applied : Seq(Patches), status : TreeStatuses, pass : BOOLEAN, bundle : BOOLEAN]

Outcome(class, failed, attempted, applied, status, pass, bundle) ==
    [class |-> class, failed |-> failed, attempted |-> attempted, applied |-> applied,
     status |-> status, pass |-> pass, bundle |-> bundle]

BaseOutcome == Outcome(Null, Null, <<>>, <<>>, "NOT_CREATED", FALSE, FALSE)

\* The integration tree: the source and downstream versions in it, the patch
\* contents applied to it in order, and whether an operation was cut short.
Trees ==
    [source : Optional(Versions), downstream : Optional(Versions),
     applied : Seq(HashedPatches), partial : BOOLEAN]

Tree(source, downstream, applied, partial) ==
    [source |-> source, downstream |-> downstream, applied |-> applied, partial |-> partial]

\* evidence.json and repair-bundle.json, with the run that wrote them.
Documents == [by : Runs, inputs : InputRecords, outcome : Outcomes]

Document(r) == [by |-> r, inputs |-> inputs[r], outcome |-> outcome[r]]

Workspaces ==
    [owner : Runs, tree : Optional(Trees), bundle : Optional(Documents),
     evidence : Optional(Documents)]

ASSUME NullAssumption ==
    /\ Null \notin Failures /\ Null \notin Trees /\ Null \notin Documents
    /\ Null \notin Workspaces

TypeOK ==
    /\ version \in [Patches \cup {Source, Downstream} -> Versions]
    /\ workspace \in Optional(Workspaces)
    /\ pc \in [Runs -> Stages]
    /\ inputs \in [Runs -> InputRecords]
    /\ outcome \in [Runs -> Outcomes]
    /\ created \in [Runs -> BOOLEAN]

Init ==
    /\ version = [x \in Patches \cup {Source, Downstream} |-> 0]
    /\ workspace = Null
    /\ pc = [r \in Runs |-> "start"]
    /\ inputs = [r \in Runs |-> NoInputs]
    /\ outcome = [r \in Runs |-> BaseOutcome]
    /\ created = [r \in Runs |-> FALSE]

-----------------------------------------------------------------------------
(* Recording                                                               *)

Goto(r, stage) == pc' = [pc EXCEPT ![r] = stage]

\* SetFailure: a tree that counts as created is now a failed one.
SetFailure(o, class, failed) ==
    Outcome(class, failed, o.attempted, o.applied,
            IF o.status = "NOT_CREATED" THEN "NOT_CREATED" ELSE "FAILED", FALSE, o.bundle)

\* A StageFailure, or any other exception, ends the first try block.
Fail(r, class, failed) ==
    /\ outcome' = [outcome EXCEPT ![r] = SetFailure(outcome[r], class, failed)]
    /\ Goto(r, "judge")

\* The failures of the stages that only read.
ReadingFailures(stage) ==
    {"INTERNAL_ERROR"} \cup
    CASE stage = "request" -> {"INVALID_REQUEST"}
      [] stage = "source"  -> {"INVALID_SOURCE", "UNSAFE_PATH"}
      [] stage = "git"     -> {"TOOL_MISSING"}
      [] stage = "series"  -> {"INVALID_SERIES", "UNSAFE_PATH"}
      [] stage = "plan"    -> {"INVALID_SOURCE", "UNSAFE_PATH", "MATERIALIZATION_COLLISION"}

-----------------------------------------------------------------------------
(* Preflight                                                               *)

\* The arguments are wrong, or the workspace is there already or overlaps the
\* source.
Refuse(r) ==
    /\ pc[r] = "start"
    /\ \E class \in {"INVALID_SOURCE", "INVALID_WORKSPACE", "INTERNAL_ERROR"} :
            Fail(r, class, Null)
    /\ UNCHANGED <<version, workspace, inputs, created>>

\* The path was free when Workspace.exists() looked.
Accept(r) ==
    /\ pc[r] = "start"
    /\ workspace = Null
    /\ Goto(r, "mkdir")
    /\ UNCHANGED <<version, workspace, inputs, outcome, created>>

NewWorkspace(r) == [owner |-> r, tree |-> Null, bundle |-> Null, evidence |-> Null]

\* Mutated form: mkdir(exist_ok=True).
MakeWorkspaceExistOk(r) ==
    /\ pc[r] = "mkdir"
    /\ workspace' = IF workspace = Null THEN NewWorkspace(r) ELSE workspace
    /\ created' = [created EXCEPT ![r] = TRUE]
    /\ Goto(r, "request")
    /\ UNCHANGED <<version, inputs, outcome>>

\* Workspace.mkdir(exist_ok=False) decides between runs that both looked; it
\* can also fail of itself.
MakeWorkspace(r) ==
    /\ pc[r] = "mkdir"
    /\ \/ /\ workspace = Null
          /\ workspace' = NewWorkspace(r)
          /\ created' = [created EXCEPT ![r] = TRUE]
          /\ Goto(r, "request")
          /\ UNCHANGED outcome
       \/ /\ Fail(r, "INVALID_WORKSPACE", Null)
          /\ UNCHANGED <<workspace, created>>
    /\ UNCHANGED <<version, inputs>>

\* A reading stage ends well: what it learnt is recorded.
Learn(r, stage, learnt, next) ==
    /\ pc[r] = stage
    /\ inputs' = [inputs EXCEPT ![r] = learnt]
    /\ Goto(r, next)
    /\ UNCHANGED <<version, workspace, outcome, created>>

LoadRequest(r) == Learn(r, "request", [inputs[r] EXCEPT !.request = TRUE], "source")

HashSource(r) == Learn(r, "source", [inputs[r] EXCEPT !.source = version[Source]], "git")

FindGit(r) == Learn(r, "git", inputs[r], "series")

\* ReadPatchSeries hashes each patch as it inspects it.
ReadPatchSeries(r) ==
    Learn(r, "series",
          [inputs[r] EXCEPT !.patches = [i \in 1..Len(Series) |-> Hashed(Series[i])]], "plan")

\* Mutated form: the plan is made, and hashed, by nobody.
BuildPlanSkipped(r) == Learn(r, "plan", inputs[r], "copy")

BuildPlan(r) == Learn(r, "plan", [inputs[r] EXCEPT !.downstream = version[Downstream]], "copy")

\* A patch that git cannot parse is named.
ReadingFails(r) ==
    /\ pc[r] \in Reading \ {"start", "mkdir"}
    /\ \/ \E class \in ReadingFailures(pc[r]) : Fail(r, class, Null)
       \/ /\ pc[r] = "series"
          /\ \E i \in 1..Len(Series) : Fail(r, "INVALID_SERIES", Series[i])
    /\ UNCHANGED <<version, workspace, inputs, created>>

-----------------------------------------------------------------------------
(* Building the integration tree                                           *)

WithStatus(o, status, pass) ==
    Outcome(o.class, o.failed, o.attempted, o.applied, status, pass, o.bundle)

SetTree(tree) == workspace' = [workspace EXCEPT !.tree = tree]

\* What a copy that was cut short leaves.
Unfinished == Tree(Null, Null, <<>>, TRUE)

\* CopySourceTree makes the directory and starts to copy ...
StartCopy(r) ==
    /\ pc[r] = "copy"
    /\ SetTree(Unfinished)
    /\ Goto(r, "copying")
    /\ UNCHANGED <<version, inputs, outcome, created>>

\* ... and ends with the contents the files have by then.
FinishCopy(r) ==
    /\ pc[r] = "copying"
    /\ SetTree(Tree(version[Source], Null, <<>>, FALSE))
    /\ outcome' = [outcome EXCEPT ![r] = WithStatus(outcome[r], "PREPARED", FALSE)]
    /\ Goto(r, "materialize")
    /\ UNCHANGED <<version, inputs, created>>

\* A file that cannot be copied.  The status is still NOT_CREATED, also when
\* the copy had begun.
CopyFails(r) ==
    /\ pc[r] \in {"copy", "copying"}
    /\ \E class \in {"MATERIALIZATION_FAILURE", "UNSAFE_PATH"} : Fail(r, class, Null)
    /\ UNCHANGED <<version, workspace, inputs, created>>

\* Go on to the next patch; the end of the series is the end of the first
\* try block, and makes the result a PASS.
Continue(r, o) ==
    IF Len(o.applied) < Len(Series)
    THEN /\ outcome' = [outcome EXCEPT ![r] = o]
         /\ Goto(r, "check")
    ELSE /\ outcome' = [outcome EXCEPT ![r] = WithStatus(o, "COMPLETE", TRUE)]
         /\ Goto(r, "judge")

Materialize(r) ==
    /\ pc[r] = "materialize"
    /\ LET t == workspace.tree
       IN  SetTree(Tree(t.source, version[Downstream], t.applied, t.partial))
    /\ Continue(r, outcome[r])
    /\ UNCHANGED <<version, inputs, created>>

\* Some files may have been copied.
MaterializeFails(r) ==
    /\ pc[r] = "materialize"
    /\ \E class \in {"MATERIALIZATION_COLLISION", "MATERIALIZATION_FAILURE", "UNSAFE_PATH"} :
            Fail(r, class, Null)
    /\ LET t == workspace.tree IN SetTree(Tree(t.source, t.downstream, t.applied, TRUE))
    /\ UNCHANGED <<version, inputs, created>>

NextPatch(r) == Series[Len(outcome[r].applied) + 1]

Attempted(r) ==
    LET o == outcome[r]
    IN  Outcome(o.class, o.failed, Append(o.attempted, NextPatch(r)), o.applied, o.status,
                o.pass, o.bundle)

\* Mutated form: the patch is recorded and not its name.
AppliedItem(r) ==
    LET o == outcome[r]
    IN  Outcome(o.class, o.failed, o.attempted, Append(o.applied, Hashed(NextPatch(r))),
                o.status, o.pass, o.bundle)

Applied(r) ==
    LET o == outcome[r]
    IN  Outcome(o.class, o.failed, o.attempted, Append(o.applied, NextPatch(r)), o.status,
                o.pass, o.bundle)

\* git apply --check.
CheckPatch(r) ==
    /\ pc[r] = "check"
    /\ \/ /\ outcome' = [outcome EXCEPT ![r] = Attempted(r)]
          /\ Goto(r, "apply")
       \/ /\ outcome' = [outcome EXCEPT ![r] =
                  SetFailure(Attempted(r), "PATCH_CHECK_FAILED", NextPatch(r))]
          /\ Goto(r, "judge")
    /\ UNCHANGED <<version, workspace, inputs, created>>

\* The tree with one more patch, with the content its file has by now.
PatchedTree(r) ==
    LET t == workspace.tree
    IN  Tree(t.source, t.downstream, Append(t.applied, Hashed(NextPatch(r))), t.partial)

\* A git apply that fails may have changed some of the files.
TornTree(torn) ==
    LET t == workspace.tree IN Tree(t.source, t.downstream, t.applied, torn)

\* Mutated form: the return code of git apply is not looked at.
ApplyPatchUnchecked(r) ==
    /\ pc[r] = "apply"
    /\ SetTree(PatchedTree(r)) \/ SetTree(TornTree(TRUE))
    /\ Continue(r, Applied(r))
    /\ UNCHANGED <<version, inputs, created>>

\* Mutated form: the patch counts as applied before git apply has run.
ApplyPatchEarly(r) ==
    /\ pc[r] = "apply"
    /\ \/ /\ SetTree(PatchedTree(r))
          /\ Continue(r, Applied(r))
       \/ /\ SetTree(TornTree(FALSE))
          /\ outcome' = [outcome EXCEPT ![r] =
                  SetFailure(Applied(r), "PATCH_APPLY_FAILED", NextPatch(r))]
          /\ Goto(r, "judge")
    /\ UNCHANGED <<version, inputs, created>>

\* git apply, which may fail although --check succeeded.
ApplyPatch(r) ==
    /\ pc[r] = "apply"
    /\ \/ /\ SetTree(PatchedTree(r))
          /\ Continue(r, Applied(r))
       \/ /\ \E torn \in BOOLEAN : SetTree(TornTree(torn))
          /\ Fail(r, "PATCH_APPLY_FAILED", NextPatch(r))
    /\ UNCHANGED <<version, inputs, created>>

\* Anything else that goes wrong while the tree is built.
BuildingFails(r) ==
    /\ pc[r] \in Building
    /\ Fail(r, "INTERNAL_ERROR", Null)
    /\ UNCHANGED <<version, workspace, inputs, created>>

-----------------------------------------------------------------------------
(* Writing the result                                                      *)

\* Mutated form: a candidate is required of FAIL evidence too.
ValidateEvidenceWithCandidate(i, o) ==
    /\ i.request
    /\ o.pass => i.source # Null /\ o.class = Null /\ o.status = "COMPLETE"
    /\ ~ o.pass => o.class # Null /\ o.status # "COMPLETE"

\* The rules of ValidateEvidence.
ValidateEvidence(i, o) ==
    /\ o.pass =>
        /\ i.request /\ i.source # Null
        /\ o.class = Null /\ o.failed = Null
        /\ o.status = "COMPLETE"
        /\ o.applied = PatchNames(i.patches)
    /\ ~ o.pass => o.class # Null /\ o.status # "COMPLETE"

\* A patch failure earns a repair bundle.
WithBundle(o) ==
    Outcome(o.class, o.failed, o.attempted, o.applied, o.status, o.pass,
            o.class \in PatchFailures)

\* The end of every run whose result could not be validated or written.
EvidenceWriteFailed(o) ==
    LET f == SetFailure(o, "EVIDENCE_WRITE_FAILED", Null)
    IN  Outcome(f.class, f.failed, f.attempted, f.applied, f.status, f.pass, FALSE)

\* Evidence that does not validate is not written, and a run that made no
\* workspace writes nothing.
Judge(r) ==
    /\ pc[r] = "judge"
    /\ LET o     == WithBundle(outcome[r])
           valid == ValidateEvidence(inputs[r], o)
       IN  /\ outcome' = [outcome EXCEPT ![r] = IF valid THEN o ELSE EvidenceWriteFailed(o)]
           /\ Goto(r, IF ~ valid \/ ~ created[r] THEN "done"
                      ELSE IF o.bundle THEN "bundle" ELSE "evidence")
    /\ UNCHANGED <<version, workspace, inputs, created>>

\* Mutated form: the bundle is taken for the answer.
WriteBundleOnly(r) ==
    /\ pc[r] = "bundle"
    /\ workspace' = [workspace EXCEPT !.bundle = Document(r)]
    /\ Goto(r, "done")
    /\ UNCHANGED <<version, inputs, outcome, created>>

\* AtomicWriteJson leaves the whole document or none.
WriteBundle(r) ==
    /\ pc[r] = "bundle"
    /\ workspace' = [workspace EXCEPT !.bundle = Document(r)]
    /\ Goto(r, "evidence")
    /\ UNCHANGED <<version, inputs, outcome, created>>

WriteEvidence(r) ==
    /\ pc[r] = "evidence"
    /\ workspace' = [workspace EXCEPT !.evidence = Document(r)]
    /\ Goto(r, "done")
    /\ UNCHANGED <<version, inputs, outcome, created>>

\* Mutated form: the caller is not told.
WriteFailsQuietly(r) ==
    /\ pc[r] \in {"bundle", "evidence"}
    /\ Goto(r, "done")
    /\ UNCHANGED <<version, workspace, inputs, outcome, created>>

\* The caller gets the failure; a bundle already written stays where it is.
WriteFails(r) ==
    /\ pc[r] \in {"bundle", "evidence"}
    /\ outcome' = [outcome EXCEPT ![r] = EvidenceWriteFailed(outcome[r])]
    /\ Goto(r, "done")
    /\ UNCHANGED <<version, workspace, inputs, created>>

-----------------------------------------------------------------------------
(* Specification                                                           *)

\* The process dies; what it wrote stays.
Crash(r) ==
    /\ pc[r] \notin {"done", "dead"}
    /\ Goto(r, "dead")
    /\ UNCHANGED <<version, workspace, inputs, outcome, created>>

\* Somebody changes an input.
Edit(x) ==
    /\ version[x] < MaxEdits
    /\ version' = [version EXCEPT ![x] = @ + 1]
    /\ UNCHANGED <<workspace, pc, inputs, outcome, created>>

Read(r) ==
    \/ Refuse(r) \/ Accept(r) \/ MakeWorkspace(r) \/ LoadRequest(r) \/ HashSource(r)
    \/ FindGit(r) \/ ReadPatchSeries(r) \/ BuildPlan(r) \/ ReadingFails(r)

Build(r) ==
    \/ StartCopy(r) \/ FinishCopy(r) \/ CopyFails(r) \/ Materialize(r)
    \/ MaterializeFails(r) \/ CheckPatch(r) \/ ApplyPatch(r) \/ BuildingFails(r)

Write(r) == Judge(r) \/ WriteBundle(r) \/ WriteEvidence(r) \/ WriteFails(r)

Next ==
    \/ \E r \in Runs : Read(r) \/ Build(r) \/ Write(r) \/ Crash(r)
    \/ \E x \in DOMAIN version : Edit(x)

Spec == Init /\ [][Next]_vars

\* A run that is alive goes on.
FairSpec == Spec /\ \A r \in Runs : WF_vars(Read(r) \/ Build(r) \/ Write(r))

-----------------------------------------------------------------------------
(* Properties                                                              *)

\* Whatever is under the workspace path was put there by the run that made
\* the directory: runs that were refused, before or at the mkdir, write
\* nothing into another run's workspace (WorkspaceCreated).
OneWriter ==
    /\ \A r \in Runs : created[r] => workspace # Null /\ workspace.owner = r
    /\ workspace # Null =>
        /\ workspace.bundle # Null => workspace.bundle.by = workspace.owner
        /\ workspace.evidence # Null => workspace.evidence.by = workspace.owner

\* evidence.json is about the tree beside it.  NOT_CREATED means that there is
\* none, or one whose copy did not end; any other status, that the tree has the
\* source and exactly the patches recorded as applied, the first of the series.
\* "PASS is constructed only after all operations complete"
\* (docs/PATCH_QUALIFICATION.md:105-106): the tree is whole, with the
\* downstream files and every patch.
EvidenceDescribesTree ==
    (workspace # Null /\ workspace.evidence # Null) =>
        LET o    == workspace.evidence.outcome
            tree == workspace.tree
        IN  /\ o.status = "NOT_CREATED" => tree \in {Null, Unfinished} /\ o.attempted = <<>>
            /\ o.status # "NOT_CREATED" =>
                /\ tree # Null /\ tree.source # Null
                /\ PatchNames(tree.applied) = o.applied
                /\ o.applied = SubSeq(Series, 1, Len(o.applied))
                /\ o.attempted # <<>> => tree.downstream # Null
            /\ o.pass =>
                /\ o.status = "COMPLETE" /\ o.applied = Series
                /\ tree.downstream # Null /\ ~ tree.partial

\* A repair bundle names the first patch that is not in the tree: patches
\* before it are applied, in order, and none after it was tried.
BundleNamesFirstFailure ==
    (workspace # Null /\ workspace.bundle # Null) =>
        LET o == workspace.bundle.outcome
            n == Len(workspace.tree.applied)
        IN  /\ n < Len(Series)
            /\ PatchNames(workspace.tree.applied) = SubSeq(Series, 1, n)
            /\ o.applied = SubSeq(Series, 1, n)
            /\ o.attempted = SubSeq(Series, 1, n + 1)
            /\ o.failed = Series[n + 1]

\* "Before creating the integration tree, the engine validates the request,
\* source tree, Git availability, complete patch series" and the plan
\* (docs/PATCH_QUALIFICATION.md:60-62).
PreflightBeforeTree ==
    (workspace # Null /\ workspace.tree # Null) =>
        LET i == inputs[workspace.owner]
        IN  /\ i.request /\ i.source # Null /\ i.downstream # Null
            /\ PatchNames(i.patches) = Series

\* What a run returns is what it wrote: evidence.json of its workspace says
\* the same, and if there is none the caller was told EVIDENCE_WRITE_FAILED.
ReturnMatchesDisk ==
    \A r \in Runs : pc[r] = "done" /\ created[r] =>
        IF workspace.evidence = Null
        THEN outcome[r].class = "EVIDENCE_WRITE_FAILED"
        ELSE workspace.evidence = Document(r)

\* The evidence a run builds passes ValidateEvidence whatever stage it ended
\* in, so a real failure class is never hidden by EVIDENCE_WRITE_FAILED.
EvidenceIsValid ==
    \A r \in Runs : pc[r] = "judge" => ValidateEvidence(inputs[r], WithBundle(outcome[r]))

\* A run that made its workspace and is not killed ends by telling somebody:
\* it leaves evidence there, or returns that it could not.
WorkspaceGetsAnswer ==
    \A r \in Runs :
        created[r] ~> \/ pc[r] = "dead"
                      \/ workspace # Null /\ workspace.evidence # Null
                      \/ outcome[r].class = "EVIDENCE_WRITE_FAILED"

\* "A synthetic PASS means the engine copied, materialized, and applied the
\* declared inputs successfully" (docs/PATCH_QUALIFICATION.md:6-7): the tree
\* is made of the contents whose hashes the evidence declares.
PassUsesDeclaredInputs ==
    (workspace # Null /\ workspace.evidence # Null /\ workspace.evidence.outcome.pass) =>
        LET i == workspace.evidence.inputs
        IN  /\ workspace.tree.source = i.source
            /\ workspace.tree.downstream = i.downstream
            /\ workspace.tree.applied = i.patches
=============================================================================
