----------------------------- MODULE RealAdapter ----------------------------
(***************************************************************************)
(* scripts/real_patch_qualify.py: Run integrates downstream files and the  *)
(* patch series into a Git worktree of a Chromium root, and leaves evidence*)
(* with digests of what it made; CheckIntegration, called by the gates,    *)
(* accepts a tree that still has those digests, reading it piece by piece. *)
(* Runs may share a workspace path, die at any step, and people change the *)
(* root and edit the worktrees meanwhile.                                  *)
(*                                                                         *)
(* An edit is of one file and known by what sees that file: the digests of *)
(* the files the evidence lists, the diff of those Git tracks, the list of *)
(* untracked ones, or, when .gitignore hides it and it is not listed,      *)
(* nothing at all.  What the inputs contain is PatchEngine's subject; here *)
(* they do not change, and every stage may fail for a reason of its own.   *)
(***************************************************************************)
EXTENDS Naturals, Sequences, FiniteSets

CONSTANTS
    Runs,
    Workspaces,
    Gates,        \* invocations of CheckIntegration
    Commits,
    Patches,
    Series,
    Tracked,      \* patches that change a file Git tracks, not only new ones
    Edits,        \* changes people make to a worktree
    InFiles,      \* those to a file the evidence lists
    InDiff,       \* those to a file Git tracks
    Ignored,      \* those to a file .gitignore hides from Git
    MaxForeign,   \* bound: edits in the worktrees at a time
    Null

ASSUME SeriesAssumption == Series \in Seq(Patches) /\ Tracked \subseteq Patches
ASSUME EditsAssumption ==
    /\ InFiles \subseteq Edits /\ InDiff \subseteq Edits /\ Ignored \subseteq Edits
    /\ Ignored \cap InDiff = {}

VARIABLES
    root,        \* the commit of the Chromium root, Null while it is not clean
    space,       \* what is at each workspace path
    path,        \* the workspace each run was given
    pc,          \* the stage each run is in
    inputs,      \* what each run recorded of the request and the root
    outcome,     \* what it recorded of its execution
    digest,      \* integration_files and integration_diff_sha256
    touched,     \* ghost: evident edits of a run's tree while it was integrating
    gate         \* the evidence and the tree each gate reads or accepted

vars == <<root, space, path, pc, inputs, outcome, digest, touched, gate>>

-----------------------------------------------------------------------------
(* State                                                                   *)

Optional(S) == S \cup {Null}

Integrating == {"plan", "materialize", "apply", "files", "diff"}
Working ==
    {"start", "mkdir", "request", "source", "worktree", "clean", "recheck"}
        \cup Integrating
Stages == Working \cup {"judge", "done", "dead"}

InputRecords == [candidate : Optional(Commits), head : Optional(Commits)]
Inputs(candidate, head) == [candidate |-> candidate, head |-> head]
NoInputs == Inputs(Null, Null)

\* Why a stage failed is told apart only from evidence that was not written.
Failures == {"STAGE_FAILED", "EVIDENCE_WRITE_FAILED"}

Outcomes ==
    [class : Optional(Failures), attempted : Seq(Patches), applied : Seq(Patches),
     status : {"NOT_CREATED", "PREPARED", "FAILED", "COMPLETE"}, pass : BOOLEAN]

Outcome(class, attempted, applied, status, pass) ==
    [class |-> class, attempted |-> attempted, applied |-> applied, status |-> status,
     pass |-> pass]

BaseOutcome == Outcome(Null, <<>>, <<>>, "NOT_CREATED", FALSE)

\* A worktree: its commit, what was added to it, whether an operation on it
\* was cut short, and the edits of people that are in it.
Trees ==
    [base : Commits, downstream : BOOLEAN, applied : Seq(Patches), partial : BOOLEAN,
     foreign : SUBSET Edits]

Tree(base, downstream, applied, partial, foreign) ==
    [base |-> base, downstream |-> downstream, applied |-> applied, partial |-> partial,
     foreign |-> foreign]

\* The edits that git status finds and the digests of the evidence keep.
Evident == (InFiles \cup InDiff) \ Ignored

\* What a run did to the files it lists, and the edits of people there.
Contents ==
    [downstream : BOOLEAN, applied : Seq(Patches), partial : BOOLEAN, foreign : SUBSET Edits]

FilesContent(t) ==
    [downstream |-> t.downstream, applied |-> t.applied, partial |-> t.partial,
     foreign |-> t.foreign \cap InFiles]

\* What git diff shows: no new files, and not for certain an operation that was
\* cut short, which the listed files tell.
Diffs == [patches : SUBSET Patches, foreign : SUBSET Edits]

DiffContent(t) ==
    [patches |-> {t.applied[i] : i \in DOMAIN t.applied} \cap Tracked,
     foreign |-> t.foreign \cap InDiff]

Digests == [files : Optional(Contents), diff : Optional(Diffs)]
Digest(files, diff) == [files |-> files, diff |-> diff]
NoDigest == Digest(Null, Null)

Documents == [by : Runs, inputs : InputRecords, digest : Digests, outcome : Outcomes]
Document(r) ==
    [by |-> r, inputs |-> inputs[r], digest |-> digest[r], outcome |-> outcome[r]]

Spaces == [owner : Runs, tree : Optional(Trees), evidence : Optional(Documents)]
Space(owner, tree, evidence) == [owner |-> owner, tree |-> tree, evidence |-> evidence]

\* A call of CheckIntegration with the evidence and the workspace of the tree:
\* what it reads next, the listed files still to be read, the tree it accepted,
\* and, a ghost, the edits Git can see of the tree while it read.
Checks ==
    [evidence : Documents, at : Workspaces, stage : {"diff", "untracked", "files", "accepted"},
     unread : SUBSET InFiles, tree : Optional(Trees), meanwhile : SUBSET Edits]

Check(evidence, at, stage, unread, tree, meanwhile) ==
    [evidence |-> evidence, at |-> at, stage |-> stage, unread |-> unread, tree |-> tree,
     meanwhile |-> meanwhile]

ASSUME NullAssumption ==
    /\ Null \notin Commits /\ Null \notin Failures /\ Null \notin Trees
    /\ Null \notin Contents /\ Null \notin Diffs /\ Null \notin Documents
    /\ Null \notin Spaces /\ Null \notin Checks
    /\ Null \notin [by : Runs, document : Optional(Documents)]

Init ==
    /\ root \in Optional(Commits)
    /\ space = [w \in Workspaces |-> Null]
    /\ path \in [Runs -> Workspaces]
    /\ pc = [r \in Runs |-> "start"]
    /\ inputs = [r \in Runs |-> NoInputs]
    /\ outcome = [r \in Runs |-> BaseOutcome]
    /\ digest = [r \in Runs |-> NoDigest]
    /\ touched = [r \in Runs |-> {}]
    /\ gate = [g \in Gates |-> Null]

-----------------------------------------------------------------------------
(* Run                                                                     *)

Goto(r, stage) == pc' = [pc EXCEPT ![r] = stage]

At(r) == space[path[r]]
Created(r) == At(r) # Null /\ At(r).owner = r

SetSpace(w, s) == space' = [space EXCEPT ![w] = s]
SetTree(r, tree) == SetSpace(path[r], Space(At(r).owner, tree, At(r).evidence))

\* Engine.SetFailure
SetFailure(o, class) ==
    Outcome(class, o.attempted, o.applied,
            IF o.status = "NOT_CREATED" THEN "NOT_CREATED" ELSE "FAILED", FALSE)

Fail(r, o) ==
    /\ outcome' = [outcome EXCEPT ![r] = SetFailure(o, "STAGE_FAILED")]
    /\ Goto(r, "judge")
    /\ UNCHANGED <<root, path, inputs, digest, touched, gate>>

\* Workspace.exists() and the overlaps.
Accept(r) ==
    /\ pc[r] = "start"
    /\ At(r) = Null
    /\ Goto(r, "mkdir")
    /\ UNCHANGED <<root, space, path, inputs, outcome, digest, touched, gate>>

\* Mutated form: mkdir(exist_ok=True).
MakeWorkspaceExistOk(r) ==
    /\ pc[r] = "mkdir"
    /\ SetSpace(path[r], Space(r, Null, Null))
    /\ Goto(r, "request")
    /\ UNCHANGED <<root, path, inputs, outcome, digest, touched, gate>>

MakeWorkspace(r) ==
    /\ pc[r] = "mkdir"
    /\ At(r) = Null
    /\ SetSpace(path[r], Space(r, Null, Null))
    /\ Goto(r, "request")
    /\ UNCHANGED <<root, path, inputs, outcome, digest, touched, gate>>

LoadRequest(r) ==
    /\ pc[r] = "request"
    /\ \E commit \in Commits : inputs' = [inputs EXCEPT ![r] = Inputs(commit, Null)]
    /\ Goto(r, "source")
    /\ UNCHANGED <<root, space, path, outcome, digest, touched, gate>>

\* CheckIdentity of the root, which has to be clean.
CheckSource(r) ==
    /\ pc[r] = "source"
    /\ root = inputs[r].candidate
    /\ inputs' = [inputs EXCEPT ![r] = Inputs(inputs[r].candidate, root)]
    /\ Goto(r, "worktree")
    /\ UNCHANGED <<root, space, path, outcome, digest, touched, gate>>

\* FindGit and ReadPatchSeries, which write nothing, and then the worktree: at
\* the candidate, wherever the root is by now.
AddWorktree(r) ==
    /\ pc[r] = "worktree"
    /\ SetTree(r, Tree(inputs[r].candidate, FALSE, <<>>, FALSE, {}))
    /\ Goto(r, "clean")
    /\ UNCHANGED <<root, path, inputs, outcome, digest, touched, gate>>

\* Mutated form: CheckIdentity(Integration, ..., RequireClean=False).
CheckWorktreeHead(r) ==
    /\ pc[r] = "clean"
    /\ At(r).tree.base = inputs[r].candidate
    /\ Goto(r, "plan")
    /\ UNCHANGED <<root, space, path, inputs, outcome, digest, touched, gate>>

\* CheckIdentity of the worktree: git status leaves out what is ignored.
CheckWorktree(r) ==
    /\ pc[r] = "clean"
    /\ At(r).tree.base = inputs[r].candidate
    /\ At(r).tree.foreign \subseteq Ignored
    /\ Goto(r, "plan")
    /\ UNCHANGED <<root, space, path, inputs, outcome, digest, touched, gate>>

\* BuildMaterializationPlan and the look for redirected paths.
BuildPlan(r) ==
    /\ pc[r] = "plan"
    /\ outcome' = [outcome EXCEPT ![r] =
           Outcome(outcome[r].class, outcome[r].attempted, outcome[r].applied, "PREPARED",
                   outcome[r].pass)]
    /\ Goto(r, "materialize")
    /\ UNCHANGED <<root, space, path, inputs, digest, touched, gate>>

\* After the last patch come the digests.
AfterPatch(r, applied) ==
    Goto(r, IF Len(applied) < Len(Series) THEN "apply" ELSE "files")

MaterializeDownstream(r) ==
    /\ pc[r] = "materialize"
    /\ LET t == At(r).tree
       IN  SetTree(r, Tree(t.base, TRUE, t.applied, t.partial, t.foreign))
    /\ AfterPatch(r, outcome[r].applied)
    /\ UNCHANGED <<root, path, inputs, outcome, digest, touched, gate>>

NextPatch(r) == Series[Len(outcome[r].applied) + 1]

Attempted(r) ==
    LET o == outcome[r]
    IN  Outcome(o.class, Append(o.attempted, NextPatch(r)), o.applied, o.status, o.pass)

Applied(r) ==
    LET o == Attempted(r)
    IN  Outcome(o.class, o.attempted, Append(o.applied, NextPatch(r)), o.status, o.pass)

\* Mutated form: the return code of git apply is not looked at.
ApplyPatchUnchecked(r) ==
    /\ pc[r] = "apply"
    /\ LET t == At(r).tree
       IN  \/ SetTree(r, Tree(t.base, t.downstream, Append(t.applied, NextPatch(r)),
                              t.partial, t.foreign))
           \/ SetTree(r, Tree(t.base, t.downstream, t.applied, TRUE, t.foreign))
    /\ outcome' = [outcome EXCEPT ![r] = Applied(r)]
    /\ AfterPatch(r, Applied(r).applied)
    /\ UNCHANGED <<root, path, inputs, digest, touched, gate>>

\* git apply --check, which writes nothing, and git apply.
ApplyPatch(r) ==
    /\ pc[r] = "apply"
    /\ LET t == At(r).tree
       IN  SetTree(r, Tree(t.base, t.downstream, Append(t.applied, NextPatch(r)),
                           t.partial, t.foreign))
    /\ outcome' = [outcome EXCEPT ![r] = Applied(r)]
    /\ AfterPatch(r, Applied(r).applied)
    /\ UNCHANGED <<root, path, inputs, digest, touched, gate>>

\* Mutated form: the digest takes in the commit of the tree as well.
HashFilesTree(r) ==
    /\ pc[r] = "files"
    /\ digest' = [digest EXCEPT ![r] = Digest(At(r).tree, Null)]
    /\ Goto(r, "diff")
    /\ UNCHANGED <<root, space, path, inputs, outcome, touched, gate>>

HashFiles(r) ==
    /\ pc[r] = "files"
    /\ digest' = [digest EXCEPT ![r] = Digest(FilesContent(At(r).tree), Null)]
    /\ Goto(r, "diff")
    /\ UNCHANGED <<root, space, path, inputs, outcome, touched, gate>>

HashDiff(r) ==
    /\ pc[r] = "diff"
    /\ digest' = [digest EXCEPT ![r] =
           Digest(digest[r].files, DiffContent(At(r).tree))]
    /\ Goto(r, "recheck")
    /\ UNCHANGED <<root, space, path, inputs, outcome, touched, gate>>

\* The root again, and with it the PASS.
Recheck(r) ==
    /\ pc[r] = "recheck"
    /\ root = inputs[r].candidate
    /\ LET o == outcome[r]
       IN  outcome' = [outcome EXCEPT ![r] =
               Outcome(o.class, o.attempted, o.applied, "COMPLETE", TRUE)]
    /\ Goto(r, "judge")
    /\ UNCHANGED <<root, space, path, inputs, digest, touched, gate>>

\* What a stage that was cut short may leave of the tree.
Torn(r) ==
    \/ UNCHANGED space
    \/ /\ pc[r] = "worktree"
       /\ SetTree(r, Tree(inputs[r].candidate, FALSE, <<>>, TRUE, {}))
    \/ /\ pc[r] \in {"materialize", "apply"}
       /\ LET t == At(r).tree
          IN  SetTree(r, Tree(t.base, t.downstream, t.applied, TRUE, t.foreign))

\* A check of any stage, or any other exception.  A patch that fails is among
\* those attempted.
Fails(r) ==
    /\ pc[r] \in Working
    /\ Torn(r)
    /\ Fail(r, IF pc[r] = "apply" THEN Attempted(r) ELSE outcome[r])

ValidateEvidence(i, d, o) ==
    o.pass => /\ i.candidate # Null /\ i.head = i.candidate
              /\ o.status = "COMPLETE" /\ o.class = Null
              /\ o.applied = Series /\ o.attempted = Series
              /\ d.diff # Null

WriteFailed(r) ==
    outcome' = [outcome EXCEPT ![r] = SetFailure(outcome[r], "EVIDENCE_WRITE_FAILED")]

\* Evidence is validated, and written by the run that made the workspace.
Valid(r) == ValidateEvidence(inputs[r], digest[r], outcome[r])

WriteEvidence(r) ==
    /\ pc[r] = "judge"
    /\ Valid(r) /\ Created(r)
    /\ SetSpace(path[r], Space(At(r).owner, At(r).tree, Document(r)))
    /\ Goto(r, "done")
    /\ UNCHANGED <<root, path, inputs, outcome, digest, touched, gate>>

WriteNothing(r) ==
    /\ pc[r] = "judge"
    /\ Valid(r) /\ ~ Created(r)
    /\ Goto(r, "done")
    /\ UNCHANGED <<root, space, path, inputs, outcome, digest, touched, gate>>

\* Mutated form: the exception is not recorded.
WriteFailsQuietly(r) ==
    /\ pc[r] = "judge"
    /\ Created(r) \/ ~ Valid(r)
    /\ Goto(r, "done")
    /\ UNCHANGED <<root, space, path, inputs, outcome, digest, touched, gate>>

WriteFails(r) ==
    /\ pc[r] = "judge"
    /\ Created(r) \/ ~ Valid(r)
    /\ WriteFailed(r)
    /\ Goto(r, "done")
    /\ UNCHANGED <<root, space, path, inputs, digest, touched, gate>>

\* The process dies, and its report with it; what it wrote stays.
Crash(r) ==
    /\ pc[r] \notin {"done", "dead"}
    /\ Torn(r)
    /\ Goto(r, "dead")
    /\ inputs' = [inputs EXCEPT ![r] = NoInputs]
    /\ outcome' = [outcome EXCEPT ![r] = BaseOutcome]
    /\ digest' = [digest EXCEPT ![r] = NoDigest]
    /\ UNCHANGED <<root, path, touched, gate>>

Run(r) ==
    \/ Accept(r) \/ MakeWorkspace(r) \/ LoadRequest(r) \/ CheckSource(r)
    \/ AddWorktree(r) \/ CheckWorktree(r) \/ BuildPlan(r) \/ MaterializeDownstream(r)
    \/ ApplyPatch(r) \/ HashFiles(r) \/ HashDiff(r) \/ Recheck(r)
    \/ Fails(r) \/ WriteEvidence(r) \/ WriteNothing(r) \/ WriteFails(r)

-----------------------------------------------------------------------------
(* Gates and people                                                        *)

Reading(g, stage) == gate[g] # Null /\ gate[g].stage = stage
Read(g) == space[gate[g].at].tree

SetGate(g, check) ==
    /\ gate' = [gate EXCEPT ![g] = check]
    /\ UNCHANGED <<root, space, path, pc, inputs, outcome, digest, touched>>

Advance(g, stage, unread, tree) ==
    SetGate(g, Check(gate[g].evidence, gate[g].at, stage, unread, tree, gate[g].meanwhile))

\* The evidence and the tree are two arguments of a gate, which may be of two
\* workspaces.  Evidence is final once it is there, so reading it is no step
\* of its own.  CheckIdentity is without RequireClean.
CheckHead(g, w, v) ==
    /\ gate[g] = Null
    /\ space[w] # Null /\ space[w].evidence # Null
    /\ space[v] # Null /\ space[v].tree # Null
    /\ space[w].evidence.outcome.pass
    /\ space[v].tree.base = space[w].evidence.inputs.candidate
    /\ SetGate(g, Check(space[w].evidence, v, "diff", {}, Null, {}))

\* git diff; whether anything is staged is looked at as well, but no run stages,
\* nor does anybody here.
ReadDiff(g) ==
    /\ Reading(g, "diff")
    /\ DiffContent(Read(g)) = gate[g].evidence.digest.diff
    /\ Advance(g, "untracked", {}, Null)

\* git ls-files --others --exclude-standard, which leaves out what is ignored.
ListUntracked(g) ==
    /\ Reading(g, "untracked")
    /\ Read(g).foreign \ (InDiff \cup Ignored) \subseteq InFiles
    /\ Advance(g, "files", InFiles, Null)

\* One file of the evidence, and the edit of it that may be there.
ReadFile(g, e) ==
    /\ Reading(g, "files")
    /\ e \in gate[g].unread
    /\ e \in Read(g).foreign <=> e \in gate[g].evidence.digest.files.foreign
    /\ Advance(g, "files", gate[g].unread \ {e}, Null)

\* The rest of the listed files is what a run made of them.  A run only goes on
\* from file to file, so those found finished one after another are so together
\* at the end.
AcceptTree(g) ==
    /\ Reading(g, "files")
    /\ gate[g].unread = {}
    /\ LET t == Read(g)
           files == gate[g].evidence.digest.files
       IN  /\ t.downstream = files.downstream
           /\ t.applied = files.applied
           /\ t.partial = files.partial
           /\ Advance(g, "accepted", {}, t)

\* A check that fails, or a gate that dies: nothing was changed, and the gate
\* may be run again.
GiveUp(g) ==
    /\ gate[g] # Null /\ gate[g].stage # "accepted"
    /\ SetGate(g, Null)

CheckIntegration(g) ==
    \/ \E w, v \in Workspaces : CheckHead(g, w, v)
    \/ ReadDiff(g) \/ ListUntracked(g) \/ (\E e \in InFiles : ReadFile(g, e))
    \/ AcceptTree(g) \/ GiveUp(g)

SetForeign(w, foreign) ==
    LET t == space[w].tree
    IN  SetSpace(w, Space(space[w].owner,
                          Tree(t.base, t.downstream, t.applied, t.partial, foreign),
                          space[w].evidence))

Foreign ==
    {f \in Workspaces \X Edits :
        space[f[1]] # Null /\ space[f[1]].tree # Null /\ f[2] \in space[f[1]].tree.foreign}

\* What a gate makes of an edit: it matters while the gate reads that tree.
Noticed(g, w, e) ==
    LET k == gate[g]
    IN  IF k # Null /\ k.at = w /\ k.stage # "accepted"
        THEN Check(k.evidence, k.at, k.stage, k.unread, k.tree,
                   k.meanwhile \cup ({e} \ Ignored))
        ELSE k

EditTree(w, e) ==
    /\ space[w] # Null /\ space[w].tree # Null
    /\ Cardinality(Foreign \cup {<<w, e>>}) <= MaxForeign
    /\ SetForeign(w, space[w].tree.foreign \cup {e})
    /\ touched' = [r \in Runs |-> IF space[w].owner = r /\ pc[r] \in Integrating
                                  THEN touched[r] \cup ({e} \cap Evident) ELSE touched[r]]
    /\ gate' = [g \in Gates |-> Noticed(g, w, e)]
    /\ UNCHANGED <<root, path, pc, inputs, outcome, digest>>

RestoreTree(w, e) ==
    /\ space[w] # Null /\ space[w].tree # Null
    /\ SetForeign(w, space[w].tree.foreign \ {e})
    /\ UNCHANGED <<root, path, pc, inputs, outcome, digest, touched, gate>>

\* Somebody checks out another commit, leaves changes, or cleans up.
ChangeRoot ==
    /\ root' \in Optional(Commits)
    /\ UNCHANGED <<space, path, pc, inputs, outcome, digest, touched, gate>>

Next ==
    \/ \E r \in Runs : Run(r) \/ Crash(r)
    \/ \E g \in Gates : CheckIntegration(g)
    \/ \E w \in Workspaces, e \in Edits : EditTree(w, e) \/ RestoreTree(w, e)
    \/ ChangeRoot

Spec == Init /\ [][Next]_vars

-----------------------------------------------------------------------------
(* Properties                                                              *)

TypeOK ==
    /\ root \in Optional(Commits)
    /\ space \in [Workspaces -> Optional(Spaces)]
    /\ path \in [Runs -> Workspaces]
    /\ pc \in [Runs -> Stages]
    /\ inputs \in [Runs -> InputRecords]
    /\ outcome \in [Runs -> Outcomes]
    /\ digest \in [Runs -> Digests]
    /\ touched \in [Runs -> SUBSET Edits]
    /\ gate \in [Gates -> Optional(Checks)]

\* A tree that a gate accepts is at the candidate of the evidence and has the
\* downstream files and the whole series, in order, whichever workspace the
\* tree and the evidence came from and whatever failed, died or was edited
\* there.  An edit of people is in it only if it was made while the run of the
\* evidence was integrating, after the worktree was found clean, or while the
\* gate was reading, after it had passed that file; or else it is of a file
\* that .gitignore hides, of which the code certifies nothing
\* (docs/BUILD_POLICY_VERIFICATION.md:81-82, docs/PATCH_QUALIFICATION.md:24-25;
\* real_patch_qualify.py:31, 72-91, 114-140).
AcceptedTreeIsIntegrated ==
    \A g \in Gates : gate[g] # Null /\ gate[g].stage = "accepted" =>
        LET e == gate[g].evidence
            t == gate[g].tree
        IN  /\ t.base = e.inputs.candidate
            /\ t.downstream /\ t.applied = Series /\ ~ t.partial
            /\ t.foreign \ Ignored \subseteq touched[e.by] \cup gate[g].meanwhile

\* Evidence, of a PASS or a failure, lists exactly the patches that are in the
\* tree it is next to; a status of NOT_CREATED leaves at most an untouched
\* worktree of the candidate, and only a COMPLETE tree is whole for certain
\* (real_patch_qualify.py:114-143).
EvidenceDescribesTree ==
    \A w \in Workspaces : space[w] # Null /\ space[w].evidence # Null =>
        LET o == space[w].evidence.outcome
            t == space[w].tree
        IN  /\ o.applied = SubSeq(Series, 1, Len(o.applied))
            /\ t = Null => o.applied = <<>>
            /\ t # Null => /\ t.applied = o.applied
                           /\ t.base = space[w].evidence.inputs.candidate
                           /\ o.status = "NOT_CREATED" => ~ t.downstream
            /\ o.pass => t # Null /\ ~ t.partial /\ t.downstream

\* A run that made its workspace returns what its evidence.json says, and when
\* there is none its caller was told EVIDENCE_WRITE_FAILED; a run that did not
\* make it has no evidence there (real_patch_qualify.py:148-155).
ReturnMatchesDisk ==
    \A r \in Runs : pc[r] = "done" =>
        IF Created(r) /\ At(r).evidence = Null
        THEN outcome[r].class = "EVIDENCE_WRITE_FAILED" /\ ~ outcome[r].pass
        ELSE IF Created(r) THEN At(r).evidence = Document(r)
        ELSE ~ outcome[r].pass /\ \A w \in Workspaces :
                 space[w] # Null /\ space[w].evidence # Null => space[w].evidence.by # r

\* The workspaces with their evidence.json, as the abstract store of evidence:
\* a path belongs to the run that made the directory and what it publishes
\* there is final (real_patch_qualify.py:101-104, 149-152).
Store ==
    INSTANCE EvidenceStore WITH
        Writers <- Runs, Paths <- Workspaces,
        files <- [w \in Workspaces |->
                     IF space[w] = Null THEN Null
                     ELSE [by |-> space[w].owner, document |-> space[w].evidence]]

ImplementsEvidenceStore == Store!Spec
=============================================================================
