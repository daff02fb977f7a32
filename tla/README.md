# A verification development for Securium's tooling

Securium is, at this commit, a set of Python tools around a Chromium fork: they
detect new Stable revisions, apply the downstream patches to a disposable tree,
and collect evidence that a build obeys the policy. They run as short-lived
processes that share files: `state/upstream.json`, a workspace directory, GN
output directories, evidence files. Nothing is locked, processes die, people
edit the inputs. The modules here model those processes step by step; TLC checks
them on small instances, and TLAPS proves the main results for every instance.

## The system

| part | state it keeps | operations | with whom | what makes it correct |
| --- | --- | --- | --- | --- |
| candidate detector, `scripts/chromium_update.py` | `state/upstream.json`, one temporary file per writing process | fetch, read and compare, read again, write atomically, report | other detectors, the qualification and release authorities (not in the repository), editors of the file | the file stays valid; only the candidate changes; one request per new revision; the candidate is never older than what was recorded |
| synthetic patch engine, `scripts/patch_qualify.py` | the workspace: integration tree, `repair-bundle.json`, `evidence.json` | preflight, copy, materialize, check and apply each patch, write evidence | other runs with the same workspace, editors of the inputs, git | one run owns a workspace; PASS only over a whole tree; the bundle names the right patch; evidence and return value agree |
| real adapter, `scripts/real_patch_qualify.py` | the workspace: a git worktree, `evidence.json` | identity checks, worktree, the engine's stages, digests of the result; `CheckIntegration` for later gates | the engine, git, both gates, people who change the root or the worktree | what a gate accepts is a whole integration of the evidence's candidate; evidence, tree and return value agree |
| build-policy collector, `scripts/verify_build_policy.py` | its evidence file, `out/<name>/args.gn` | check the integration, prepare the output, `gn gen`, `gn args`, check again | other collectors, the Foundation 1B gate, GN | evidence is write-once; success is about the integrated content and the reported arguments |
| Foundation 1B gate, `scripts/verify_foundation_1b.py` | its evidence file, two companion files | read the build evidence, compare it with the repository, ask GN, check the integration, decide | collectors, GN | a PASS stands on one successful collection of the same content |
| network service policy, `scripts/network_policy.py` | none; the documents it compares are kept by reviewers | validate documents, compare inventories and observations | the build policy, which takes the approved services | a comparison that passes means that the traffic was permitted; no review, adoption or further traffic hides a deviation |
| build policy, `scripts/build_policy.py` | none | validate the manifest | collector and gate | an argument that matches an accepted manifest has the expected value and type |
| repository validator, `scripts/validate_repo.py` | none | validate the series, the policies, the layout | all | agrees with the readers of the same files |

`PROJECT.json` repeats the list with what is modelled of each, and the hazards of
the code with the properties that catch them.

The hard parts are the same everywhere: a file is read, judged, and read again
or replaced later; several processes are given one path; a stage fails after
others have left something on disk; a process dies between creating a file and
filling it.

## Modules

| module | models | kind |
| --- | --- | --- |
| `CandidateRules` | versions, documents, `ValidateProjectState`, `CompareCandidate`, the request | pure operators |
| `UpstreamState` | what detection promises about the file: one atomic step | abstract specification |
| `CandidateDetector` | `Main`, `ExecuteCheck`, `UpdateCandidateState`, `AtomicWriteJson` of any number of processes | detailed specification |
| `PatchEngine` | `RunQualification` of any number of runs with one workspace | detailed specification |
| `RealAdapter` | `Run` and `CheckIntegration` of the real adapter, any number of runs and workspaces | detailed specification |
| `EvidenceStore` | write-once evidence files, implemented by the gates, the real adapter and (for each of its two documents) the engine | abstract specification |
| `BuildGates` | `Main` and `Collect` of both gates, `PrepareOutput`, `CheckIntegration` | detailed specification |
| `NetworkPolicy` | `ValidatePolicyDocument`, `ComparePolicyEvidence` and all they call | pure operators |
| `NetworkComparison` | the documents compared, as reviewers, upstream and captures change them | specification |
| `PatchSeries` | `ValidatePatches` of the validator, `ReadPatchSeries` of the engine | pure operators |
| `BuildPolicy` | `LoadManifest`, `BuildArguments`, `CompareArguments` | pure operators |
| `Repository` | edits of the series, the policy and `src/chromium`; `BuildMaterializationPlan` and `MaterializeDownstream` | specification |
| `MC...` | values of the constants for TLC | |
| `...Proofs` | theorems and their proofs | |

### CandidateDetector

`file` is the document (or `Malformed`), `poll[d]` the local variables of one
process, `pc[d]` the next of its steps, `temp[d]` the temporary file it has the
name of, and `temps` the temporary files that are in the directory. There is
one action per step between which another process can act: `Fetch` (`Main`
reads the response), `Load` (`ExecuteCheck` reads the state and compares),
`Reread` (`UpdateCandidateState` reads again and refuses a changed state),
`OpenTemp`, `FlushTemp`, `Replace` (`AtomicWriteJson`), `WriteFails`, `Cleanup`
and `UnlinkFails` (its error path: the unlink is made, or fails as well),
`Report`, and `Crash`. A file is only in `temps` because it was opened and
leaves it only by the rename or the unlink, so one that any path forgets stays
there (`TempsAreRemoved`). `Qualify`, `Release` and
`Damage` are the outside writers, taken from `state/README.md`. A revision is a
version and a SHA; versions are compared by `Rank`, since `ParseVersion` ignores
leading zeros while documents keep the text. `granted` is a history variable:
the revisions recorded as NEW_CANDIDATE.

`Spec` lets everything interleave. `SerialSpec` restricts it to behaviours
where, between one process's second read and its `os.replace`, nobody else
reads that far or writes the file. The code does **not** enforce this: it is
what a deployment must arrange (one scheduled detector), and `detector_race`
shows what happens otherwise.

### PatchEngine

`workspace` is the directory all runs were given: its owner, the tree, the two
documents. `pc[r]` is the stage of `RunQualification`, `inputs[r]` and
`outcome[r]` the two halves of `Evidence`, `created[r]` is `WorkspaceCreated`.
An input is its version, which every edit increases; a recorded hash is the
version read when it was taken, and the tree holds the version read when it was
used. Every stage may fail with the classes the code raises there, `git apply`
may fail after `--check` succeeded and leave a torn tree, and a run may be killed
at any stage. The copying of many files is one step that ends with one version of
the source; a copy cut short leaves a partial tree.

### BuildGates

`files` are the evidence paths: who created the file, and the report once it is
written. `outputs` are the `out/<name>` directories with their `args.gn`.
`report[g]` is `Report`, `build[f]` the build evidence a finisher has read.
Contents are versions, 0 being the one that PATCH-APPLY recorded. `seen[g]` and
`restored` are ghosts: what GN read for a gate, and whether an edited tree was
ever put back. `ArgsOf` gives the arguments each manifest asks for, and `Wider`
the pairs where `CompareArguments`, which looks only at the arguments a manifest
names, cannot tell the difference.

The PATCH-APPLY evidence is a constant here: one successful integration that is
never rewritten, which is what `RealAdapter` shows of it
(`ImplementsEvidenceStore`, `AcceptedTreeIsIntegrated`). The collector's mode
without `--patch-evidence` is left out.

### RealAdapter

`space` is what is at each workspace path: the run that made the directory, the
worktree, the evidence. `root` is the commit of the Chromium root, `Null` while it
is not clean. `pc[r]` is the stage of `Run`; `inputs[r]`, `outcome[r]` and
`digest[r]` are the parts of `Report`. Any stage may fail, tear what it was
writing, or be the last of a killed process.

`gate[g]` is an invocation of `CheckIntegration`: the evidence and the workspace
it was given, and what it has read of the tree. It reads in the order of the
code, one action each: the commit (`CheckHead`), the diff (`ReadDiff`), the list
of untracked files (`ListUntracked`), the files of the evidence one by one
(`ReadFile`, and `AcceptTree` when none is left); a check that fails is `GiveUp`.
What the run itself wrote to the listed files is compared in `AcceptTree`: it
only ever becomes more complete, so reading it file by file finds nothing else.

People change the root at any time and edit the worktrees, also while a run is
integrating and while a gate is reading. An edit is of one file and is told by
what sees that file: the digests of the listed files (`InFiles`), the diff
(`InDiff`), both, the list of untracked files alone, or, when `.gitignore` hides
the file (`Ignored`), neither `git status` nor `git ls-files --others
--exclude-standard`, so that nothing sees it unless the evidence lists it. Two ghosts record
edits: `touched` those of listed or tracked files while the run was integrating,
`meanwhile` those made while the gate was reading.

Four things follow that the code's readers should know. A gate takes evidence
and tree as two arguments, so it may accept the worktree of another run, even of
one that failed, if that tree is a whole integration of the same candidate. The
worktree is not looked at again once it was found clean: an edit made before
both digests is in them, and gates accept the edited tree; one made between the
two digests gives a PASS whose tree no gate may accept. What a gate accepts was
not there at one moment: a file edited after it was read is accepted with the
rest. And edits of ignored files, whenever they were made, are accepted: the
documents say that dependency content is not certified
(`docs/BUILD_POLICY_VERIFICATION.md:81-82`, `docs/PATCH_QUALIFICATION.md:24-25`,
`docs/CHROMIUM_154_QUALIFICATION.md:96-97`). `AcceptedTreeIsIntegrated` allows
these and no other edit.

### NetworkPolicy and NetworkComparison

A document with unique sorted identifiers is a function from the identifiers.
The script keeps no state: its answer at any moment is `Result`, computed from
`policy`, `previous`, `current` and `observations`. The steps are those of the people
around it: `Review` writes or removes a service, rightly or wrongly, `Deny` denies
one, `Change` is upstream's change of a capability, `Adopt` makes the current
inventory the previous one, `Connect` and `Circumstances` are another capture of a
scenario. The operators keep every rule of the validator and of the comparison;
wording, order of the report and the syntax of identifiers are left out.

Three behaviours the properties had to make room for: a connection of the class
USER_REQUESTED_WEB leaves the comparison before its service is looked at
(line 768), so it may name a denied service; the validator accepts a denied or
replaced service with a scenario that says MUST_OBSERVE, a policy no traffic can
satisfy; and denying a service removes the issue that its condition was not
satisfied, but always leaves another.

### PatchSeries, BuildPolicy and Repository

`Repository` starts from a good series, the policy's baseline and no downstream
files; maintainers edit them. At any moment the scripts' verdicts are the operators of
`PatchSeries` and `BuildPolicy`. When the engine takes the repository, it makes
the plan (`BuildMaterializationPlan`) and copies file by file (`MaterializeFile`,
`MaterializeFails`) into a workspace whose `fileSystem` calls equal what it does: a
function on segments that folds no more than `str.casefold`. The source is a tree
whose paths that file system tells apart. A patch is what the two readers can
find wrong with it; a value is a JSON scalar with its type, and `PythonPairs`
are the values Python calls equal although their types differ.

What the properties had to make room for: the validator does not look whether a
listed patch is a link or a directory, and the engine ignores a directory named like
an unlisted patch; a downstream file with the name, but for case, of a directory
other downstream files are in passes the plan and fails in the middle of the
copy; and a credential-like setting may expect 0, since Python's `in (False, "")`
takes it for False.

## Runs

| run | instance | shows |
| --- | --- | --- |
| `detector_serial` | `SerialSpec`, 2 detectors, 2 revisions, 2 times, 1 fault, 3 outside writes | polling implements `UpstreamState`; outside records are preserved; the candidate is the newest revision; a waiting candidate keeps its `detected_at` |
| `detector_flip` | `SerialSpec`, 3 revisions with two SHAs of one rank and one SHA under two versions | a second request for a revision needs another revision of its rank in between |
| `detector_concurrent` | `FairSpec`, everything interleaves; 1 fault, 2 outside writes | the file stays valid; a temporary file is abandoned only by a process that dies or whose unlink fails; polls end; a recorded candidate is requested; a settled revision is decided |
| `detector_race` (violation) | `Spec`, everything interleaves | a detector can overwrite the record of an authority that wrote between the second read and `os.replace` |
| `detector_time` (violation) | one detector | an unchanged poll can refresh `detected_at` |
| `engine` | `FairSpec`, 2 runs, a series of 2 patches, 1 edit of each input | the workspace's safety properties; a workspace gets evidence, or its caller an error |
| `engine_inputs` (violation) | edits of the inputs | a PASS may declare contents that are not in the tree |
| `gates` | 2 collectors, 1 finisher, 3 paths, 1 output, 2 manifests | `BuildGates` implements `EvidenceStore`; successes are about the integrated content and the reported arguments |
| `gates_failed_build` (violation) | 1 collector, 1 finisher | Foundation 1B passes on the evidence of a failed collector |
| `adapter` | 2 runs, 2 workspace paths, 1 gate, 2 candidates, 2 patches of which one changes tracked files, 1 edit at a time, of a listed, an unlisted or an ignored file | a tree a gate accepts, reading it piece by piece, is integrated but for ignored files; evidence, tree and return value agree; `RealAdapter` implements `EvidenceStore` |
| `network` | 2 services, one with 11 possible records of which 3 are invalid, 1 capture of 2 connections, 1 capability with 2 sources | what a passed comparison means, and which changes may clear an issue |
| `repository` | 2 edits of anything, 3 source trees, a file system that folds case and one that does not, paths of up to 2 segments, 8 values of 3 types | the two readers of the series agree; an accepted plan can be carried out; an accepted policy means what it says |

Bounds. Two processes suffice for each race, as every race here is between one
process and another, or one and an outside writer; the third path in `gates`
lets all three gates have evidence at once. Two patches let one fail after
another was applied. Versions, edits, faults and outside writes are bounded by
`MaxEdits` and `MaxFaults`: three outside writes qualify, release and damage;
one fault is enough to leave a temporary file, as the unlink that fails after
a failed write is not counted again. The names of temporary files
(`TempNumbers`) are at least one more for each process than the faults: it
holds one at a time and a fault abandons at most one, so a fresh name is
always left. In `adapter` two commits let evidence and tree be of different
candidates, and `MaxForeign` allows one edit in the worktrees at a time, which
may be taken back and another made; edits that the diff sees, and several at a
time, are covered by the proofs, where `Edits`, `InFiles`, `InDiff` and
`Ignored` are arbitrary but for no tracked file being ignored. In `repository`
two edits make a downstream file and a directory of its name, and change a
setting twice; in `network` one reviewed service is enough, as an issue is
about one service, and the second lets traffic of another meet an expectation;
with one capture, that a connection is permitted by the circumstances of its
own capture and not of another is left to the proof. Symmetry is used only in
runs without liveness. Deadlock is not checked: all processes may have ended,
or be gone.

Fairness. A process that runs keeps running (`WF` of its own steps), which is
what an operating system gives. Nothing makes anybody start a poll or a run,
nothing makes an authority act, and no fault is forced or forbidden. So
`SettledRevisionIsDecided` assumes in its own statement that polls which may
write keep coming.

What the violations say:

- `detector_race`: `state/README.md` says the detector cannot update the
  qualified and released records; the replacement writes the whole document of
  the second read, so it restores what an authority replaced in between.
- `detector_time`: `docs/CANDIDATE_DETECTION.md` says `detected_at` is never
  refreshed by an unchanged poll; when the candidate is also the qualified
  revision, a poll records it again with a new time.
- `engine_inputs`: contents are read again after they were hashed.
- `gates_failed_build`: `gn_configuration` becomes MATCH before the tree is
  checked again, and only that field is looked at by the next gate.

## Proofs

`CandidateDetectorProofs` proves, for any set of detectors, revisions and times:

- `TypeCorrect`: an invariant (`PollInv`) that adds to `TypeOK` what a process
  knows at each step, such as that a process past `Reread` holds a valid
  document and that its decision is the comparison with that document.
- `TempsAreRenamedOrRemoved`, of `Spec`: a temporary file that no process holds
  any more was abandoned by one that died with it or whose unlink failed
  (`TempsAreRemoved`). The proof looks at `Held` and `temps` for every step of
  every process: the other ways out of a write go through `Cleanup` or `Replace`,
  which take their own file out of the directory and no other.
- `FileStaysValid`, of `Spec`: the proposal built from a valid document and an
  acceptable revision is valid (`ProposalAccepted`), so no interleaving of
  detectors can write an invalid one.
- `DetectorPreservesAuthority`, of `SerialSpec`: `SerialInv` adds that a process
  in its window holds the document the file still has.
- `PollingImplementsUpstreamState`, under `WritePollsOnly` (every poll may write):
  `Replace` is `Record`, `Report` is `Request`, the outside writers are
  themselves and every other step stutters. A poll that may not write reports
  NEW_CANDIDATE without recording it, which is why the assumption is needed.
- `CandidateStaysNewest`, under the same assumption, by an invariant about the
  abstract state and the requests that are still under way.
- `WaitingTimeIsKept`, of `SerialSpec`: a process about to replace the file holds
  the document that is there, so replacing a revision by itself means that
  `CompareCandidate` found it among the accepted records.
- `DispatchedOnceWithoutFlip`, of `SerialSpec` under `WritePollsOnly`. `OnceInv`
  adds to the invariant of `CandidateStaysNewest` that whatever was recorded was granted,
  and that the request for a revision which has no twin of its rank is still to
  come in one process, or was made, and never both.
- `RacesInventNothing`, of `Spec`: although a race may put back an old document, a
  qualified or released record never names a revision that no detector
  requested. The invariant (`AcceptedWereRequested`) says it of the file, of
  every document a poll holds and of what every request says was there before.
  It rests on the authorities qualifying only what was requested, which is how
  the model has them, and so bounds what the race of `detector_race` can do: it
  can revive an older decision, not make one.
- `NoRequestIsLost`, of `Spec`, under `JsonPollsOnly`: until a fault, the recorded
  candidate's request was made, or a running process is at `Report` with it. A
  poll in human mode prints no request, hence the assumption. This is the safety
  half of `RecordedIsRequested`; the other half is that the process gets to run.

`PatchEngineProofs` proves the seven invariants of the run `engine`, for any series
and any number of runs. All but one follow from the inductive invariant `EngineInv`:
the run that made the workspace is its owner (`Owned`); what preflight has learnt
at each stage (`Learnt`); tree and record agree at each stage of building, the
applied patches being a prefix of the series (`Built`); what is about to be
written is valid and agrees with the tree (`Reported`); and what was written
still does (`Kept`). `EvidenceIsAccurate` needs `FitInv`, which follows the tree
through the failures as well: a copy that is cut short leaves the remainder
`Unfinished` under a record that still says NOT_CREATED, and a torn
patch leaves a tree whose listed patches are the prefix before it. The
assumptions are those of the modules: the series is a sequence of distinct
patches, and `Null` is none of the values. Three more theorems:

- `EngineImplementsEvidenceStore`: `evidence.json` and `repair-bundle.json` are each
  an `EvidenceStore` of one path, the directory's maker being the claimant. No
  run writes either twice, or into a workspace of another.
- `FinishedWorkspaceIsFinal`: once there is evidence, no step of any run
  changes tree, bundle or evidence.
- `PassOfInputsAtRest`: `PassUsesDeclaredInputs`, which `engine_inputs` violates,
  holds of `RestSpec`, that is, if no input is edited while some run is between
  its first hash and its last use of one. The code does not see to that; the
  theorem says that nothing else is needed, and that edits before or after
  that window do no harm.

`EvidenceStoreProofs` proves of the abstract store that a claimed path keeps its
claimant and a published document is never changed (`EvidenceIsFinal`).
`ReportsAreFinal` of the gates and `AdapterEvidenceIsFinal` of the real adapter are
that theorem, carried over by the refinements.

`BuildGatesProofs` proves all six properties of the run `gates`, for any number of
collectors, finishers, paths, outputs and manifests and whatever `Wider` is, from
two inductive invariants:

- `GateInv` says of a gate under way that the file at its path is its own and
  still empty (`Holding`); of a collector, from `gen` on, that its output has the
  arguments it reports (`CollectorInv`); of a finisher, that the build report it
  examined is still where it was read (`FinisherInv`); that two collectors never
  prepare one output at a time (`MakersDiffer`); and that every published report
  with `gn` MATCH speaks of an output that has its arguments (`PublishedSound`).
  The last is what carries the collector's knowledge over to the finisher. A
  step of one gate is shown to leave the others' part alone once (`OthersKept`),
  so each action is looked at only for the gate that takes it.
- `TreeInv` says that, unless somebody put an edited tree back, a tree that is
  as integrated always was, and that GN has read it for whoever checks it a
  second time (`GnReadTheIntegration`).

`GatesImplementEvidenceStore` maps `Open` to `Claim`, `Write` to `Publish` and
every other step to a stutter. The assumptions are those of the module: a gate
is a collector or a finisher, manifests have arguments, and `Null` is none of
the values.

`RealAdapterProofs` proves the five properties of the run `adapter`, for any runs,
workspaces, gates, commits, series and edits, from the inductive invariant
`AdapterInv`, which says of each run (`RunInv`): the tree in a workspace holds
what its owner's stage says (`Holds`), what was recorded agrees with it
(`Recorded`), the digests are of that tree up to edits made while integrating
(`Digested`), and a run past `mkdir` owns its workspace, whose evidence is its
record (`Owned`). Of a gate (`GateInv`) it says that its evidence is of a whole
integration (`Sound`), that the tree it reads is still there at the candidate
(`ReadsWell`), and that of the edits now in that tree those in the part already
read are in `touched` or `meanwhile` (`Seen`). That steps of runs keep the last is
why they are shown to leave the commit and the edits of every tree alone
(`TreesKept`). `AdapterImplementsEvidenceStore` maps
`MakeWorkspace` to `Claim`, `WriteEvidence` to `Publish` and every other step to a
stutter. `AdapterEvidenceIsFinal` follows from it, whatever is done to the worktree
beside the evidence. It assumes that `Null` is none of the values.

`NetworkComparisonProofs` proves the seven properties of the run `network`, for any
documents of the required form. The two about a passed comparison follow from
the rules of the validator and the comparison together; the five others are about
two states, and rest on lemmas that say on which documents each group of
issues depends.

`RepositoryProofs` proves the three properties of the run `repository`. The first
and the last need only that edits keep the form of what they edit (`Typed`);
`PlanSuffices` rests on `RepositoryInv`: what was copied has no file named as a
directory of another, and the lemma `ApartFromSource`: paths whose keys differ
from those of the source have names that differ too, in any file system that
folds no more than `str.casefold` (`RepositoryAssumption`).

Model-checked only: the four liveness properties, `EveryPollEnds`,
`RecordedIsRequested` and `SettledRevisionIsDecided` of the detector and
`WorkspaceGetsAnswer` of the engine. They rest on fairness, and with it on ENABLED,
which is out of the prover's reach. The properties of the four runs that expect a
violation are false of the specification they are checked under;
`AuthorityPreserved` and `PassUsesDeclaredInputs` are proved of the stronger
`SerialSpec` and `RestSpec`.

## Not modelled

- What makes one path segment, patch line, JSON field, hunk or GN scalar
  acceptable: these are local rules with unit tests; they appear as constants
  (`Unsafe`, `Contents`, `Secrets`, `Readable`), or a stage fails.
- Of the validator: the list of required files (which makes it refuse a
  repository without `patches/series`) and the fields that the state documents
  and schemas must have. Of the build policy: the constant parts of the manifest.
- The content of files that `.gitignore` hides, of which no tool here certifies
  anything: in `RealAdapter` their edits are a class of their own that the
  property names, and in `BuildGates` the content GN reads is that which
  `CheckIntegration` digests. What is ignored does not change, and nobody stages
  changes in a worktree, which the code checks at one of its reads only.
- In `BuildGates` a call of `CheckIntegration` is one step; its reads are those of
  `RealAdapter`. Nobody but collectors writes `args.gn` there.
- Within a run the listed files are hashed in one step; edits at that time are
  among those the property allows.
- A SHA that upstream moves to another version is another revision to the
  detector's model, so that dispatching it again is allowed and not caught. What
  a crash leaves behind, a workspace without evidence or an output without
  `args.gn`, blocks its path for ever: the properties allow that too.
- Liveness of the real adapter, which has the same structure as the engine's.
- Edits of the patches and downstream files while an adapter reads them: they
  are the subject of `engine_inputs`, and the real adapter uses the same code.
- A source tree with paths that differ in case only, copied into a workspace that
  folds case: one file would silently replace the other.
- The durability of a rename: `AtomicWriteJson` does not sync the directory.
- A process that dies between `os.replace` and its report has recorded a
  candidate for which nobody makes a request; the model has the behaviour
  (`RecordedIsRequested` excepts faults). A poll in human mode records a
  candidate without printing its request; `detector_concurrent` has JSON polls only.
- A copy that fails leaves a partial tree while the evidence says NOT_CREATED
  (`EvidenceDescribesTree` allows that remainder and nothing more); a bundle stays
  on disk when the evidence after it cannot be written. Both are in the model;
  no document says otherwise.
- Documents, schemas, workflows and the placeholder directories.

## Plan

The components are modelled. What could be added:

1. A composition of adapter and gates with the PATCH-APPLY evidence a variable,
   instead of the abstract store that stands between them now.
2. Lemmas about `CompareCandidate` (its decisions exclude one another), and what
   serial windows are needed for, action by action.
3. The state documents' checks of the validator, if they grow rules of their own.
