----------------------------- MODULE BuildGates -----------------------------
(***************************************************************************)
(* The two gates that follow PATCH-APPLY.  Collectors run                  *)
(* scripts/verify_build_policy.py, which generates a GN output from the    *)
(* integration tree and compares its arguments with the build policy;      *)
(* finishers run scripts/verify_foundation_1b.py, which takes a            *)
(* collector's evidence and decides the gate.  All are given the evidence  *)
(* of one successful PATCH-APPLY, run concurrently, and are joined by      *)
(* people who edit the integration tree, the policy and the patch series.  *)
(*                                                                         *)
(* A content is its version, 0 being the one the PATCH-APPLY evidence      *)
(* records, and stands for its digest.  The host, git and GN may refuse at *)
(* any step.                                                               *)
(***************************************************************************)
EXTENDS Naturals

CONSTANTS
    Collectors, Finishers,
    Paths,      \* names for evidence files
    Outputs,    \* out/<name>
    Args,       \* contents of args.gn
    ArgsOf,     \* BuildArguments of each version of the manifest
    Wider,      \* pairs of Args: the first sets all that the second sets
    MaxEdits,   \* bound: versions of the tree, the manifest and the series
    Null

Gates == Collectors \cup Finishers
Versions == 0..MaxEdits
Recorded == 0

ASSUME GatesAssumption ==
    /\ MaxEdits \in Nat
    /\ Collectors \cap Finishers = {}
    /\ ArgsOf \in [Versions -> Args]
    /\ Wider \subseteq Args \X Args
    /\ Null \notin Versions \cup Paths \cup Outputs \cup Args \cup Gates

VARIABLES
    tree,       \* the content of the integration tree
    restored,   \* ghost: an edited tree was once put back
    manifest,   \* policy/build-policy.json
    series,     \* patches/series and the patches
    outputs,    \* each output: Null, or its args.gn, None while there is none
    files,      \* each evidence path: Null, or who created it and the report
    pc,
    path,       \* the evidence path each gate has opened
    target,     \* the output a collector was given
    build,      \* the build evidence a finisher has read, and where
    report,     \* Report of each gate
    seen        \* ghost: the contents and the arguments GN has read for each

vars == <<tree, restored, manifest, series, outputs, files, pc, path, target, build,
          report, seen>>

-----------------------------------------------------------------------------
(* State                                                                   *)

Optional(S) == S \cup {Null}

Checking == {"evidence", "inputs", "check", "canonical", "policy", "output"}
Generating == {"prepare", "args", "gen", "list", "graph", "recheck"}
Stages == {"open"} \cup Checking \cup Generating
              \cup {"conclude", "companions", "write", "done", "dead"}

BuildReports ==
    [status : {"FAIL", "INCOMPLETE"}, gn : {"NOT_RUN", "FAIL", "MATCH"},
     manifest : Optional(Versions), output : Optional(Outputs), args : Optional(Args)]

FinalReports ==
    [status : {"FAIL", "PASS"}, build : Optional(BuildReports), failure : BOOLEAN]

Reports == BuildReports \cup FinalReports

BuildReport(status, gn, m, o, args) ==
    [status |-> status, gn |-> gn, manifest |-> m, output |-> o, args |-> args]
FinalReport(status, b, failure) == [status |-> status, build |-> b, failure |-> failure]
FirstReport(g) ==
    IF g \in Collectors THEN BuildReport("FAIL", "NOT_RUN", Null, Null, Null)
                        ELSE FinalReport("FAIL", Null, FALSE)

File(g, document) == [by |-> g, document |-> document]
Output(args) == [args |-> args]
Seen(trees, args) == [trees |-> trees, args |-> args]

\* An output with its args.gn, an evidence file, a build report that was read.
OutputStates == [args : Optional(Args)]
EvidenceFiles == [by : Gates, document : Optional(Reports)]
Readings == [path : Paths, report : BuildReports]

ASSUME NullAssumption ==
    /\ Null \notin Reports /\ Null \notin OutputStates
    /\ Null \notin EvidenceFiles /\ Null \notin Readings

TypeOK ==
    /\ tree \in Versions /\ manifest \in Versions /\ series \in Versions
    /\ restored \in BOOLEAN
    /\ outputs \in [Outputs -> Optional(OutputStates)]
    /\ files \in [Paths -> Optional(EvidenceFiles)]
    /\ pc \in [Gates -> Stages]
    /\ path \in [Gates -> Optional(Paths)]
    /\ target \in [Collectors -> Optional(Outputs)]
    /\ build \in [Finishers -> Optional(Readings)]
    /\ report \in [Gates -> Reports]
    /\ seen \in [Gates -> [trees : SUBSET Versions, args : SUBSET Args]]

Init ==
    /\ tree = Recorded /\ manifest = 0 /\ series = Recorded
    /\ restored = FALSE
    /\ outputs = [o \in Outputs |-> Null]
    /\ files = [p \in Paths |-> Null]
    /\ pc = [g \in Gates |-> "open"]
    /\ path = [g \in Gates |-> Null]
    /\ target = [c \in Collectors |-> Null]
    /\ build = [f \in Finishers |-> Null]
    /\ report = [g \in Gates |-> FirstReport(g)]
    /\ seen = [g \in Gates |-> Seen({}, {})]

inputs == <<tree, restored, manifest, series>>

Step(g, from, to) ==
    /\ pc[g] = from
    /\ pc' = [pc EXCEPT ![g] = to]
    /\ UNCHANGED inputs

-----------------------------------------------------------------------------
(* Both gates                                                              *)

Opened(g, p) ==
    /\ Step(g, "open", IF g \in Collectors THEN "inputs" ELSE "evidence")
    /\ files' = [files EXCEPT ![p] = File(g, Null)]
    /\ path' = [path EXCEPT ![g] = p]
    /\ UNCHANGED <<outputs, target, build, report, seen>>

\* Mutated form: the evidence file is opened with mode "w".
OpenOver(g, p) == Opened(g, p)

\* The evidence file is opened with mode "x", before anything else.
Open(g, p) == files[p] = Null /\ Opened(g, p)

\* It exists, or cannot be made.
OpenFails(g) ==
    /\ Step(g, "open", "done")
    /\ UNCHANGED <<outputs, files, path, target, build, report, seen>>

\* CheckIntegration, which compares the tree with the PATCH-APPLY evidence.
FirstCheck(g) ==
    /\ Step(g, "check", IF g \in Collectors THEN "prepare" ELSE "list")
    /\ tree = Recorded
    /\ UNCHANGED <<outputs, files, path, target, build, report, seen>>

\* Whatever a gate finds wrong; what it has reported so far stands.
Fails(g) ==
    /\ \E stage \in Checking \cup Generating \cup {"conclude"} : Step(g, stage, "write")
    /\ report' = IF g \in Collectors THEN report
                 ELSE [report EXCEPT ![g] = FinalReport("FAIL", Null, TRUE)]
    /\ UNCHANGED <<outputs, files, path, target, build, seen>>

Write(g) ==
    /\ Step(g, "write", "done")
    /\ files' = [files EXCEPT ![path[g]] = File(g, report[g])]
    /\ UNCHANGED <<outputs, path, target, build, report, seen>>

\* The gate is killed, or stopped by an exception its Main does not catch; the
\* file it has opened stays empty, or cut short.
Crash(g) ==
    /\ \E stage \in Stages \ {"done", "dead"} : Step(g, stage, "dead")
    /\ UNCHANGED <<outputs, files, path, target, build, report, seen>>

\* GN reads the tree, and the args.gn of output o.
GnReads(g, o) ==
    seen' = [seen EXCEPT ![g] =
                 Seen(seen[g].trees \cup {tree}, seen[g].args \cup {outputs[o].args})]

\* CompareArguments may find every argument as the policy wants it.  It looks
\* at the arguments the policy names and at no others.
MayMatch(args, m) == args = ArgsOf[m] \/ <<args, ArgsOf[m]>> \in Wider

-----------------------------------------------------------------------------
(* Collectors                                                              *)

LoadInputs(c) ==
    /\ Step(c, "inputs", "check")
    /\ report' = [report EXCEPT ![c] = BuildReport("FAIL", "NOT_RUN", manifest, Null, Null)]
    /\ UNCHANGED <<outputs, files, path, target, build, seen>>

Prepared(c, o) ==
    LET m == report[c].manifest
    IN  report' = [report EXCEPT ![c] = BuildReport("FAIL", "FAIL", m, o, ArgsOf[m])]

\* Mutated form: --reuse-output takes any output that has an args.gn.
ReuseAnyOutput(c, o) ==
    /\ Step(c, "prepare", "gen")
    /\ outputs[o] # Null /\ outputs[o].args # Null
    /\ Prepared(c, o)
    /\ target' = [target EXCEPT ![c] = o]
    /\ UNCHANGED <<outputs, files, path, build, seen>>

\* --reuse-output: the args.gn there must be the one this run would write.
ReuseOutput(c, o) ==
    /\ Step(c, "prepare", "gen")
    /\ outputs[o] = Output(ArgsOf[report[c].manifest])
    /\ Prepared(c, o)
    /\ target' = [target EXCEPT ![c] = o]
    /\ UNCHANGED <<outputs, files, path, build, seen>>

\* Mutated form: mkdir(exist_ok=True).
MakeOutputExistOk(c, o) ==
    /\ Step(c, "prepare", "args")
    /\ outputs' = IF outputs[o] = Null THEN [outputs EXCEPT ![o] = Output(Null)] ELSE outputs
    /\ target' = [target EXCEPT ![c] = o]
    /\ UNCHANGED <<files, path, build, report, seen>>

\* The output must be new; mkdir refuses it too when two runs found it so.
MakeOutput(c, o) ==
    /\ Step(c, "prepare", "args")
    /\ outputs[o] = Null
    /\ outputs' = [outputs EXCEPT ![o] = Output(Null)]
    /\ target' = [target EXCEPT ![c] = o]
    /\ UNCHANGED <<files, path, build, report, seen>>

WriteArgs(c) ==
    /\ Step(c, "args", "gen")
    /\ outputs' = [outputs EXCEPT ![target[c]] = Output(ArgsOf[report[c].manifest])]
    /\ Prepared(c, target[c])
    /\ UNCHANGED <<files, path, target, build, seen>>

\* Mutated form: the two verdicts are stored in each other's field.
JudgedSwapped(c, status, gn) ==
    LET b == report[c] IN BuildReport(gn, status, b.manifest, b.output, b.args)

Judged(c, status, gn) ==
    LET b == report[c] IN BuildReport(status, gn, b.manifest, b.output, b.args)

\* gn gen.
Generate(c) ==
    /\ Step(c, "gen", "list")
    /\ GnReads(c, target[c])
    /\ UNCHANGED <<outputs, files, path, target, build, report>>

\* gn args --list, and CompareArguments.
ListArguments(c) ==
    /\ Step(c, "list", "recheck")
    /\ GnReads(c, target[c])
    /\ \/ UNCHANGED report
       \/ /\ MayMatch(outputs[target[c]].args, report[c].manifest)
          /\ report' = [report EXCEPT ![c] = Judged(c, "FAIL", "MATCH")]
    /\ UNCHANGED <<outputs, files, path, target, build>>

\* Mutated form: the tree is not checked again.
CollectUnchecked(c) ==
    /\ Step(c, "recheck", "write")
    /\ report[c].gn = "MATCH"
    /\ report' = [report EXCEPT ![c] = Judged(c, "INCOMPLETE", "MATCH")]
    /\ UNCHANGED <<outputs, files, path, target, build, seen>>

\* CheckIntegration again; INCOMPLETE is the best a collector can say.
Collect(c) ==
    /\ Step(c, "recheck", "write")
    /\ tree = Recorded
    /\ report[c].gn = "MATCH"
    /\ report' = [report EXCEPT ![c] = Judged(c, "INCOMPLETE", "MATCH")]
    /\ UNCHANGED <<outputs, files, path, target, build, seen>>

-----------------------------------------------------------------------------
(* Finishers                                                               *)

\* Mutated form: a GN configuration that did not match will do.
ReadAnyEvidence(f, p) ==
    /\ Step(f, "evidence", "canonical")
    /\ files[p] # Null /\ files[p].document \in BuildReports
    /\ files[p].document.gn # "NOT_RUN"
    /\ build' = [build EXCEPT ![f] = [path |-> p, report |-> files[p].document]]
    /\ UNCHANGED <<outputs, files, path, target, report, seen>>

\* The build evidence at p: a whole report, whose GN configuration matched.
ReadBuildEvidence(f, p) ==
    /\ Step(f, "evidence", "canonical")
    /\ files[p] # Null /\ files[p].document \in BuildReports
    /\ files[p].document.gn = "MATCH"
    /\ build' = [build EXCEPT ![f] = [path |-> p, report |-> files[p].document]]
    /\ UNCHANGED <<outputs, files, path, target, report, seen>>

\* The repository's patch series is the one that was integrated.
CheckSeries(f) ==
    /\ Step(f, "canonical", "policy")
    /\ series = Recorded
    /\ UNCHANGED <<outputs, files, path, target, build, report, seen>>

\* The repository's manifest is the one of the build evidence.
CheckManifest(f) ==
    /\ Step(f, "policy", "output")
    /\ build[f].report.manifest = manifest
    /\ build[f].report.args = ArgsOf[manifest]
    /\ UNCHANGED <<outputs, files, path, target, build, report, seen>>

\* The output still has the args.gn of the build evidence.
CheckOutput(f) ==
    /\ Step(f, "output", "check")
    /\ outputs[build[f].report.output] = Output(build[f].report.args)
    /\ UNCHANGED <<outputs, files, path, target, build, report, seen>>

\* gn args --list, every argument of which must match.
CompareCurrent(f) ==
    /\ Step(f, "list", "graph")
    /\ LET b == build[f].report
       IN  /\ GnReads(f, b.output)
           /\ MayMatch(outputs[b.output].args, b.manifest)
    /\ UNCHANGED <<outputs, files, path, target, build, report>>

\* gn ls, gn desc, the generated headers and the sources.
InspectGraph(f) ==
    /\ Step(f, "graph", "recheck")
    /\ GnReads(f, build[f].report.output)
    /\ UNCHANGED <<outputs, files, path, target, build, report>>

Recheck(f) ==
    /\ Step(f, "recheck", "conclude")
    /\ tree = Recorded
    /\ UNCHANGED <<outputs, files, path, target, build, report, seen>>

\* PASS, with the digest of the file that now is at the evidence path.
Conclude(f) ==
    /\ Step(f, "conclude", "companions")
    /\ files[build[f].path] # Null
    /\ LET named == files[build[f].path].document
       IN  report' = [report EXCEPT ![f] = FinalReport("PASS", named, FALSE)]
    /\ UNCHANGED <<outputs, files, path, target, build, seen>>

\* all-targets.txt and production-deps.txt are written after the report was
\* made a PASS: when that fails, the PASS names a failure.
WriteCompanions(f) ==
    /\ Step(f, "companions", "write")
    /\ \E failed \in BOOLEAN :
            report' = [report EXCEPT ![f] = FinalReport("PASS", report[f].build, failed)]
    /\ UNCHANGED <<outputs, files, path, target, build, seen>>

-----------------------------------------------------------------------------
(* The people around                                                       *)

Aside == UNCHANGED <<outputs, files, pc, path, target, build, report, seen>>

EditTree ==
    /\ tree < MaxEdits
    /\ tree' = tree + 1
    /\ UNCHANGED <<restored, manifest, series>>
    /\ Aside

\* Somebody puts the tree back to what was integrated.
RestoreTree ==
    /\ tree # Recorded
    /\ tree' = Recorded
    /\ restored' = TRUE
    /\ UNCHANGED <<manifest, series>>
    /\ Aside

EditManifest ==
    /\ manifest < MaxEdits
    /\ manifest' = manifest + 1
    /\ UNCHANGED <<tree, restored, series>>
    /\ Aside

EditSeries ==
    /\ series < MaxEdits
    /\ series' = series + 1
    /\ UNCHANGED <<tree, restored, manifest>>
    /\ Aside

-----------------------------------------------------------------------------
Gate(g) ==
    \/ \E p \in Paths : Open(g, p)
    \/ OpenFails(g) \/ FirstCheck(g) \/ Fails(g) \/ Write(g) \/ Crash(g)

Collector(c) ==
    \/ LoadInputs(c)
    \/ \E o \in Outputs : ReuseOutput(c, o) \/ MakeOutput(c, o)
    \/ WriteArgs(c) \/ Generate(c) \/ ListArguments(c) \/ Collect(c)

Finisher(f) ==
    \/ \E p \in Paths : ReadBuildEvidence(f, p)
    \/ CheckSeries(f) \/ CheckManifest(f) \/ CheckOutput(f) \/ CompareCurrent(f)
    \/ InspectGraph(f) \/ Recheck(f) \/ Conclude(f) \/ WriteCompanions(f)

Next ==
    \/ \E g \in Gates : Gate(g)
    \/ \E c \in Collectors : Collector(c)
    \/ \E f \in Finishers : Finisher(f)
    \/ EditTree \/ RestoreTree \/ EditManifest \/ EditSeries

Spec == Init /\ [][Next]_vars

-----------------------------------------------------------------------------
(* Properties                                                              *)

Store == INSTANCE EvidenceStore WITH Writers <- Gates, Documents <- Reports

\* Evidence is write-once, whoever is started with which path and whoever dies:
\* a path belongs to the gate that created it, and its report is never replaced.
ImplementsEvidenceStore == Store!Spec

\* The gates whose report says that the checks passed.
Successful == {g \in Gates : report[g].status \in {"INCOMPLETE", "PASS"}}

\* Everything GN read for a successful gate was the content that was
\* integrated, if nobody hides an edit by putting the tree back in between.
GnSawIntegration ==
    restored \/ \A g \in Successful : seen[g].trees = {Recorded}

\* The arguments a successful collector reports are those GN worked with, and
\* those of the manifest it names, although outputs are shared and reused.
ReportedArgsWereRead ==
    \A c \in Successful \cap Collectors :
        seen[c].args = {report[c].args} /\ report[c].args = ArgsOf[report[c].manifest]

\* Two collectors never write the args.gn of one output: neither one that made
\* the output at the same time nor a later one changes it under a finisher.
ArgsWrittenOnce ==
    [][\A o \in Outputs : outputs[o] # Null =>
           outputs'[o] = outputs[o] \/ (outputs[o] = Output(Null) /\ outputs'[o] # Null)]_vars

\* A PASS stands on one build report: the one it examined is the one it names,
\* that is still at its path, and it is of the arguments GN has read again.
PassStandsOnBuild ==
    \A f \in Successful \cap Finishers :
        /\ report[f].build = build[f].report
        /\ files[build[f].path].document = build[f].report
        /\ build[f].report.gn = "MATCH"
        /\ seen[f].args = {ArgsOf[build[f].report.manifest]}

\* verify_foundation_1b.py requires "successful GN evidence", so a PASS should
\* stand on a collector that did not fail.
PassNeedsSuccessfulBuild ==
    \A f \in Successful \cap Finishers : report[f].build.status = "INCOMPLETE"
=============================================================================
