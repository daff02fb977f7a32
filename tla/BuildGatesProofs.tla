-------------------------- MODULE BuildGatesProofs --------------------------
(***************************************************************************)
(* Proofs about BuildGates, for any number of gates, paths, outputs and    *)
(* manifests.  The inductive invariant says what a gate that is under way  *)
(* holds: its evidence file, and an output whose args.gn is settled; and   *)
(* that a build report with matching arguments, wherever it is, speaks of  *)
(* such an output.                                                         *)
(***************************************************************************)
EXTENDS BuildGates, TLAPS

Working == Checking \cup Generating \cup {"conclude", "companions", "write"}

CollectorStages ==
    {"open", "inputs", "check", "prepare", "args", "gen", "list", "recheck", "write",
     "done", "dead"}
FinisherStages ==
    {"open", "evidence", "canonical", "policy", "output", "check", "list", "graph",
     "recheck", "conclude", "companions", "write", "done", "dead"}

\* A gate under way is the one that opened its evidence file, still empty.
Holding(g) == pc[g] \in Working => path[g] \in Paths /\ files[path[g]] = File(g, Null)

\* With these outputs, a report of matching arguments is of an output that has them.
Sound(outs, b) ==
    b.gn = "MATCH" =>
        /\ b.manifest \in Versions /\ b.output \in Outputs
        /\ b.args = ArgsOf[b.manifest]
        /\ outs[b.output] = Output(b.args)

CollectorInv(c) ==
    /\ pc[c] \in CollectorStages
    /\ report[c] \in BuildReports
    /\ Sound(outputs, report[c])
    /\ pc[c] \in {"check", "prepare", "args", "gen", "list", "recheck"} =>
           report[c].manifest \in Versions
    /\ pc[c] \in {"open", "inputs", "check", "prepare", "args", "gen"} => seen[c].args = {}
    /\ pc[c] = "args" => target[c] \in Outputs /\ outputs[target[c]] = Output(Null)
    /\ pc[c] \in {"gen", "list", "recheck"} =>
           /\ target[c] \in Outputs /\ report[c].output = target[c]
           /\ report[c].args = ArgsOf[report[c].manifest]
           /\ outputs[target[c]] = Output(report[c].args)
    /\ pc[c] \in {"list", "recheck"} => seen[c].args = {report[c].args}
    /\ report[c].status = "INCOMPLETE" =>
           /\ pc[c] \in {"write", "done", "dead"}
           /\ report[c].gn = "MATCH"
           /\ seen[c].args = {report[c].args}

FinisherInv(f) ==
    /\ pc[f] \in FinisherStages
    /\ report[f] \in FinalReports
    /\ pc[f] \in {"canonical", "policy", "output", "check", "list", "graph", "recheck",
                  "conclude", "companions"} => build[f] # Null
    /\ build[f] # Null =>
           /\ build[f].path \in Paths /\ build[f].report \in BuildReports
           /\ build[f].report.gn = "MATCH"
           /\ Sound(outputs, build[f].report)
           /\ files[build[f].path] # Null
           /\ files[build[f].path].document = build[f].report
    /\ pc[f] \in {"open", "evidence", "canonical", "policy", "output", "check", "list"} =>
           seen[f].args = {}
    /\ pc[f] \in {"graph", "recheck", "conclude", "companions"} =>
           seen[f].args = {build[f].report.args}
    /\ report[f].status = "PASS" =>
           /\ pc[f] \in {"companions", "write", "done", "dead"}
           /\ build[f] # Null /\ report[f].build = build[f].report
           /\ seen[f].args = {build[f].report.args}
    /\ pc[f] = "companions" => report[f].status = "PASS"

SelfInv(g) ==
    /\ Holding(g)
    /\ g \in Collectors => CollectorInv(g)
    /\ g \in Finishers => FinisherInv(g)

\* Two collectors do not prepare one output at the same time.
MakersDiffer ==
    \A c, d \in Collectors :
        pc[c] = "args" /\ pc[d] = "args" /\ target[c] = target[d] => c = d

PublishedSound ==
    \A p \in Paths :
        files[p] # Null /\ files[p].document \in BuildReports => Sound(outputs, files[p].document)

GateInv == TypeOK /\ (\A g \in Gates : SelfInv(g)) /\ MakersDiffer /\ PublishedSound

-----------------------------------------------------------------------------
(* Values                                                                  *)

\* Null is none of the values it stands beside.
LEMMA NullIsNothing ==
    /\ Null \notin Versions /\ Null \notin Paths /\ Null \notin Outputs
    /\ Null \notin Args /\ Null \notin Gates /\ Null \notin Reports
    /\ Null \notin BuildReports /\ Null \notin FinalReports
BY GatesAssumption, NullAssumption DEF Reports

\* An output that exists is not Null.
LEMMA OutputNotNull == ASSUME NEW a \in Optional(Args) PROVE Output(a) # Null
BY NullAssumption DEF Output, OutputStates

\* An evidence file that exists is not Null.
LEMMA FileNotNull ==
    ASSUME NEW g \in Gates, NEW d \in Optional(Reports) PROVE File(g, d) # Null
BY NullAssumption DEF File, EvidenceFiles

\* The constructors build values of their types, and these have typed fields.
LEMMA BuildReportType ==
    ASSUME NEW status \in {"FAIL", "INCOMPLETE"}, NEW gn \in {"NOT_RUN", "FAIL", "MATCH"},
           NEW m \in Optional(Versions), NEW o \in Optional(Outputs), NEW a \in Optional(Args)
    PROVE  BuildReport(status, gn, m, o, a) \in BuildReports
BY DEF BuildReport, BuildReports

\* The fields of a collector's report.
LEMMA BuildReportFields ==
    ASSUME NEW b \in BuildReports
    PROVE  /\ b.status \in {"FAIL", "INCOMPLETE"} /\ b.gn \in {"NOT_RUN", "FAIL", "MATCH"}
           /\ b.manifest \in Optional(Versions) /\ b.output \in Optional(Outputs)
           /\ b.args \in Optional(Args)
BY DEF BuildReports

\* A finisher's report.
LEMMA FinalReportType ==
    ASSUME NEW status \in {"FAIL", "PASS"}, NEW b \in Optional(BuildReports), NEW failure \in BOOLEAN
    PROVE  FinalReport(status, b, failure) \in FinalReports
BY DEF FinalReport, FinalReports

\* The fields of a finisher's report.
LEMMA FinalReportFields ==
    ASSUME NEW r \in FinalReports
    PROVE  /\ r.status \in {"FAIL", "PASS"} /\ r.build \in Optional(BuildReports)
           /\ r.failure \in BOOLEAN
BY DEF FinalReports

\* The two kinds of report are told apart by their fields.
LEMMA KindsDiffer == ASSUME NEW r \in FinalReports PROVE r \notin BuildReports
BY DEF FinalReports, BuildReports

\* Each manifest has arguments.
LEMMA ArgsOfType == ASSUME NEW m \in Versions PROVE ArgsOf[m] \in Args
BY GatesAssumption

-----------------------------------------------------------------------------
(* What a step of one gate leaves to the others                            *)

\* Before anybody has opened anything the invariant holds.
LEMMA InitInv == Init => GateInv
<1> SUFFICES ASSUME Init PROVE GateInv
    OBVIOUS
<1> USE GatesAssumption DEF Init
<1>1. \A g \in Gates : FirstReport(g) \in Reports
    BY BuildReportType, FinalReportType DEF FirstReport, Reports, Optional
<1>2. TypeOK
    <2>1. 0 \in Versions
        BY DEF Versions
    <2>9. tree \in Versions /\ manifest \in Versions /\ series \in Versions
        BY <2>1 DEF Recorded
    <2>10. restored \in BOOLEAN
        OBVIOUS
    <2>2. outputs \in [Outputs -> Optional(OutputStates)]
        BY DEF Optional
    <2>3. files \in [Paths -> Optional(EvidenceFiles)]
        BY DEF Optional
    <2>4. pc \in [Gates -> Stages] /\ path \in [Gates -> Optional(Paths)]
        BY DEF Optional, Stages
    <2>5. target \in [Collectors -> Optional(Outputs)]
        BY DEF Optional
    <2>6. build \in [Finishers -> Optional(Readings)]
        BY DEF Optional
    <2>7. report \in [Gates -> Reports]
        BY <1>1
    <2>8. seen \in [Gates -> [trees : SUBSET Versions, args : SUBSET Args]]
        BY DEF Seen
    <2> QED BY <2>1, <2>2, <2>3, <2>4, <2>5, <2>6, <2>7, <2>8, <2>9, <2>10 DEF TypeOK
<1>3. ASSUME NEW c \in Collectors PROVE CollectorInv(c)
    <2>1. report[c] = BuildReport("FAIL", "NOT_RUN", Null, Null, Null)
        BY DEF Gates, FirstReport
    <2>2. report[c] \in BuildReports
        BY <2>1, BuildReportType DEF Optional
    <2>3. report[c].gn = "NOT_RUN" /\ report[c].status = "FAIL" /\ seen[c].args = {} /\ pc[c] = "open"
        BY <2>1 DEF BuildReport, Seen, Gates
    <2> QED BY <2>2, <2>3 DEF CollectorInv, CollectorStages, Sound
<1>4. ASSUME NEW f \in Finishers PROVE FinisherInv(f)
    <2>1. report[f] = FinalReport("FAIL", Null, FALSE)
        BY DEF Gates, FirstReport
    <2>2. report[f] \in FinalReports
        BY <2>1, FinalReportType DEF Optional
    <2>3. report[f].status = "FAIL" /\ seen[f].args = {} /\ pc[f] = "open" /\ build[f] = Null
        BY <2>1 DEF FinalReport, Seen, Gates
    <2> QED BY <2>2, <2>3 DEF FinisherInv, FinisherStages
<1>5. \A g \in Gates : SelfInv(g)
    BY <1>3, <1>4 DEF SelfInv, Holding, Working, Checking, Generating
<1>6. MakersDiffer /\ PublishedSound
    BY DEF MakersDiffer, PublishedSound, Gates
<1> QED BY <1>2, <1>5, <1>6 DEF GateInv

\* The outputs change only where they are made and where their maker writes.
OutputsKept(g) ==
    \A o \in Outputs :
        \/ outputs'[o] = outputs[o]
        \/ outputs[o] = Null
        \/ g \in Collectors /\ pc[g] = "args" /\ target[g] = o /\ outputs[o] = Output(Null)

\* A gate touches free paths and its own empty file.
FilesKept(g) ==
    \A p \in Paths :
        \/ files'[p] = files[p]
        \/ files[p] = Null
        \/ files[p] = File(g, Null)

Frame(g) ==
    /\ \A h \in Gates : h # g =>
           /\ pc'[h] = pc[h] /\ path'[h] = path[h] /\ report'[h] = report[h]
           /\ seen'[h] = seen[h]
    /\ \A c \in Collectors : c # g => target'[c] = target[c]
    /\ \A f \in Finishers : f # g => build'[f] = build[f]
    /\ OutputsKept(g)
    /\ FilesKept(g)

\* A report that is sound stays so while the outputs are kept.
LEMMA SoundKept ==
    ASSUME NEW g, OutputsKept(g), NEW b, Sound(outputs, b)
    PROVE  Sound(outputs', b)
<1> SUFFICES ASSUME b.gn = "MATCH" PROVE outputs'[b.output] = Output(b.args)
    BY DEF Sound
<1>1. b.output \in Outputs /\ outputs[b.output] = Output(b.args) /\ b.args \in Args
    BY ArgsOfType DEF Sound
<1>2. outputs[b.output] # Null
    BY <1>1, OutputNotNull DEF Optional
<1>3. outputs[b.output] # Output(Null)
    BY <1>1, NullIsNothing DEF Output
<1> QED BY <1>1, <1>2, <1>3 DEF OutputsKept

-----------------------------------------------------------------------------
(* The invariant of the gates that do not move                             *)

\* A gate's empty file stays its own.
LEMMA HoldingKept ==
    ASSUME GateInv, NEW g \in Gates, NEW h \in Gates, h # g, Frame(g)
    PROVE  Holding(h)'
<1> SUFFICES ASSUME pc'[h] \in Working
             PROVE  path'[h] \in Paths /\ files'[path'[h]] = File(h, Null)
    BY DEF Holding
<1>1. pc'[h] = pc[h] /\ path'[h] = path[h]
    BY DEF Frame
<1>2. path[h] \in Paths /\ files[path[h]] = File(h, Null)
    BY <1>1 DEF GateInv, SelfInv, Holding
<1>3. File(h, Null) # File(g, Null)
    BY DEF File
<1>4. File(h, Null) # Null
    BY FileNotNull DEF Optional
<1> QED BY <1>1, <1>2, <1>3, <1>4 DEF Frame, FilesKept

\* A published document stays.
LEMMA DocumentKept ==
    ASSUME NEW g, FilesKept(g), NEW p \in Paths, files[p] # Null, files[p].document # Null
    PROVE  files'[p] = files[p]
BY DEF FilesKept, File

\* The output a collector has reported on keeps its arguments.
LEMMA CollectorKept ==
    ASSUME GateInv, NEW g \in Gates, NEW c \in Collectors, c # g, Frame(g)
    PROVE  CollectorInv(c)'
<1>1. /\ pc'[c] = pc[c] /\ report'[c] = report[c] /\ seen'[c] = seen[c]
      /\ target'[c] = target[c] /\ OutputsKept(g)
    BY DEF Frame, Gates
<1>2. CollectorInv(c)
    BY DEF GateInv, SelfInv, Gates
<1>3. Sound(outputs', report'[c])
    BY <1>1, <1>2, SoundKept DEF CollectorInv
<1>4. pc[c] = "args" => outputs'[target[c]] = outputs[target[c]]
    <2> SUFFICES ASSUME pc[c] = "args" PROVE outputs'[target[c]] = outputs[target[c]]
        OBVIOUS
    <2>1. target[c] \in Outputs /\ outputs[target[c]] = Output(Null)
        BY <1>2 DEF CollectorInv
    <2>2. outputs[target[c]] # Null
        BY <2>1, OutputNotNull DEF Optional
    <2>3. ~ (g \in Collectors /\ pc[g] = "args" /\ target[g] = target[c])
        BY DEF GateInv, MakersDiffer
    <2> QED BY <1>1, <2>1, <2>2, <2>3 DEF OutputsKept
<1>5. pc[c] \in {"gen", "list", "recheck"} => outputs'[target[c]] = outputs[target[c]]
    <2> SUFFICES ASSUME pc[c] \in {"gen", "list", "recheck"}
                 PROVE  outputs'[target[c]] = outputs[target[c]]
        OBVIOUS
    <2>1. /\ target[c] \in Outputs /\ outputs[target[c]] = Output(report[c].args)
          /\ report[c].args \in Args
        BY <1>2, ArgsOfType DEF CollectorInv
    <2>2. outputs[target[c]] # Null
        BY <2>1, OutputNotNull DEF Optional
    <2>3. outputs[target[c]] # Output(Null)
        BY <2>1, NullIsNothing DEF Output
    <2> QED BY <1>1, <2>1, <2>2, <2>3 DEF OutputsKept
<1> QED BY <1>1, <1>2, <1>3, <1>4, <1>5 DEF CollectorInv

\* The build evidence a finisher has read stays where it was.
LEMMA FinisherKept ==
    ASSUME GateInv, NEW g \in Gates, NEW f \in Finishers, f # g, Frame(g)
    PROVE  FinisherInv(f)'
<1>1. /\ pc'[f] = pc[f] /\ report'[f] = report[f] /\ seen'[f] = seen[f]
      /\ build'[f] = build[f] /\ OutputsKept(g) /\ FilesKept(g)
    BY DEF Frame, Gates
<1>2. FinisherInv(f)
    BY DEF GateInv, SelfInv, Gates
<1>3. build[f] # Null => Sound(outputs', build'[f].report)
    BY <1>1, <1>2, SoundKept DEF FinisherInv
<1>4. build[f] # Null => files'[build[f].path] = files[build[f].path]
    <2> SUFFICES ASSUME build[f] # Null PROVE files'[build[f].path] = files[build[f].path]
        OBVIOUS
    <2>1. /\ build[f].path \in Paths /\ files[build[f].path] # Null
          /\ files[build[f].path].document \in BuildReports
        BY <1>2 DEF FinisherInv
    <2>2. files[build[f].path].document # Null
        BY <2>1, NullIsNothing
    <2> QED BY <1>1, <2>1, <2>2, DocumentKept
<1> QED BY <1>1, <1>2, <1>3, <1>4 DEF FinisherInv

\* The gates that do not move keep their invariant; only the one that moves,
\* and what it writes, remain to be looked at.
LEMMA OthersKept ==
    ASSUME GateInv, NEW g \in Gates, Frame(g), TypeOK', SelfInv(g)',
           g \in Collectors /\ pc'[g] = "args" /\ pc[g] # "args" => outputs[target'[g]] = Null,
           g \in Collectors /\ pc'[g] = "args" /\ pc[g] = "args" => target'[g] = target[g],
           \A p \in Paths : files'[p] = files[p] \/ files'[p] = File(g, Null)
                                \/ files'[p] = File(g, report[g])
    PROVE  GateInv'
<1>1. \A h \in Gates : SelfInv(h)'
    <2> TAKE h \in Gates
    <2>1. CASE h = g
        BY <2>1
    <2>2. CASE h # g
        BY <2>2, HoldingKept, CollectorKept, FinisherKept DEF SelfInv
    <2> QED BY <2>1, <2>2
<1>2. MakersDiffer'
    <2> SUFFICES ASSUME NEW c \in Collectors, NEW d \in Collectors, c # d,
                        pc'[c] = "args", pc'[d] = "args", target'[c] = target'[d]
                 PROVE  FALSE
        BY DEF MakersDiffer
    <2>1. ASSUME NEW a \in Collectors, NEW b \in Collectors, a # b, b # g,
                 pc'[a] = "args", pc'[b] = "args", target'[a] = target'[b]
          PROVE  FALSE
        <3>1. pc[b] = "args" /\ target'[b] = target[b]
            BY <2>1 DEF Frame, Gates
        <3>2. outputs[target[b]] = Output(Null)
            BY <3>1 DEF GateInv, SelfInv, CollectorInv, Gates
        <3>3. outputs[target[b]] # Null
            BY <3>2, OutputNotNull DEF Optional
        <3>4. pc[a] = "args" /\ target'[a] = target[a]
            BY <2>1, <3>1, <3>3 DEF Frame, Gates
        <3> QED BY <2>1, <3>1, <3>4 DEF GateInv, MakersDiffer
    <2>2. CASE d = g
        BY <2>1, <2>2
    <2>3. CASE d # g
        BY <2>1, <2>3
    <2> QED BY <2>2, <2>3
<1>3. PublishedSound'
    <2> SUFFICES ASSUME NEW p \in Paths, files'[p] # Null, files'[p].document \in BuildReports
                 PROVE  Sound(outputs', files'[p].document)
        BY DEF PublishedSound
    <2>0. OutputsKept(g)
        BY DEF Frame
    <2>1. CASE files'[p] = files[p]
        <3>1. Sound(outputs, files[p].document)
            BY <2>1 DEF GateInv, PublishedSound
        <3> QED BY <2>0, <2>1, <3>1, SoundKept
    <2>2. CASE files'[p] = File(g, Null)
        BY <2>2, NullIsNothing DEF File
    <2>3. CASE files'[p] = File(g, report[g])
        <3>1. files'[p].document = report[g]
            BY <2>3 DEF File
        <3>2. g \in Collectors
            BY <3>1, KindsDiffer DEF GateInv, SelfInv, FinisherInv, Gates
        <3>3. Sound(outputs, report[g])
            BY <3>2 DEF GateInv, SelfInv, CollectorInv
        <3> QED BY <2>0, <3>1, <3>3, SoundKept
    <2> QED BY <2>1, <2>2, <2>3
<1> QED BY <1>1, <1>2, <1>3 DEF GateInv

-----------------------------------------------------------------------------
(* Steps that change no output and no file                                 *)

\* Only the state of g itself changes.
OwnStep(g) ==
    /\ \A h \in Gates : h # g =>
           /\ pc'[h] = pc[h] /\ path'[h] = path[h] /\ report'[h] = report[h]
           /\ seen'[h] = seen[h]
    /\ \A c \in Collectors : c # g => target'[c] = target[c]
    /\ \A f \in Finishers : f # g => build'[f] = build[f]

\* Such a step keeps the invariant if it does so for g.
LEMMA QuietStep ==
    ASSUME GateInv, NEW g \in Gates, OwnStep(g), TypeOK', SelfInv(g)',
           outputs' = outputs, files' = files, pc'[g] # "args"
    PROVE  GateInv'
<1>1. Frame(g)
    BY DEF Frame, OwnStep, OutputsKept, FilesKept
<1> QED BY <1>1, OthersKept

\* The shape of a step: where g was, where it is, and what is left alone.
LEMMA StepShape ==
    ASSUME TypeOK, NEW g \in Gates, NEW from, NEW to \in Stages, Step(g, from, to)
    PROVE  /\ pc[g] = from /\ pc'[g] = to
           /\ pc' \in [Gates -> Stages]
           /\ \A h \in Gates : h # g => pc'[h] = pc[h]
           /\ tree' = tree /\ restored' = restored /\ manifest' = manifest /\ series' = series
BY DEF Step, TypeOK, inputs

\* A gate is a collector or a finisher, not both.
LEMMA KindOfGate ==
    /\ \A c \in Collectors : c \in Gates /\ c \notin Finishers
    /\ \A f \in Finishers : f \in Gates /\ f \notin Collectors
BY GatesAssumption DEF Gates

\* A gate that cannot open its evidence file is over.
LEMMA OpenFailsInv == ASSUME GateInv, NEW g \in Gates, OpenFails(g) PROVE GateInv'
<1> USE DEF OpenFails
<1>1. "done" \in Stages /\ TypeOK
    BY DEF Stages, GateInv
<1>2. pc[g] = "open" /\ pc'[g] = "done"
    BY <1>1, StepShape
<1>3. TypeOK'
    BY <1>1, StepShape DEF TypeOK
<1>4. OwnStep(g)
    BY <1>1, StepShape DEF OwnStep
<1>5. SelfInv(g)'
    BY <1>2 DEF GateInv, SelfInv, Holding, CollectorInv, FinisherInv, Working, Checking,
                Generating, CollectorStages, FinisherStages
<1> QED BY <1>2, <1>3, <1>4, <1>5, QuietStep

\* The check of the tree only takes a gate further.
LEMMA FirstCheckInv == ASSUME GateInv, NEW g \in Gates, FirstCheck(g) PROVE GateInv'
<1> DEFINE to == IF g \in Collectors THEN "prepare" ELSE "list"
<1> USE DEF FirstCheck
<1>1. to \in Stages /\ TypeOK /\ Step(g, "check", to)
    BY DEF Stages, Generating, GateInv
<1> HIDE DEF to
<1>2. pc[g] = "check" /\ pc'[g] = to
    BY <1>1, StepShape
<1>3. TypeOK'
    BY <1>1, StepShape DEF TypeOK
<1>4. OwnStep(g)
    BY <1>1, StepShape DEF OwnStep
<1>5. Holding(g)'
    BY <1>2 DEF GateInv, SelfInv, Holding, Working, Checking
<1>6. ASSUME g \in Collectors PROVE CollectorInv(g)' /\ pc'[g] # "args"
    <2>1. pc'[g] = "prepare"
        BY <1>2, <1>6 DEF to
    <2> QED BY <1>2, <1>6, <2>1 DEF GateInv, SelfInv, CollectorInv, CollectorStages
<1>7. ASSUME g \in Finishers PROVE FinisherInv(g)' /\ pc'[g] # "args"
    <2>1. pc'[g] = "list"
        BY <1>2, <1>7, KindOfGate DEF to
    <2> QED BY <1>2, <1>7, <2>1 DEF GateInv, SelfInv, FinisherInv, FinisherStages
<1>8. SelfInv(g)' /\ pc'[g] # "args"
    BY <1>5, <1>6, <1>7 DEF SelfInv, Gates
<1> QED BY <1>3, <1>4, <1>8, QuietStep

\* A gate that dies leaves everything as it was.
LEMMA CrashInv == ASSUME GateInv, NEW g \in Gates, Crash(g) PROVE GateInv'
<1> USE DEF Crash
<1>1. PICK stage \in Stages \ {"done", "dead"} : Step(g, stage, "dead")
    OBVIOUS
<1>2. "dead" \in Stages /\ TypeOK
    BY DEF Stages, GateInv
<1>3. pc'[g] = "dead"
    BY <1>1, <1>2, StepShape
<1>4. TypeOK'
    BY <1>1, <1>2, StepShape DEF TypeOK
<1>5. OwnStep(g)
    BY <1>1, <1>2, StepShape DEF OwnStep
<1>6. SelfInv(g)'
    BY <1>3 DEF GateInv, SelfInv, Holding, CollectorInv, FinisherInv, Working, Checking,
                Generating, CollectorStages, FinisherStages
<1> QED BY <1>3, <1>4, <1>5, <1>6, QuietStep

\* A failure takes nothing back but what a finisher has reported.
LEMMA FailsInv == ASSUME GateInv, NEW g \in Gates, Fails(g) PROVE GateInv'
<1> USE DEF Fails
<1>1. PICK stage \in Checking \cup Generating \cup {"conclude"} : Step(g, stage, "write")
    OBVIOUS
<1>2. "write" \in Stages /\ TypeOK
    BY DEF Stages, GateInv
<1>3. pc[g] = stage /\ pc'[g] = "write"
    BY <1>1, <1>2, StepShape
<1>4. FinalReport("FAIL", Null, TRUE) \in FinalReports
    BY FinalReportType DEF Optional
<1>5. /\ report' \in [Gates -> Reports]
      /\ \A h \in Gates : h # g => report'[h] = report[h]
    BY <1>2, <1>4 DEF TypeOK, Reports
<1>6. TypeOK'
    BY <1>1, <1>2, <1>5, StepShape DEF TypeOK
<1>7. OwnStep(g)
    BY <1>1, <1>2, <1>5, StepShape DEF OwnStep
<1>8. Holding(g)'
    BY <1>3 DEF GateInv, SelfInv, Holding, Working, Checking, Generating
<1>9. ASSUME g \in Collectors PROVE CollectorInv(g)'
    BY <1>3, <1>9 DEF GateInv, SelfInv, CollectorInv, CollectorStages
<1>10. ASSUME g \in Finishers PROVE FinisherInv(g)'
    <2>1. report'[g] = FinalReport("FAIL", Null, TRUE)
        BY <1>2, <1>10, KindOfGate DEF TypeOK
    <2>2. report'[g].status = "FAIL"
        BY <2>1 DEF FinalReport
    <2> QED BY <1>3, <1>4, <1>10, <2>1, <2>2 DEF GateInv, SelfInv, FinisherInv, FinisherStages
<1>11. SelfInv(g)'
    BY <1>8, <1>9, <1>10 DEF SelfInv
<1> QED BY <1>3, <1>6, <1>7, <1>11, QuietStep

-----------------------------------------------------------------------------
(* Opening and writing the evidence file                                   *)

\* Opening takes a free path.
LEMMA OpenInv == ASSUME GateInv, NEW g \in Gates, NEW p \in Paths, Open(g, p) PROVE GateInv'
<1> DEFINE to == IF g \in Collectors THEN "inputs" ELSE "evidence"
<1> USE DEF Open, Opened
<1>1. to \in Stages /\ to # "args" /\ TypeOK /\ Step(g, "open", to)
    BY DEF Stages, Checking, GateInv
<1> HIDE DEF to
<1>2. pc[g] = "open" /\ pc'[g] = to
    BY <1>1, StepShape
<1>3. File(g, Null) \in EvidenceFiles
    BY DEF File, EvidenceFiles, Optional
<1>4. TypeOK'
    <2>1. files' \in [Paths -> Optional(EvidenceFiles)]
        BY <1>1, <1>3 DEF TypeOK, Optional
    <2>2. path' \in [Gates -> Optional(Paths)]
        BY <1>1 DEF TypeOK, Optional
    <2> QED BY <1>1, <2>1, <2>2, StepShape DEF TypeOK
<1>5. files[p] = Null /\ files'[p] = File(g, Null) /\ path'[g] = p
    BY <1>1 DEF TypeOK
<1>6. \A q \in Paths : q # p => files'[q] = files[q]
    BY <1>1 DEF TypeOK
<1>7. Frame(g)
    BY <1>1, <1>5, <1>6, StepShape DEF Frame, OutputsKept, FilesKept, TypeOK
<1>8. Holding(g)'
    BY <1>5 DEF Holding
<1>9. ASSUME g \in Collectors PROVE CollectorInv(g)'
    BY <1>1, <1>2, <1>9 DEF to, GateInv, SelfInv, CollectorInv, CollectorStages
<1>10. ASSUME g \in Finishers PROVE FinisherInv(g)'
    <2>1. FinisherInv(g) /\ pc'[g] = "evidence"
        BY <1>2, <1>10, KindOfGate DEF to, GateInv, SelfInv
    <2>2. build[g] # Null => files'[build[g].path] = files[build[g].path]
        BY <1>5, <1>6, <2>1 DEF FinisherInv
    <2> QED BY <1>1, <1>2, <2>1, <2>2 DEF FinisherInv, FinisherStages
<1>11. SelfInv(g)'
    BY <1>8, <1>9, <1>10 DEF SelfInv
<1> QED BY <1>1, <1>2, <1>4, <1>5, <1>6, <1>7, <1>11, OthersKept

\* Writing replaces nothing but the gate's own empty file.
LEMMA WriteInv == ASSUME GateInv, NEW g \in Gates, Write(g) PROVE GateInv'
<1> USE DEF Write
<1>1. "done" \in Stages /\ TypeOK /\ Step(g, "write", "done")
    BY DEF Stages, GateInv
<1>2. pc[g] = "write" /\ pc'[g] = "done"
    BY <1>1, StepShape
<1>3. path[g] \in Paths /\ files[path[g]] = File(g, Null)
    BY <1>2 DEF GateInv, SelfInv, Holding, Working
<1>4. report[g] \in Reports /\ report[g] # Null
    BY <1>1, NullIsNothing DEF TypeOK
<1>5. File(g, report[g]) \in EvidenceFiles
    BY <1>4 DEF File, EvidenceFiles, Optional
<1>6. TypeOK'
    <2>1. files' \in [Paths -> Optional(EvidenceFiles)]
        BY <1>1, <1>5 DEF TypeOK, Optional
    <2> QED BY <1>1, <2>1, StepShape DEF TypeOK
<1>7. files'[path[g]] = File(g, report[g])
    BY <1>1, <1>3 DEF TypeOK
<1>8. \A q \in Paths : q # path[g] => files'[q] = files[q]
    BY <1>1 DEF TypeOK
<1>9. Frame(g)
    BY <1>1, <1>3, <1>8, StepShape DEF Frame, OutputsKept, FilesKept, TypeOK
<1>10. Holding(g)'
    BY <1>2 DEF Holding, Working, Checking, Generating
<1>11. ASSUME g \in Collectors PROVE CollectorInv(g)'
    BY <1>1, <1>2, <1>11 DEF GateInv, SelfInv, CollectorInv, CollectorStages
<1>12. ASSUME g \in Finishers PROVE FinisherInv(g)'
    <2>1. FinisherInv(g)
        BY <1>12 DEF GateInv, SelfInv
    <2>2. build[g] # Null => files'[build[g].path] = files[build[g].path]
        <3> SUFFICES ASSUME build[g] # Null
                     PROVE  files'[build[g].path] = files[build[g].path]
            OBVIOUS
        <3>1. files[build[g].path].document # Null /\ build[g].path \in Paths
            BY <2>1, NullIsNothing DEF FinisherInv
        <3>2. build[g].path # path[g]
            BY <1>3, <3>1 DEF File
        <3> QED BY <1>8, <3>1, <3>2
    <2> QED BY <1>1, <1>2, <2>1, <2>2 DEF FinisherInv, FinisherStages
<1>13. SelfInv(g)'
    BY <1>10, <1>11, <1>12 DEF SelfInv
<1> QED BY <1>2, <1>6, <1>7, <1>8, <1>9, <1>13, OthersKept

-----------------------------------------------------------------------------
(* The steps of a collector                                                *)

\* A collector has read the manifest.
LEMMA LoadInputsInv == ASSUME GateInv, NEW c \in Collectors, LoadInputs(c) PROVE GateInv'
<1> DEFINE r == BuildReport("FAIL", "NOT_RUN", manifest, Null, Null)
<1> USE DEF LoadInputs
<1>1. "check" \in Stages /\ TypeOK /\ c \in Gates /\ c \notin Finishers
    BY KindOfGate DEF Stages, Checking, GateInv
<1>2. pc[c] = "inputs" /\ pc'[c] = "check"
    BY <1>1, StepShape
<1>3. r \in BuildReports /\ r.gn = "NOT_RUN" /\ r.status = "FAIL" /\ r.manifest \in Versions
    BY <1>1, BuildReportType DEF Optional, TypeOK, BuildReport
<1> HIDE DEF r
<1>4. /\ report' \in [Gates -> Reports] /\ report'[c] = r
      /\ \A h \in Gates : h # c => report'[h] = report[h]
    BY <1>1, <1>3 DEF TypeOK, Reports, r
<1>5. TypeOK'
    BY <1>1, <1>4, StepShape DEF TypeOK
<1>6. OwnStep(c)
    BY <1>1, <1>4, StepShape DEF OwnStep
<1>7. Holding(c)'
    BY <1>1, <1>2 DEF GateInv, SelfInv, Holding, Working, Checking
<1>8. CollectorInv(c)'
    BY <1>1, <1>2, <1>3, <1>4 DEF GateInv, SelfInv, CollectorInv, CollectorStages, Sound
<1>9. SelfInv(c)'
    BY <1>1, <1>7, <1>8 DEF SelfInv
<1> QED BY <1>1, <1>2, <1>5, <1>6, <1>9, QuietStep

\* Recording an output and its arguments.
LEMMA PreparedType ==
    ASSUME TypeOK, NEW c \in Collectors, NEW o \in Outputs, report[c].manifest \in Versions,
           Prepared(c, o)
    PROVE  /\ report' \in [Gates -> Reports]
           /\ \A h \in Gates : h # c => report'[h] = report[h]
           /\ report'[c] \in BuildReports
           /\ report'[c].status = "FAIL" /\ report'[c].gn = "FAIL"
           /\ report'[c].manifest = report[c].manifest
           /\ report'[c].output = o /\ report'[c].args = ArgsOf[report[c].manifest]
<1> DEFINE r == BuildReport("FAIL", "FAIL", report[c].manifest, o, ArgsOf[report[c].manifest])
<1>1. c \in Gates /\ ArgsOf[report[c].manifest] \in Args
    BY KindOfGate, ArgsOfType
<1>2. r \in BuildReports
    BY <1>1, BuildReportType DEF Optional
<1>3. report' = [report EXCEPT ![c] = r]
    BY DEF Prepared
<1>4. /\ r.status = "FAIL" /\ r.gn = "FAIL" /\ r.manifest = report[c].manifest
      /\ r.output = o /\ r.args = ArgsOf[report[c].manifest]
    BY DEF BuildReport
<1> HIDE DEF r
<1> QED BY <1>1, <1>2, <1>3, <1>4 DEF TypeOK, Reports

\* A reused output has the arguments that are reported for it.
LEMMA ReuseOutputInv ==
    ASSUME GateInv, NEW c \in Collectors, NEW o \in Outputs, ReuseOutput(c, o) PROVE GateInv'
<1> USE DEF ReuseOutput
<1>1. "gen" \in Stages /\ TypeOK /\ c \in Gates /\ c \notin Finishers /\ CollectorInv(c)
    BY KindOfGate DEF Stages, Generating, GateInv, SelfInv
<1>2. pc[c] = "prepare" /\ pc'[c] = "gen"
    BY <1>1, StepShape
<1>3. report[c].manifest \in Versions
    BY <1>1, <1>2 DEF CollectorInv
<1>4. /\ target' \in [Collectors -> Optional(Outputs)] /\ target'[c] = o
      /\ \A d \in Collectors : d # c => target'[d] = target[d]
    BY <1>1 DEF TypeOK, Optional
<1>5. TypeOK'
    BY <1>1, <1>3, <1>4, PreparedType, StepShape DEF TypeOK
<1>6. OwnStep(c)
    BY <1>1, <1>3, <1>4, PreparedType, StepShape DEF OwnStep
<1>7. Holding(c)'
    BY <1>1, <1>2 DEF GateInv, SelfInv, Holding, Working, Generating
<1>8. CollectorInv(c)'
    BY <1>1, <1>2, <1>3, <1>4, PreparedType DEF CollectorInv, CollectorStages, Sound
<1>9. SelfInv(c)'
    BY <1>1, <1>7, <1>8 DEF SelfInv
<1> QED BY <1>1, <1>2, <1>5, <1>6, <1>9, QuietStep

\* An output is made by one collector.
LEMMA MakeOutputInv ==
    ASSUME GateInv, NEW c \in Collectors, NEW o \in Outputs, MakeOutput(c, o) PROVE GateInv'
<1> USE DEF MakeOutput
<1>1. "args" \in Stages /\ TypeOK /\ c \in Gates /\ c \notin Finishers /\ CollectorInv(c)
    BY KindOfGate DEF Stages, Generating, GateInv, SelfInv
<1>2. pc[c] = "prepare" /\ pc'[c] = "args"
    BY <1>1, StepShape
<1>3. /\ target' \in [Collectors -> Optional(Outputs)] /\ target'[c] = o
      /\ \A d \in Collectors : d # c => target'[d] = target[d]
    BY <1>1 DEF TypeOK, Optional
<1>4. Output(Null) \in OutputStates
    BY DEF Output, OutputStates, Optional
<1>5. /\ outputs' \in [Outputs -> Optional(OutputStates)] /\ outputs'[o] = Output(Null)
      /\ \A u \in Outputs : u # o => outputs'[u] = outputs[u]
    BY <1>1, <1>4 DEF TypeOK, Optional
<1>6. TypeOK'
    BY <1>1, <1>3, <1>5, StepShape DEF TypeOK
<1>7. Frame(c)
    BY <1>1, <1>3, <1>5, StepShape DEF Frame, OutputsKept, FilesKept
<1>8. Holding(c)'
    BY <1>1, <1>2 DEF GateInv, SelfInv, Holding, Working, Generating
<1>9. CollectorInv(c)'
    <2>1. Sound(outputs', report[c])
        BY <1>1, <1>7, SoundKept DEF CollectorInv, Frame
    <2> QED BY <1>1, <1>2, <1>3, <1>5, <2>1 DEF CollectorInv, CollectorStages
<1>10. SelfInv(c)'
    BY <1>1, <1>8, <1>9 DEF SelfInv
<1> QED BY <1>1, <1>2, <1>3, <1>6, <1>7, <1>10, OthersKept

\* Its maker writes the arguments it reports.
LEMMA WriteArgsInv == ASSUME GateInv, NEW c \in Collectors, WriteArgs(c) PROVE GateInv'
<1> DEFINE o == target[c]
           a == ArgsOf[report[c].manifest]
<1> USE DEF WriteArgs
<1>1. "gen" \in Stages /\ TypeOK /\ c \in Gates /\ c \notin Finishers /\ CollectorInv(c)
    BY KindOfGate DEF Stages, Generating, GateInv, SelfInv
<1>2. pc[c] = "args" /\ pc'[c] = "gen"
    BY <1>1, StepShape
<1>3. o \in Outputs /\ outputs[o] = Output(Null) /\ report[c].manifest \in Versions /\ a \in Args
    BY <1>1, <1>2, ArgsOfType DEF CollectorInv
<1>4. Output(a) \in OutputStates
    BY <1>3 DEF Output, OutputStates, Optional
<1>5. /\ outputs' \in [Outputs -> Optional(OutputStates)] /\ outputs'[o] = Output(a)
      /\ \A u \in Outputs : u # o => outputs'[u] = outputs[u]
    BY <1>1, <1>3, <1>4 DEF TypeOK, Optional
<1>6. TypeOK'
    BY <1>1, <1>3, <1>5, PreparedType, StepShape DEF TypeOK
<1>7. Frame(c)
    BY <1>1, <1>2, <1>3, <1>5, PreparedType, StepShape DEF Frame, OutputsKept, FilesKept
<1>8. Holding(c)'
    BY <1>1, <1>2 DEF GateInv, SelfInv, Holding, Working, Generating
<1>9. CollectorInv(c)'
    BY <1>1, <1>2, <1>3, <1>5, PreparedType DEF CollectorInv, CollectorStages, Sound
<1>10. SelfInv(c)'
    BY <1>1, <1>8, <1>9 DEF SelfInv
<1> QED BY <1>1, <1>2, <1>6, <1>7, <1>10, OthersKept

-----------------------------------------------------------------------------
(* Collectors and GN                                                       *)

\* What GN is known to have read.
LEMMA GnReadsShape ==
    ASSUME TypeOK, NEW g \in Gates, NEW o \in Outputs, NEW a \in Args,
           outputs[o] = Output(a), GnReads(g, o)
    PROVE  /\ seen' \in [Gates -> [trees : SUBSET Versions, args : SUBSET Args]]
           /\ seen'[g].args = seen[g].args \cup {a}
           /\ seen'[g].trees = seen[g].trees \cup {tree}
           /\ \A h \in Gates : h # g => seen'[h] = seen[h]
<1> DEFINE s == Seen(seen[g].trees \cup {tree}, seen[g].args \cup {a})
<1>1. outputs[o].args = a
    BY DEF Output
<1>2. seen' = [seen EXCEPT ![g] = s]
    BY <1>1 DEF GnReads
<1>3. /\ s \in [trees : SUBSET Versions, args : SUBSET Args]
      /\ s.args = seen[g].args \cup {a} /\ s.trees = seen[g].trees \cup {tree}
    <2>1. seen[g].trees \in SUBSET Versions /\ seen[g].args \in SUBSET Args /\ tree \in Versions
        BY DEF TypeOK
    <2> QED BY <2>1 DEF Seen
<1> HIDE DEF s
<1> QED BY <1>2, <1>3 DEF TypeOK

\* gn gen reads the arguments the collector has reported.
LEMMA GenerateInv == ASSUME GateInv, NEW c \in Collectors, Generate(c) PROVE GateInv'
<1> USE DEF Generate
<1>1. "list" \in Stages /\ TypeOK /\ c \in Gates /\ c \notin Finishers /\ CollectorInv(c)
    BY KindOfGate DEF Stages, Generating, GateInv, SelfInv
<1>2. pc[c] = "gen" /\ pc'[c] = "list"
    BY <1>1, StepShape
<1>3. /\ target[c] \in Outputs /\ outputs[target[c]] = Output(report[c].args)
      /\ report[c].args \in Args /\ seen[c].args = {}
    BY <1>1, <1>2, ArgsOfType DEF CollectorInv
<1>4. /\ seen' \in [Gates -> [trees : SUBSET Versions, args : SUBSET Args]]
      /\ seen'[c].args = {report[c].args}
      /\ \A h \in Gates : h # c => seen'[h] = seen[h]
    BY <1>1, <1>3, GnReadsShape
<1>5. TypeOK'
    BY <1>1, <1>4, StepShape DEF TypeOK
<1>6. OwnStep(c)
    BY <1>1, <1>4, StepShape DEF OwnStep
<1>7. Holding(c)'
    BY <1>1, <1>2 DEF GateInv, SelfInv, Holding, Working, Generating
<1>8. CollectorInv(c)'
    BY <1>1, <1>2, <1>4 DEF CollectorInv, CollectorStages
<1>9. SelfInv(c)'
    BY <1>1, <1>7, <1>8 DEF SelfInv
<1> QED BY <1>1, <1>2, <1>5, <1>6, <1>9, QuietStep

\* A verdict changes nothing else in the report.
LEMMA JudgedShape ==
    ASSUME TypeOK, NEW c \in Collectors, report[c] \in BuildReports,
           NEW status \in {"FAIL", "INCOMPLETE"}, NEW gn \in {"NOT_RUN", "FAIL", "MATCH"},
           report' = [report EXCEPT ![c] = Judged(c, status, gn)]
    PROVE  /\ report' \in [Gates -> Reports]
           /\ \A h \in Gates : h # c => report'[h] = report[h]
           /\ report'[c] \in BuildReports
           /\ report'[c].status = status /\ report'[c].gn = gn
           /\ report'[c].manifest = report[c].manifest
           /\ report'[c].output = report[c].output /\ report'[c].args = report[c].args
<1> DEFINE r == BuildReport(status, gn, report[c].manifest, report[c].output, report[c].args)
<1>1. r \in BuildReports
    BY BuildReportType, BuildReportFields
<1>2. report' = [report EXCEPT ![c] = r]
    BY DEF Judged
<1>3. /\ r.status = status /\ r.gn = gn /\ r.manifest = report[c].manifest
      /\ r.output = report[c].output /\ r.args = report[c].args
    BY DEF BuildReport
<1> HIDE DEF r
<1> QED BY <1>1, <1>2, <1>3, KindOfGate DEF TypeOK, Reports

\* gn args --list reads them again, and may find them matching.
LEMMA ListArgumentsInv == ASSUME GateInv, NEW c \in Collectors, ListArguments(c) PROVE GateInv'
<1> USE DEF ListArguments
<1>1. "recheck" \in Stages /\ TypeOK /\ c \in Gates /\ c \notin Finishers /\ CollectorInv(c)
    BY KindOfGate DEF Stages, Generating, GateInv, SelfInv
<1>2. pc[c] = "list" /\ pc'[c] = "recheck"
    BY <1>1, StepShape
<1>3. /\ target[c] \in Outputs /\ outputs[target[c]] = Output(report[c].args)
      /\ report[c].output = target[c] /\ report[c].manifest \in Versions
      /\ report[c].args = ArgsOf[report[c].manifest]
      /\ report[c].args \in Args /\ seen[c].args = {report[c].args}
      /\ report[c] \in BuildReports /\ report[c].status = "FAIL"
    BY <1>1, <1>2, ArgsOfType, BuildReportFields DEF CollectorInv
<1>4. /\ seen' \in [Gates -> [trees : SUBSET Versions, args : SUBSET Args]]
      /\ seen'[c].args = {report[c].args}
      /\ \A h \in Gates : h # c => seen'[h] = seen[h]
    BY <1>1, <1>3, GnReadsShape
<1>5. /\ report' \in [Gates -> Reports]
      /\ \A h \in Gates : h # c => report'[h] = report[h]
      /\ report'[c] \in BuildReports /\ report'[c].status = "FAIL"
      /\ report'[c].manifest = report[c].manifest
      /\ report'[c].output = report[c].output /\ report'[c].args = report[c].args
    <2>1. CASE report' = report
        BY <1>1, <1>3, <2>1 DEF TypeOK
    <2>2. CASE report' = [report EXCEPT ![c] = Judged(c, "FAIL", "MATCH")]
        BY <1>1, <1>3, <2>2, JudgedShape
    <2> QED BY <2>1, <2>2
<1>6. TypeOK'
    BY <1>1, <1>4, <1>5, StepShape DEF TypeOK
<1>7. OwnStep(c)
    BY <1>1, <1>4, <1>5, StepShape DEF OwnStep
<1>8. Holding(c)'
    BY <1>1, <1>2 DEF GateInv, SelfInv, Holding, Working, Generating
<1>9. Sound(outputs', report'[c])
    BY <1>3, <1>5 DEF Sound
<1>10. CollectorInv(c)'
    BY <1>1, <1>2, <1>3, <1>4, <1>5, <1>9 DEF CollectorInv, CollectorStages
<1>11. SelfInv(c)'
    BY <1>1, <1>8, <1>10 DEF SelfInv
<1> QED BY <1>1, <1>2, <1>6, <1>7, <1>11, QuietStep

\* A collector that is satisfied has listed the arguments it reports.
LEMMA CollectInv == ASSUME GateInv, NEW c \in Collectors, Collect(c) PROVE GateInv'
<1> USE DEF Collect
<1>1. "write" \in Stages /\ TypeOK /\ c \in Gates /\ c \notin Finishers /\ CollectorInv(c)
    BY KindOfGate DEF Stages, GateInv, SelfInv
<1>2. pc[c] = "recheck" /\ pc'[c] = "write"
    BY <1>1, StepShape
<1>3. /\ report[c] \in BuildReports /\ report[c].gn = "MATCH" /\ Sound(outputs, report[c])
      /\ seen[c].args = {report[c].args}
    BY <1>1, <1>2 DEF CollectorInv
<1>4. /\ report' \in [Gates -> Reports]
      /\ \A h \in Gates : h # c => report'[h] = report[h]
      /\ report'[c] \in BuildReports
      /\ report'[c].status = "INCOMPLETE" /\ report'[c].gn = "MATCH"
      /\ report'[c].manifest = report[c].manifest
      /\ report'[c].output = report[c].output /\ report'[c].args = report[c].args
    BY <1>1, <1>3, JudgedShape
<1>5. TypeOK'
    BY <1>1, <1>4, StepShape DEF TypeOK
<1>6. OwnStep(c)
    BY <1>1, <1>4, StepShape DEF OwnStep
<1>7. Holding(c)'
    BY <1>1, <1>2 DEF GateInv, SelfInv, Holding, Working, Generating
<1>8. Sound(outputs', report'[c])
    BY <1>3, <1>4 DEF Sound
<1>9. CollectorInv(c)'
    BY <1>1, <1>2, <1>3, <1>4, <1>8 DEF CollectorInv, CollectorStages
<1>10. SelfInv(c)'
    BY <1>1, <1>7, <1>9 DEF SelfInv
<1> QED BY <1>1, <1>2, <1>5, <1>6, <1>10, QuietStep

-----------------------------------------------------------------------------
(* The steps of a finisher                                                 *)

\* The build evidence a finisher takes is sound, as every published one is.
LEMMA ReadBuildEvidenceInv ==
    ASSUME GateInv, NEW f \in Finishers, NEW p \in Paths, ReadBuildEvidence(f, p) PROVE GateInv'
<1> DEFINE b == [path |-> p, report |-> files[p].document]
<1> USE DEF ReadBuildEvidence
<1>1. "canonical" \in Stages /\ TypeOK /\ f \in Gates /\ f \notin Collectors /\ FinisherInv(f)
    BY KindOfGate DEF Stages, Checking, GateInv, SelfInv
<1>2. pc[f] = "evidence" /\ pc'[f] = "canonical"
    BY <1>1, StepShape
<1>3. /\ b \in Readings /\ b.path = p /\ b.report = files[p].document
      /\ files[p] # Null /\ b.report \in BuildReports /\ b.report.gn = "MATCH"
    BY DEF Readings
<1>4. Sound(outputs, b.report) /\ b # Null
    BY <1>3, NullAssumption DEF GateInv, PublishedSound
<1>5. build' = [build EXCEPT ![f] = b]
    OBVIOUS
<1> HIDE DEF b
<1>6. /\ build' \in [Finishers -> Optional(Readings)] /\ build'[f] = b
      /\ \A h \in Finishers : h # f => build'[h] = build[h]
    BY <1>1, <1>3, <1>5 DEF TypeOK, Optional
<1>7. TypeOK'
    BY <1>1, <1>6, StepShape DEF TypeOK
<1>8. OwnStep(f)
    BY <1>1, <1>6, StepShape DEF OwnStep
<1>9. Holding(f)'
    BY <1>1, <1>2 DEF GateInv, SelfInv, Holding, Working, Checking
<1>10. FinisherInv(f)'
    BY <1>1, <1>2, <1>3, <1>4, <1>6 DEF FinisherInv, FinisherStages
<1>11. SelfInv(f)'
    BY <1>1, <1>9, <1>10 DEF SelfInv
<1> QED BY <1>1, <1>2, <1>7, <1>8, <1>11, QuietStep

\* A check that passes takes a finisher to its next stage and changes nothing else.
LEMMA CheckPasses ==
    ASSUME GateInv, NEW f \in Finishers, NEW from, NEW to,
           <<from, to>> \in {<<"canonical", "policy">>, <<"policy", "output">>,
                             <<"output", "check">>, <<"recheck", "conclude">>},
           Step(f, from, to), UNCHANGED <<outputs, files, path, target, build, report, seen>>
    PROVE  GateInv'
<1>1. to \in Stages /\ TypeOK /\ f \in Gates /\ f \notin Collectors /\ FinisherInv(f)
    BY KindOfGate DEF Stages, Checking, GateInv, SelfInv
<1>2. pc[f] = from /\ pc'[f] = to
    BY <1>1, StepShape
<1>3. TypeOK'
    BY <1>1, StepShape DEF TypeOK
<1>4. OwnStep(f)
    BY <1>1, StepShape DEF OwnStep
<1>5. Holding(f)'
    BY <1>1, <1>2 DEF GateInv, SelfInv, Holding, Working, Checking, Generating
<1>6. FinisherInv(f)'
    BY <1>1, <1>2 DEF FinisherInv, FinisherStages
<1>7. SelfInv(f)'
    BY <1>1, <1>5, <1>6 DEF SelfInv
<1> QED BY <1>1, <1>2, <1>3, <1>4, <1>7, QuietStep

\* GN reads the arguments of the build evidence again.
LEMMA FinisherReads ==
    ASSUME GateInv, NEW f \in Finishers, NEW from, NEW to,
           <<from, to>> \in {<<"list", "graph">>, <<"graph", "recheck">>},
           Step(f, from, to), GnReads(f, build[f].report.output),
           UNCHANGED <<outputs, files, path, target, build, report>>
    PROVE  GateInv'
<1>1. to \in Stages /\ TypeOK /\ f \in Gates /\ f \notin Collectors /\ FinisherInv(f)
    BY KindOfGate DEF Stages, Generating, GateInv, SelfInv
<1>2. pc[f] = from /\ pc'[f] = to
    BY <1>1, StepShape
<1>3. /\ build[f] # Null /\ build[f].report.output \in Outputs
      /\ outputs[build[f].report.output] = Output(build[f].report.args)
      /\ build[f].report.args \in Args
      /\ seen[f].args = {} \/ seen[f].args = {build[f].report.args}
    BY <1>1, <1>2, ArgsOfType DEF FinisherInv, Sound
<1>4. /\ seen' \in [Gates -> [trees : SUBSET Versions, args : SUBSET Args]]
      /\ seen'[f].args = {build[f].report.args}
      /\ \A h \in Gates : h # f => seen'[h] = seen[h]
    BY <1>1, <1>3, GnReadsShape
<1>5. TypeOK'
    BY <1>1, <1>4, StepShape DEF TypeOK
<1>6. OwnStep(f)
    BY <1>1, <1>4, StepShape DEF OwnStep
<1>7. Holding(f)'
    BY <1>1, <1>2 DEF GateInv, SelfInv, Holding, Working, Checking, Generating
<1>8. FinisherInv(f)'
    BY <1>1, <1>2, <1>4 DEF FinisherInv, FinisherStages
<1>9. SelfInv(f)'
    BY <1>1, <1>7, <1>8 DEF SelfInv
<1> QED BY <1>1, <1>2, <1>5, <1>6, <1>9, QuietStep

\* A PASS names the build report it examined.
LEMMA PassInv ==
    ASSUME GateInv, NEW f \in Finishers, NEW from, NEW to, NEW failure \in BOOLEAN,
           <<from, to>> \in {<<"conclude", "companions">>, <<"companions", "write">>},
           Step(f, from, to),
           report' = [report EXCEPT ![f] = FinalReport("PASS", build[f].report, failure)],
           UNCHANGED <<outputs, files, path, target, build, seen>>
    PROVE  GateInv'
<1> DEFINE r == FinalReport("PASS", build[f].report, failure)
<1>1. to \in Stages /\ TypeOK /\ f \in Gates /\ f \notin Collectors /\ FinisherInv(f)
    BY KindOfGate DEF Stages, GateInv, SelfInv
<1>2. pc[f] = from /\ pc'[f] = to
    BY <1>1, StepShape
<1>3. /\ build[f] # Null /\ build[f].report \in BuildReports
      /\ seen[f].args = {build[f].report.args}
    BY <1>1, <1>2 DEF FinisherInv
<1>4. r \in FinalReports /\ r.status = "PASS" /\ r.build = build[f].report
    BY <1>3, FinalReportType DEF Optional, FinalReport
<1> HIDE DEF r
<1>5. /\ report' \in [Gates -> Reports] /\ report'[f] = r
      /\ \A h \in Gates : h # f => report'[h] = report[h]
    BY <1>1, <1>4 DEF TypeOK, Reports, r
<1>6. TypeOK'
    BY <1>1, <1>5, StepShape DEF TypeOK
<1>7. OwnStep(f)
    BY <1>1, <1>5, StepShape DEF OwnStep
<1>8. Holding(f)'
    BY <1>1, <1>2 DEF GateInv, SelfInv, Holding, Working, Checking, Generating
<1>9. FinisherInv(f)'
    BY <1>1, <1>2, <1>3, <1>4, <1>5 DEF FinisherInv, FinisherStages
<1>10. SelfInv(f)'
    BY <1>1, <1>8, <1>9 DEF SelfInv
<1> QED BY <1>1, <1>2, <1>6, <1>7, <1>10, QuietStep

\* The evidence named is the evidence examined, since its path is never rewritten.
LEMMA ConcludeInv == ASSUME GateInv, NEW f \in Finishers, Conclude(f) PROVE GateInv'
<1>1. TypeOK /\ f \in Gates /\ FinisherInv(f) /\ "companions" \in Stages
    BY KindOfGate DEF Stages, GateInv, SelfInv
<1>2. pc[f] = "conclude"
    BY <1>1, StepShape DEF Conclude
<1>3. files[build[f].path].document = build[f].report
    BY <1>1, <1>2 DEF FinisherInv
<1> QED BY <1>3, PassInv DEF Conclude

\* The companions change nothing of what a PASS names.
LEMMA WriteCompanionsInv == ASSUME GateInv, NEW f \in Finishers, WriteCompanions(f) PROVE GateInv'
<1>1. TypeOK /\ f \in Gates /\ FinisherInv(f) /\ "write" \in Stages
    BY KindOfGate DEF Stages, GateInv, SelfInv
<1>2. pc[f] = "companions"
    BY <1>1, StepShape DEF WriteCompanions
<1>3. report[f].build = build[f].report
    BY <1>1, <1>2 DEF FinisherInv
<1>4. PICK failed \in BOOLEAN :
          report' = [report EXCEPT ![f] = FinalReport("PASS", report[f].build, failed)]
    BY DEF WriteCompanions
<1> QED BY <1>3, <1>4, PassInv DEF WriteCompanions

-----------------------------------------------------------------------------
(* The invariant                                                           *)

\* People change the tree and the policy, of which the invariant says nothing.
LEMMA AsideInv ==
    ASSUME GateInv, Aside, tree' \in Versions, manifest' \in Versions, series' \in Versions,
           restored' \in BOOLEAN
    PROVE  GateInv'
<1>1. TypeOK'
    BY DEF GateInv, TypeOK, Aside
<1>2. \A g \in Gates : SelfInv(g)'
    BY DEF GateInv, SelfInv, Holding, CollectorInv, FinisherInv, Aside
<1>3. MakersDiffer' /\ PublishedSound'
    BY DEF GateInv, MakersDiffer, PublishedSound, Aside
<1> QED BY <1>1, <1>2, <1>3 DEF GateInv

\* The edits stay within the versions of the model.
LEMMA EditsInv ==
    ASSUME GateInv, EditTree \/ RestoreTree \/ EditManifest \/ EditSeries PROVE GateInv'
<1>1. /\ tree \in Versions /\ manifest \in Versions /\ series \in Versions
      /\ restored \in BOOLEAN /\ Recorded \in Versions
    BY GatesAssumption DEF GateInv, TypeOK, Versions, Recorded
<1>2. \A v \in Versions : v < MaxEdits => v + 1 \in Versions
    BY GatesAssumption DEF Versions
<1> QED BY <1>1, <1>2, AsideInv DEF EditTree, RestoreTree, EditManifest, EditSeries

\* Every step keeps the invariant.
LEMMA NextInv == GateInv /\ [Next]_vars => GateInv'
<1> SUFFICES ASSUME GateInv, [Next]_vars PROVE GateInv'
    OBVIOUS
<1>1. ASSUME NEW g \in Gates, Gate(g) PROVE GateInv'
    BY <1>1, OpenInv, OpenFailsInv, FirstCheckInv, FailsInv, WriteInv, CrashInv DEF Gate
<1>2. ASSUME NEW c \in Collectors, Collector(c) PROVE GateInv'
    BY <1>2, LoadInputsInv, ReuseOutputInv, MakeOutputInv, WriteArgsInv, GenerateInv,
       ListArgumentsInv, CollectInv DEF Collector
<1>3. ASSUME NEW f \in Finishers, Finisher(f) PROVE GateInv'
    <2>1. CASE \E p \in Paths : ReadBuildEvidence(f, p)
        BY <2>1, ReadBuildEvidenceInv
    <2>2. CASE CheckSeries(f) \/ CheckManifest(f) \/ CheckOutput(f) \/ Recheck(f)
        BY <2>2, CheckPasses DEF CheckSeries, CheckManifest, CheckOutput, Recheck
    <2>3. CASE CompareCurrent(f) \/ InspectGraph(f)
        BY <2>3, FinisherReads DEF CompareCurrent, InspectGraph
    <2>4. CASE Conclude(f) \/ WriteCompanions(f)
        BY <2>4, ConcludeInv, WriteCompanionsInv
    <2> QED BY <1>3, <2>1, <2>2, <2>3, <2>4 DEF Finisher
<1>4. CASE UNCHANGED vars
    <2>1. Aside /\ UNCHANGED <<tree, restored, manifest, series>>
        BY <1>4 DEF vars, Aside
    <2> QED BY <2>1, AsideInv DEF GateInv, TypeOK
<1> QED BY <1>1, <1>2, <1>3, <1>4, EditsInv DEF Next

-----------------------------------------------------------------------------
(* What the gates promise                                                  *)

\* The invariant holds throughout.
LEMMA Invariance == Spec => []GateInv
BY InitInv, NextInv, PTL DEF Spec

\* Every variable keeps its type.
THEOREM TypeCorrect == Spec => []TypeOK
<1>1. GateInv => TypeOK
    BY DEF GateInv
<1> QED BY <1>1, Invariance, PTL

\* A collector that says INCOMPLETE reports the arguments GN worked with, those
\* of the manifest it names (verify_build_policy.py, GnGen and GnArgsList).
THEOREM ReportedArgsAreRead == Spec => []ReportedArgsWereRead
<1>1. GateInv => ReportedArgsWereRead
    <2> SUFFICES ASSUME GateInv, NEW c \in Collectors, c \in Successful
                 PROVE  seen[c].args = {report[c].args} /\ report[c].args = ArgsOf[report[c].manifest]
        BY DEF ReportedArgsWereRead
    <2>1. CollectorInv(c) /\ report[c].status \in {"INCOMPLETE", "PASS"}
        BY KindOfGate DEF GateInv, SelfInv, Successful
    <2>2. report[c].status = "INCOMPLETE"
        BY <2>1, BuildReportFields DEF CollectorInv
    <2> QED BY <2>1, <2>2 DEF CollectorInv, Sound
<1> QED BY <1>1, Invariance, PTL

\* A PASS names the build report it examined, that is still where it was read,
\* and GN has listed its arguments again (verify_foundation_1b.py, Verify).
THEOREM PassHasItsBuild == Spec => []PassStandsOnBuild
<1>1. GateInv => PassStandsOnBuild
    <2> SUFFICES ASSUME GateInv, NEW f \in Finishers, f \in Successful
                 PROVE  /\ report[f].build = build[f].report
                        /\ files[build[f].path].document = build[f].report
                        /\ build[f].report.gn = "MATCH"
                        /\ seen[f].args = {ArgsOf[build[f].report.manifest]}
        BY DEF PassStandsOnBuild
    <2>1. FinisherInv(f) /\ report[f].status \in {"INCOMPLETE", "PASS"}
        BY KindOfGate DEF GateInv, SelfInv, Successful
    <2>2. report[f].status = "PASS"
        BY <2>1, FinalReportFields DEF FinisherInv
    <2> QED BY <2>1, <2>2 DEF FinisherInv, Sound
<1> QED BY <1>1, Invariance, PTL

\* No output that exists is changed, but for the args.gn its maker gives it once.
THEOREM OutputsWrittenOnce == Spec => ArgsWrittenOnce
<1> DEFINE Once ==
        \A o \in Outputs : outputs[o] # Null =>
            outputs'[o] = outputs[o] \/ (outputs[o] = Output(Null) /\ outputs'[o] # Null)
<1>1. ASSUME GateInv, Next PROVE Once
    <2>1. CASE outputs' = outputs
        BY <2>1
    <2>2. ASSUME NEW c \in Collectors, NEW o \in Outputs, MakeOutput(c, o) PROVE Once
        <3>1. \A u \in Outputs : u # o => outputs'[u] = outputs[u]
            BY <2>2 DEF MakeOutput, GateInv, TypeOK
        <3> QED BY <2>2, <3>1 DEF MakeOutput
    <2>3. ASSUME NEW c \in Collectors, WriteArgs(c) PROVE Once
        <3>0. c \in Gates /\ pc[c] = "args"
            BY <2>3, KindOfGate DEF WriteArgs, Step
        <3>1. TypeOK /\ CollectorInv(c)
            BY <1>1, <3>0 DEF GateInv, SelfInv
        <3>2. /\ target[c] \in Outputs /\ outputs[target[c]] = Output(Null)
              /\ ArgsOf[report[c].manifest] \in Optional(Args)
            BY <3>0, <3>1, ArgsOfType DEF CollectorInv, Optional
        <3>3. /\ outputs'[target[c]] = Output(ArgsOf[report[c].manifest])
              /\ \A u \in Outputs : u # target[c] => outputs'[u] = outputs[u]
            BY <2>3, <3>1, <3>2 DEF WriteArgs, TypeOK
        <3> QED BY <3>2, <3>3, OutputNotNull
    <2>4. ASSUME NEW g \in Gates, Gate(g) PROVE outputs' = outputs
        BY <2>4 DEF Gate, Open, Opened, OpenFails, FirstCheck, Fails, Write, Crash
    <2>5. ASSUME NEW c \in Collectors, Collector(c) PROVE Once
        BY <2>1, <2>2, <2>3, <2>5 DEF Collector, LoadInputs, ReuseOutput, Generate,
           ListArguments, Collect
    <2>6. ASSUME NEW f \in Finishers, Finisher(f) PROVE outputs' = outputs
        BY <2>6 DEF Finisher, ReadBuildEvidence, CheckSeries, CheckManifest, CheckOutput,
           CompareCurrent, InspectGraph, Recheck, Conclude, WriteCompanions
    <2>7. ASSUME EditTree \/ RestoreTree \/ EditManifest \/ EditSeries PROVE outputs' = outputs
        BY <2>7 DEF EditTree, RestoreTree, EditManifest, EditSeries, Aside
    <2> QED BY <1>1, <2>1, <2>4, <2>5, <2>6, <2>7 DEF Next
<1>2. GateInv /\ [Next]_vars => [Once]_vars
    BY <1>1
<1>3. Spec => [][Once]_vars
    BY <1>2, Invariance, PTL DEF Spec
<1> QED BY <1>3 DEF ArgsWrittenOnce

\* The gates keep their evidence the way an evidence store does: opening a file
\* claims its path, writing it publishes the report, and no other step touches it.
THEOREM GatesImplementEvidenceStore == Spec => ImplementsEvidenceStore
<1>1. Init => Store!Init
    BY DEF Init, Store!Init
<1>2. ASSUME GateInv, Next PROVE Store!Next \/ files' = files
    <2>1. ASSUME NEW g \in Gates, NEW p \in Paths, Open(g, p) PROVE Store!Next
        <3>1. Store!Claim(g, p)
            BY <2>1 DEF Open, Opened, Store!Claim, File, Store!File
        <3> QED BY <3>1 DEF Store!Next
    <2>2. ASSUME NEW g \in Gates, Write(g) PROVE Store!Next
        <3>0. pc[g] = "write"
            BY <2>2 DEF Write, Step
        <3>1. TypeOK /\ Holding(g)
            BY <1>2 DEF GateInv, SelfInv
        <3>2. path[g] \in Paths /\ files[path[g]] = File(g, Null) /\ report[g] \in Reports
            BY <3>0, <3>1 DEF Holding, Working, TypeOK
        <3>3. files'[path[g]] = File(g, report[g])
            BY <2>2, <3>1, <3>2 DEF Write, TypeOK
        <3>4. Store!Publish(g, path[g])
            <4>1. files[path[g]] = Store!File(g, Null)
                BY <3>2 DEF File, Store!File
            <4>2. files'[path[g]].document = report[g]
                BY <3>3 DEF File
            <4>3. files' = [files EXCEPT ![path[g]] = Store!File(g, report[g])]
                BY <2>2 DEF Write, File, Store!File
            <4> QED BY <3>2, <4>1, <4>2, <4>3 DEF Store!Publish
        <3> QED BY <3>2, <3>4 DEF Store!Next
    <2>3. ASSUME NEW g \in Gates, Gate(g) PROVE Store!Next \/ files' = files
        BY <2>1, <2>2, <2>3 DEF Gate, OpenFails, FirstCheck, Fails, Crash
    <2>4. ASSUME NEW c \in Collectors, Collector(c) PROVE files' = files
        BY <2>4 DEF Collector, LoadInputs, ReuseOutput, MakeOutput, WriteArgs, Generate,
           ListArguments, Collect
    <2>5. ASSUME NEW f \in Finishers, Finisher(f) PROVE files' = files
        BY <2>5 DEF Finisher, ReadBuildEvidence, CheckSeries, CheckManifest, CheckOutput,
           CompareCurrent, InspectGraph, Recheck, Conclude, WriteCompanions
    <2>6. ASSUME EditTree \/ RestoreTree \/ EditManifest \/ EditSeries PROVE files' = files
        BY <2>6 DEF EditTree, RestoreTree, EditManifest, EditSeries, Aside
    <2> QED BY <1>2, <2>3, <2>4, <2>5, <2>6 DEF Next
<1>3. GateInv /\ [Next]_vars => [Store!Next]_files
    BY <1>2 DEF vars
<1>4. Spec => Store!Spec
    BY <1>1, <1>3, Invariance, PTL DEF Spec, Store!Spec
<1> QED BY <1>4 DEF ImplementsEvidenceStore

StoreFacts == INSTANCE EvidenceStoreProofs WITH Writers <- Gates, Documents <- Reports

\* A report once written is never replaced or removed, nor is the empty file a
\* gate left when it died: later gates with that path are refused.
THEOREM ReportsAreFinal ==
    Spec => [][\A p \in Paths : files[p] # Null =>
                  /\ files'[p] # Null /\ files'[p].by = files[p].by
                  /\ files[p].document # Null => files'[p] = files[p]]_files
<1>1. StoreFacts!NullIsNothing
    <2>1. ASSUME NEW g \in Gates, NEW document \in Reports \cup {Null}
          PROVE  StoreFacts!File(g, document) \in EvidenceFiles
        BY <2>1 DEF StoreFacts!File, EvidenceFiles, Optional
    <2> QED BY <2>1, NullAssumption DEF StoreFacts!NullIsNothing
<1>2. StoreFacts!Spec => [][StoreFacts!KeepsEvidence]_files
    BY <1>1, StoreFacts!EvidenceIsFinal
<1>3. Spec => StoreFacts!Spec
    BY GatesImplementEvidenceStore DEF ImplementsEvidenceStore, Store!Spec, StoreFacts!Spec,
       Store!Init, StoreFacts!Init, Store!Next, StoreFacts!Next, Store!Claim, StoreFacts!Claim,
       Store!Publish, StoreFacts!Publish, Store!File, StoreFacts!File
<1> QED BY <1>2, <1>3, PTL DEF StoreFacts!KeepsEvidence

-----------------------------------------------------------------------------
(* The tree GN has read                                                    *)

\* The stages at which GN has read the tree for g.
HasRead(g) == pc[g] \in {"graph", "recheck"} \/ (g \in Collectors /\ pc[g] = "list")

\* While the tree is as it was integrated and nobody has put it back, it always was.
TreeSelf(g) ==
    /\ tree = Recorded => seen[g].trees \subseteq {Recorded}
    /\ HasRead(g) => seen[g].trees # {}
    /\ pc[g] \in {"conclude", "companions"} => seen[g].trees = {Recorded}
    /\ g \in Successful => seen[g].trees = {Recorded}

TreeInv == restored \/ \A g \in Gates : TreeSelf(g)

\* A step of g: the tree is left as it is, and so are the other gates.
Alone(g) ==
    /\ tree' = tree /\ restored' = restored
    /\ \A h \in Gates : h # g => pc'[h] = pc[h] /\ report'[h] = report[h] /\ seen'[h] = seen[h]

\* Then only g's own part of the invariant is to be shown.
LEMMA TreeOthers ==
    ASSUME TreeInv, NEW g \in Gates, Alone(g), ~ restored => TreeSelf(g)'
    PROVE  TreeInv'
<1> SUFFICES ASSUME ~ restored, NEW h \in Gates, h # g PROVE TreeSelf(h)'
    BY DEF TreeInv, Alone
<1>1. TreeSelf(h)
    BY DEF TreeInv
<1>2. pc'[h] = pc[h] /\ report'[h] = report[h] /\ seen'[h] = seen[h] /\ tree' = tree
    BY DEF Alone
<1> QED BY <1>1, <1>2 DEF TreeSelf, HasRead, Successful

\* A step without GN that claims no success.
LEMMA TreeQuiet ==
    ASSUME TreeInv, NEW g \in Gates, Alone(g), seen' = seen,
           report'[g].status = report[g].status \/ report'[g].status = "FAIL",
           ~ HasRead(g)', pc'[g] \notin {"conclude", "companions"}
    PROVE  TreeInv'
<1>1. ASSUME ~ restored PROVE TreeSelf(g)'
    BY <1>1 DEF TreeInv, TreeSelf, Successful, Alone
<1> QED BY <1>1, TreeOthers

\* The updates of a step of g are of its own entries.
LEMMA UpdatesAlone ==
    ASSUME TypeOK, NEW g \in Gates, NEW r, NEW s, NEW from, NEW to \in Stages, Step(g, from, to),
           report' = report \/ report' = [report EXCEPT ![g] = r],
           seen' = seen \/ seen' = [seen EXCEPT ![g] = s]
    PROVE  Alone(g) /\ pc[g] = from /\ pc'[g] = to
BY StepShape DEF Alone, TypeOK

\* Nothing has been read at first.
LEMMA InitTree == Init => TreeInv
<1> SUFFICES ASSUME Init, NEW g \in Gates PROVE TreeSelf(g)
    BY DEF TreeInv
<1>1. pc[g] = "open" /\ seen[g].trees = {}
    BY DEF Init, Seen
<1>2. report[g].status = "FAIL"
    BY DEF Init, FirstReport, BuildReport, FinalReport
<1> QED BY <1>1, <1>2 DEF TreeSelf, HasRead, Successful

\* What both gates do runs no GN and claims no success.
LEMMA TreeGate == ASSUME GateInv, TreeInv, NEW g \in Gates, Gate(g) PROVE TreeInv'
<1>1. TypeOK
    BY DEF GateInv
<1>2. /\ "inputs" \in Stages /\ "evidence" \in Stages /\ "done" \in Stages
      /\ "prepare" \in Stages /\ "list" \in Stages /\ "write" \in Stages /\ "dead" \in Stages
    BY DEF Stages, Checking, Generating
<1>3. ASSUME NEW p \in Paths, Open(g, p) PROVE TreeInv'
    <2>1. CASE g \in Collectors
        <3>1. Step(g, "open", "inputs") /\ report' = report /\ seen' = seen
            BY <1>3, <2>1 DEF Open, Opened
        <3>2. Alone(g) /\ pc'[g] = "inputs"
            BY <1>1, <1>2, <3>1, UpdatesAlone
        <3> QED BY <3>1, <3>2, TreeQuiet DEF HasRead
    <2>2. CASE g \notin Collectors
        <3>1. Step(g, "open", "evidence") /\ report' = report /\ seen' = seen
            BY <1>3, <2>2 DEF Open, Opened
        <3>2. Alone(g) /\ pc'[g] = "evidence"
            BY <1>1, <1>2, <3>1, UpdatesAlone
        <3> QED BY <3>1, <3>2, TreeQuiet DEF HasRead
    <2> QED BY <2>1, <2>2
<1>4. ASSUME OpenFails(g) \/ Write(g) \/ Crash(g) PROVE TreeInv'
    <2>1. report' = report /\ seen' = seen
        BY <1>4 DEF OpenFails, Write, Crash
    <2>2. \E from : Step(g, from, "done") \/ Step(g, from, "dead")
        BY <1>4 DEF OpenFails, Write, Crash
    <2>3. Alone(g) /\ pc'[g] \in {"done", "dead"}
        BY <1>1, <1>2, <2>1, <2>2, UpdatesAlone
    <2> QED BY <2>1, <2>3, TreeQuiet DEF HasRead
<1>5. ASSUME FirstCheck(g) PROVE TreeInv'
    <2>1. report' = report /\ seen' = seen
        BY <1>5 DEF FirstCheck
    <2>2. CASE g \in Collectors
        <3>1. Step(g, "check", "prepare")
            BY <1>5, <2>2 DEF FirstCheck
        <3>2. Alone(g) /\ pc'[g] = "prepare"
            BY <1>1, <1>2, <2>1, <3>1, UpdatesAlone
        <3> QED BY <2>1, <3>2, TreeQuiet DEF HasRead
    <2>3. CASE g \notin Collectors
        <3>1. Step(g, "check", "list")
            BY <1>5, <2>3 DEF FirstCheck
        <3>2. Alone(g) /\ pc'[g] = "list"
            BY <1>1, <1>2, <2>1, <3>1, UpdatesAlone
        <3> QED BY <2>1, <2>3, <3>2, TreeQuiet DEF HasRead
    <2> QED BY <2>2, <2>3
<1>6. ASSUME Fails(g) PROVE TreeInv'
    <2>1. PICK stage : Step(g, stage, "write")
        BY <1>6 DEF Fails
    <2>2. seen' = seen
        BY <1>6 DEF Fails
    <2>3. report' = report \/ report' = [report EXCEPT ![g] = FinalReport("FAIL", Null, TRUE)]
        BY <1>6 DEF Fails
    <2>4. Alone(g) /\ pc'[g] = "write"
        BY <1>1, <1>2, <2>1, <2>2, <2>3, UpdatesAlone
    <2>5. report'[g].status = report[g].status \/ report'[g].status = "FAIL"
        BY <1>1, <2>3 DEF TypeOK, FinalReport
    <2> QED BY <2>2, <2>4, <2>5, TreeQuiet DEF HasRead
<1> QED BY <1>3, <1>4, <1>5, <1>6 DEF Gate

-----------------------------------------------------------------------------
(* The tree, and the steps of collectors and finishers                     *)

\* GN adds the tree as it is to what a gate has read, before that gate succeeds.
LEMMA TreeReads ==
    ASSUME GateInv, TreeInv, NEW g \in Gates, NEW o, NEW from, NEW to \in Stages,
           Step(g, from, to), GnReads(g, o), g \notin Successful,
           report' = report \/ (\E r : r.status = "FAIL" /\ report' = [report EXCEPT ![g] = r]),
           to \notin {"conclude", "companions"}
    PROVE  TreeInv'
<1>1. TypeOK
    BY DEF GateInv
<1>2. Alone(g) /\ pc'[g] = to
    <2>1. \E r : report' = report \/ report' = [report EXCEPT ![g] = r]
        OBVIOUS
    <2>2. \E s : seen' = [seen EXCEPT ![g] = s]
        BY DEF GnReads
    <2> QED BY <1>1, <2>1, <2>2, UpdatesAlone
<1>3. seen'[g].trees = seen[g].trees \cup {tree}
    <2>1. seen'[g] = Seen(seen[g].trees \cup {tree}, seen[g].args \cup {outputs[o].args})
        BY <1>1 DEF GnReads, TypeOK
    <2> QED BY <2>1 DEF Seen
<1>4. g \notin Successful'
    BY <1>1 DEF Successful, TypeOK
<1>5. ASSUME ~ restored PROVE TreeSelf(g)'
    BY <1>2, <1>3, <1>4, <1>5 DEF TreeInv, TreeSelf, Alone
<1> QED BY <1>2, <1>5, TreeOthers

\* A collector succeeds only when it finds the tree as it was, GN having read it.
LEMMA TreeCollector ==
    ASSUME GateInv, TreeInv, NEW c \in Collectors, Collector(c) PROVE TreeInv'
<1>1. TypeOK /\ c \in Gates /\ CollectorInv(c)
    BY KindOfGate DEF GateInv, SelfInv
<1>2. /\ "check" \in Stages /\ "gen" \in Stages /\ "args" \in Stages /\ "list" \in Stages
      /\ "recheck" \in Stages /\ "write" \in Stages
    BY DEF Stages, Checking, Generating
<1>3. ASSUME NEW from, NEW to \in {"check", "args", "gen"}, Step(c, from, to), seen' = seen,
             NEW r, r.status = "FAIL",
             report' = report \/ report' = [report EXCEPT ![c] = r]
      PROVE  TreeInv'
    <2>1. Alone(c) /\ pc'[c] = to
        BY <1>1, <1>2, <1>3, UpdatesAlone
    <2>2. report'[c].status = report[c].status \/ report'[c].status = "FAIL"
        BY <1>1, <1>3 DEF TypeOK
    <2> QED BY <1>1, <1>3, <2>1, <2>2, TreeQuiet DEF HasRead
<1>4. \A m, o, a, gn : BuildReport("FAIL", gn, m, o, a).status = "FAIL"
    BY DEF BuildReport
<1>5. CASE LoadInputs(c)
    BY <1>3, <1>4, <1>5 DEF LoadInputs
<1>6. ASSUME NEW o, Prepared(c, o), Step(c, "prepare", "gen") \/ Step(c, "args", "gen"),
             seen' = seen
      PROVE  TreeInv'
    <2> DEFINE m == report[c].manifest
               r == BuildReport("FAIL", "FAIL", m, o, ArgsOf[m])
    <2>1. r.status = "FAIL" /\ report' = [report EXCEPT ![c] = r]
        BY <1>4, <1>6 DEF Prepared
    <2> HIDE DEF r
    <2> QED BY <1>3, <1>6, <2>1
<1>7. ASSUME NEW o \in Outputs, MakeOutput(c, o) PROVE TreeInv'
    BY <1>3, <1>4, <1>7 DEF MakeOutput
<1>8. CASE WriteArgs(c)
    BY <1>6, <1>8 DEF WriteArgs
<1>9. pc[c] \in {"gen", "list"} => c \notin Successful
    <2>1. pc[c] \in {"gen", "list"} => report[c].status = "FAIL"
        BY <1>1, BuildReportFields DEF CollectorInv
    <2> QED BY <2>1 DEF Successful
<1>10. CASE Generate(c)
    <2>1. Step(c, "gen", "list") /\ GnReads(c, target[c]) /\ report' = report
        BY <1>10 DEF Generate
    <2>2. c \notin Successful
        BY <1>9, <2>1 DEF Step
    <2> QED BY <1>1, <1>2, <2>1, <2>2, TreeReads
<1>11. CASE ListArguments(c)
    <2>1. Step(c, "list", "recheck") /\ GnReads(c, target[c])
        BY <1>11 DEF ListArguments
    <2>2. report' = report \/ (\E r : r.status = "FAIL" /\ report' = [report EXCEPT ![c] = r])
        BY <1>4, <1>11 DEF ListArguments, Judged
    <2>3. c \notin Successful
        BY <1>9, <2>1 DEF Step
    <2> QED BY <1>1, <1>2, <2>1, <2>2, <2>3, TreeReads
<1>12. CASE Collect(c)
    <2>1. Step(c, "recheck", "write") /\ tree = Recorded /\ seen' = seen
        BY <1>12 DEF Collect
    <2>2. report' = [report EXCEPT ![c] = Judged(c, "INCOMPLETE", "MATCH")]
        BY <1>12 DEF Collect
    <2>3. Alone(c) /\ pc[c] = "recheck" /\ pc'[c] = "write"
        BY <1>1, <1>2, <2>1, <2>2, UpdatesAlone
    <2>4. ASSUME ~ restored PROVE TreeSelf(c)'
        <3>1. seen[c].trees = {Recorded}
            BY <1>1, <2>1, <2>3, <2>4 DEF TreeInv, TreeSelf, HasRead
        <3> QED BY <2>1, <2>3, <3>1 DEF TreeSelf, HasRead
    <2> QED BY <1>1, <2>3, <2>4, TreeOthers
<1> QED BY <1>5, <1>6, <1>7, <1>8, <1>10, <1>11, <1>12 DEF Collector, ReuseOutput

-----------------------------------------------------------------------------
(* The tree, and the steps of finishers and of people                      *)

\* A finisher concludes only when it finds the tree as it was, GN having read it.
LEMMA TreeFinisher ==
    ASSUME GateInv, TreeInv, NEW f \in Finishers, Finisher(f) PROVE TreeInv'
<1>1. TypeOK /\ f \in Gates /\ f \notin Collectors /\ FinisherInv(f)
    BY KindOfGate DEF GateInv, SelfInv
<1>2. /\ "canonical" \in Stages /\ "policy" \in Stages /\ "output" \in Stages
      /\ "check" \in Stages /\ "graph" \in Stages /\ "recheck" \in Stages
      /\ "conclude" \in Stages /\ "companions" \in Stages /\ "write" \in Stages
    BY DEF Stages, Checking, Generating
<1>3. ASSUME NEW from, NEW to \in {"canonical", "policy", "output", "check"},
             Step(f, from, to), report' = report, seen' = seen
      PROVE  TreeInv'
    <2>1. Alone(f) /\ pc'[f] = to
        BY <1>1, <1>2, <1>3, UpdatesAlone
    <2> QED BY <1>1, <1>3, <2>1, TreeQuiet DEF HasRead
<1>4. pc[f] \notin {"companions", "write", "done", "dead"} => f \notin Successful
    <2>1. pc[f] \notin {"companions", "write", "done", "dead"} => report[f].status = "FAIL"
        BY <1>1, FinalReportFields DEF FinisherInv
    <2> QED BY <2>1 DEF Successful
<1>5. CASE \E p \in Paths : ReadBuildEvidence(f, p)
    BY <1>3, <1>5 DEF ReadBuildEvidence
<1>6. CASE CheckSeries(f) \/ CheckManifest(f) \/ CheckOutput(f)
    BY <1>3, <1>6 DEF CheckSeries, CheckManifest, CheckOutput
<1>7. CASE CompareCurrent(f) \/ InspectGraph(f)
    <2>1. /\ Step(f, "list", "graph") \/ Step(f, "graph", "recheck")
          /\ GnReads(f, build[f].report.output) /\ report' = report
        BY <1>7 DEF CompareCurrent, InspectGraph
    <2>2. f \notin Successful
        BY <1>4, <2>1 DEF Step
    <2> QED BY <1>1, <1>2, <2>1, <2>2, TreeReads
<1>8. CASE Recheck(f)
    <2>1. /\ Step(f, "recheck", "conclude") /\ tree = Recorded
          /\ seen' = seen /\ report' = report
        BY <1>8 DEF Recheck
    <2>2. Alone(f) /\ pc[f] = "recheck" /\ pc'[f] = "conclude"
        BY <1>1, <1>2, <2>1, UpdatesAlone
    <2>3. ASSUME ~ restored PROVE TreeSelf(f)'
        <3>1. seen[f].trees = {Recorded}
            BY <1>1, <2>1, <2>2, <2>3 DEF TreeInv, TreeSelf, HasRead
        <3> QED BY <1>1, <2>1, <2>2, <3>1 DEF TreeSelf, HasRead
    <2> QED BY <1>1, <2>2, <2>3, TreeOthers
<1>9. CASE Conclude(f) \/ WriteCompanions(f)
    <2>1. /\ Step(f, "conclude", "companions") \/ Step(f, "companions", "write")
          /\ seen' = seen /\ (\E r : report' = [report EXCEPT ![f] = r])
        BY <1>9 DEF Conclude, WriteCompanions
    <2>2. /\ Alone(f) /\ pc[f] \in {"conclude", "companions"}
          /\ pc'[f] \in {"companions", "write"}
        BY <1>1, <1>2, <2>1, UpdatesAlone
    <2>3. ASSUME ~ restored PROVE TreeSelf(f)'
        <3>1. seen[f].trees = {Recorded}
            BY <1>1, <2>2, <2>3 DEF TreeInv, TreeSelf
        <3> QED BY <1>1, <2>1, <2>2, <3>1 DEF TreeSelf, HasRead
    <2> QED BY <1>1, <2>2, <2>3, TreeOthers
<1> QED BY <1>5, <1>6, <1>7, <1>8, <1>9 DEF Finisher

\* An edit leaves the tree other than it was; putting it back is known.
LEMMA TreeEdits ==
    ASSUME GateInv, TreeInv, EditTree \/ RestoreTree \/ EditManifest \/ EditSeries
    PROVE  TreeInv'
<1>1. CASE EditTree
    <2>1. tree \in Nat
        BY GatesAssumption DEF GateInv, TypeOK, Versions
    <2>2. tree' # Recorded
        BY <1>1, <2>1 DEF EditTree, Recorded
    <2> QED BY <1>1, <2>2 DEF EditTree, Aside, TreeInv, TreeSelf, HasRead, Successful
<1>2. CASE RestoreTree
    BY <1>2 DEF RestoreTree, TreeInv
<1>3. CASE EditManifest \/ EditSeries
    BY <1>3 DEF EditManifest, EditSeries, Aside, TreeInv, TreeSelf, HasRead, Successful
<1> QED BY <1>1, <1>2, <1>3

\* Every step keeps what is known of the trees.
LEMMA NextTree == GateInv /\ TreeInv /\ [Next]_vars => TreeInv'
<1>1. CASE UNCHANGED vars
    BY <1>1 DEF vars, TreeInv, TreeSelf, HasRead, Successful
<1>2. CASE Next
    BY <1>2, TreeGate, TreeCollector, TreeFinisher, TreeEdits DEF Next
<1> QED BY <1>1, <1>2

\* A gate succeeds only when all that GN read for it was the tree that was
\* integrated, unless somebody put an edited tree back in between: the checks
\* before and after GN suffice (CheckIntegration and its second call).
THEOREM GnReadTheIntegration == Spec => []GnSawIntegration
<1>1. TreeInv => GnSawIntegration
    BY DEF TreeInv, TreeSelf, GnSawIntegration, Successful
<1> QED BY <1>1, InitTree, NextTree, Invariance, PTL DEF Spec
=============================================================================
