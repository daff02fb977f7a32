----------------------- MODULE CandidateDetectorProofs ----------------------
(***************************************************************************)
(* Proofs about CandidateDetector, for any number of detectors, any        *)
(* revisions and any bounds.                                               *)
(*                                                                         *)
(* TypeOK is not inductive: the document a poll writes is made of its      *)
(* local variables, so what a poll holds at each step (PollOK) has to be   *)
(* carried along.  With the writers kept apart, a process in its update    *)
(* window also knows that the file is the document it read (BaseCurrent).  *)
(***************************************************************************)
EXTENDS CandidateDetector, TLAPS

\* What a running poll holds.  A poll that has to write carries an accepted
\* document and the decision made from that very document.
PollOK(d) ==
    /\ pc[d] \in {"load", "reread"} \cup UpdateWindow =>
        /\ poll[d].opts \in Options
        /\ poll[d].offered \in Revisions
    /\ pc[d] \in {"reread"} \cup UpdateWindow =>
        /\ ValidateProjectState(poll[d].base)
        /\ poll[d].stamp \in Timestamps
        /\ poll[d].verdict = CompareCandidate(poll[d].offered, poll[d].base)
        /\ poll[d].verdict \in WritableDecisions
    /\ pc[d] = "report" /\ poll[d].verdict = "NEW_CANDIDATE" =>
        /\ poll[d].opts \in Options
        /\ poll[d].offered \in Revisions
        /\ ValidateProjectState(poll[d].base)
    /\ pc[d] = "cleanup" => poll[d].verdict = "STATE_WRITE_FAILED"

PollInv == TypeOK /\ \A d \in Detectors : PollOK(d)

-----------------------------------------------------------------------------
(* Lemmas about the pure operators                                         *)

\* CompareCandidate answers with one of its six decisions.
LEMMA ComparisonInRange ==
    ASSUME NEW r, NEW s
    PROVE  CompareCandidate(r, s) \in ComparisonDecisions
BY DEF CompareCandidate, ComparisonDecisions

\* Replacing the candidate record of an accepted document gives an accepted
\* document with the same qualified and released records (UpdateCandidateState
\* cannot fail its own two tests).
LEMMA ProposalAccepted ==
    ASSUME NEW s, ValidateProjectState(s), NEW r \in Revisions, NEW t \in Timestamps
    PROVE  /\ ValidateProjectState(WithCandidate(s, r, t))
           /\ WithCandidate(s, r, t).qualified = s.qualified
           /\ WithCandidate(s, r, t).released = s.released
           /\ WithCandidate(s, r, t).candidate = [rev |-> r, at |-> t]
BY DEF ValidateProjectState, WithCandidate, ProjectStates, CandidateRecords, Optional

\* A request built from an accepted document is well formed.
LEMMA RequestWellFormed ==
    ASSUME NEW s, ValidateProjectState(s), NEW r \in Revisions
    PROVE  /\ BuildQualificationRequest(r, s) \in QualificationRequests
           /\ BuildQualificationRequest(r, s).candidate = r
BY DEF BuildQualificationRequest, QualificationRequests, ValidateProjectState, ProjectStates

-----------------------------------------------------------------------------
(* Type correctness                                                        *)

\* Before any process has read anything the invariant holds.
LEMMA InitPollInv == Init => PollInv
<1> SUFFICES ASSUME Init PROVE PollInv
    OBVIOUS
<1>1. TypeOK
    <2>1. file \in ProjectStates
        BY DEF Init, EmptyProjectState, ProjectStates, Optional
    <2>2. NoPoll \in Polls
        BY DEF NoPoll, Poll, Polls, Optional
    <2> QED
        BY <2>1, <2>2, BoundsAssumption DEF Init, TypeOK, PollSteps, TempFiles, Optional
<1>2. ASSUME NEW d \in Detectors PROVE PollOK(d)
    BY <1>2 DEF Init, PollOK, UpdateWindow
<1> QED BY <1>1, <1>2 DEF PollInv

\* A poll whose step and locals are untouched keeps PollOK.
LEMMA PollOKUntouched ==
    ASSUME NEW d, PollOK(d), pc'[d] = pc[d], poll'[d] = poll[d]
    PROVE  PollOK(d)'
BY DEF PollOK

\* A fetched response gives a revision of the model.
LEMMA FetchKeepsPollInv ==
    ASSUME PollInv, NEW d \in Detectors, Fetch(d)
    PROVE  PollInv'
<1> USE DEF PollInv
<1>1. \A e \in Detectors \ {d} : pc'[e] = pc[e] /\ poll'[e] = poll[e]
    BY DEF Fetch, Goto, TypeOK
<1>2. \A e \in Detectors \ {d} : PollOK(e)'
    BY <1>1, PollOKUntouched
<1>3. PICK o \in Options :
        \/ \E r \in Revisions :
            /\ Goto(d, "load")
            /\ poll' = [poll EXCEPT ![d] = Poll(o, r, Null, Null, Null)]
        \/ \E failure \in {"FETCH_FAILED", "INVALID_UPSTREAM"} :
            /\ Goto(d, "report")
            /\ poll' = [poll EXCEPT ![d] = Poll(o, Null, Null, Null, failure)]
    BY DEF Fetch
<1>4. CASE \E r \in Revisions :
            /\ Goto(d, "load")
            /\ poll' = [poll EXCEPT ![d] = Poll(o, r, Null, Null, Null)]
    <2>1. PICK r \in Revisions :
            /\ Goto(d, "load")
            /\ poll' = [poll EXCEPT ![d] = Poll(o, r, Null, Null, Null)]
        BY <1>4
    <2>2. Poll(o, r, Null, Null, Null) \in Polls
        BY DEF Poll, Polls, Optional
    <2>3. TypeOK'
        BY <2>1, <2>2 DEF Fetch, TypeOK, Goto, PollSteps
    <2>4. PollOK(d)'
        BY <2>1 DEF PollOK, TypeOK, Goto, UpdateWindow, Poll
    <2> QED BY <1>2, <2>3, <2>4
<1>5. CASE \E failure \in {"FETCH_FAILED", "INVALID_UPSTREAM"} :
            /\ Goto(d, "report")
            /\ poll' = [poll EXCEPT ![d] = Poll(o, Null, Null, Null, failure)]
    <2>1. PICK failure \in {"FETCH_FAILED", "INVALID_UPSTREAM"} :
            /\ Goto(d, "report")
            /\ poll' = [poll EXCEPT ![d] = Poll(o, Null, Null, Null, failure)]
        BY <1>5
    <2>2. Poll(o, Null, Null, Null, failure) \in Polls
        BY DEF Poll, Polls, Optional, Decisions, FailureDecisions
    <2>3. TypeOK'
        BY <2>1, <2>2 DEF Fetch, TypeOK, Goto, PollSteps
    <2>4. PollOK(d)'
        BY <2>1 DEF PollOK, TypeOK, Goto, UpdateWindow, Poll
    <2> QED BY <1>2, <2>3, <2>4
<1> QED BY <1>3, <1>4, <1>5

\* The first read gives a valid document, or ends the poll.
LEMMA LoadKeepsPollInv ==
    ASSUME PollInv, NEW d \in Detectors, Load(d)
    PROVE  PollInv'
<1> USE DEF PollInv
<1>1. \A e \in Detectors \ {d} : PollOK(e)'
    <2>1. \A e \in Detectors \ {d} : pc'[e] = pc[e] /\ poll'[e] = poll[e]
        BY DEF Load, Fails, Poll, Goto, TypeOK
    <2> QED BY <2>1, PollOKUntouched
<1>2. poll[d].opts \in Options /\ poll[d].offered \in Revisions
    BY DEF Load, PollOK
<1>3. CASE ~ ValidateProjectState(file)
    <2>1. Fails(d, "INVALID_STATE", "report")
        BY <1>3 DEF Load
    <2>2. TypeOK'
        BY <2>1 DEF Load, Fails, Poll, Goto, TypeOK, PollSteps, Polls, Optional, Decisions,
                    FailureDecisions
    <2>3. PollOK(d)'
        BY <2>1 DEF Fails, Poll, Goto, TypeOK, PollOK, UpdateWindow, Polls
    <2> QED BY <1>1, <2>2, <2>3
<1>4. CASE ValidateProjectState(file)
    <2> DEFINE decision == CompareCandidate(poll[d].offered, file)
               writes   == poll[d].opts.write /\ decision \in WritableDecisions
    <2>1. PICK t \in IF writes THEN Timestamps ELSE {Null} :
            /\ Goto(d, IF writes THEN "reread" ELSE "report")
            /\ poll' = [poll EXCEPT ![d] =
                          Poll(poll[d].opts, poll[d].offered, file, t, decision)]
        BY <1>4 DEF Load
    <2>2. decision \in ComparisonDecisions
        BY ComparisonInRange
    <2> HIDE DEF decision
    <2>3. Poll(poll[d].opts, poll[d].offered, file, t, decision) \in Polls
        BY <1>2, <1>4, <2>1, <2>2 DEF Poll, Polls, Optional, Decisions, ValidateProjectState
    <2>4. TypeOK'
        BY <2>1, <2>3 DEF Load, Goto, TypeOK, PollSteps
    <2>5. /\ pc'[d] \in {"reread", "report"}
          /\ pc'[d] = "reread" => t \in Timestamps /\ decision \in WritableDecisions
          /\ poll'[d] = Poll(poll[d].opts, poll[d].offered, file, t, decision)
        BY <2>1 DEF Goto, TypeOK
    <2>6. PollOK(d)'
        BY <1>2, <1>4, <2>5 DEF PollOK, Poll, UpdateWindow, decision
    <2> QED BY <1>1, <2>4, <2>6
<1> QED BY <1>3, <1>4

\* The second read gives the same document, or ends the poll.
LEMMA RereadKeepsPollInv ==
    ASSUME PollInv, NEW d \in Detectors, Reread(d)
    PROVE  PollInv'
<1> USE DEF PollInv
<1>1. \A e \in Detectors \ {d} : PollOK(e)'
    <2>1. \A e \in Detectors \ {d} : pc'[e] = pc[e] /\ poll'[e] = poll[e]
        BY DEF Reread, Fails, Poll, Goto, TypeOK
    <2> QED BY <2>1, PollOKUntouched
<1>2. ASSUME NEW decision \in FailureDecisions, Fails(d, decision, "report")
      PROVE  PollInv'
    <2>1. TypeOK'
        BY <1>2 DEF Reread, Fails, Poll, Goto, TypeOK, PollSteps, Polls, Optional, Decisions
    <2>2. PollOK(d)'
        BY <1>2 DEF Fails, Poll, Goto, TypeOK, PollOK, UpdateWindow, Polls, FailureDecisions
    <2> QED BY <1>1, <2>1, <2>2
<1>3. CASE Goto(d, "open") /\ UNCHANGED poll
    <2>1. TypeOK'
        BY <1>3 DEF Reread, Goto, TypeOK, PollSteps
    <2>2. PollOK(d)'
        BY <1>3 DEF Reread, Goto, TypeOK, PollOK, UpdateWindow
    <2> QED BY <1>1, <2>1, <2>2
<1> QED BY <1>2, <1>3 DEF Reread, FailureDecisions

\* A temporary file is opened for a write that was decided.
LEMMA OpenTempKeepsPollInv ==
    ASSUME PollInv, NEW d \in Detectors, OpenTemp(d)
    PROVE  PollInv'
<1> USE DEF PollInv
<1>1. \A e \in Detectors \ {d} : PollOK(e)'
    BY PollOKUntouched DEF OpenTemp, Goto, TypeOK
<1>2. TypeOK'
    BY DEF OpenTemp, Goto, TypeOK, PollSteps, TempFiles, Optional
<1>3. PollOK(d)'
    BY DEF OpenTemp, Goto, TypeOK, PollOK, UpdateWindow
<1> QED BY <1>1, <1>2, <1>3

\* A flushed one holds the whole proposal.
LEMMA FlushTempKeepsPollInv ==
    ASSUME PollInv, NEW d \in Detectors, FlushTemp(d)
    PROVE  PollInv'
<1> USE DEF PollInv
<1>1. \A e \in Detectors \ {d} : PollOK(e)'
    BY PollOKUntouched DEF FlushTemp, Goto, TypeOK
<1>2. TypeOK'
    BY DEF FlushTemp, Goto, TypeOK, PollSteps
<1>3. PollOK(d)'
    BY DEF FlushTemp, Goto, TypeOK, PollOK, UpdateWindow
<1> QED BY <1>1, <1>2, <1>3

\* What replaces the file is a whole proposal.
LEMMA ReplaceKeepsPollInv ==
    ASSUME PollInv, NEW d \in Detectors, Replace(d)
    PROVE  PollInv'
<1> USE DEF PollInv
<1>1. \A e \in Detectors \ {d} : PollOK(e)'
    BY PollOKUntouched DEF Replace, Goto, TypeOK
<1>2. /\ poll[d].offered \in Revisions
      /\ poll[d].stamp \in Timestamps
      /\ poll[d].opts \in Options
      /\ ValidateProjectState(poll[d].base)
    BY DEF Replace, PollOK, UpdateWindow
<1>3. ValidateProjectState(WithCandidate(poll[d].base, poll[d].offered, poll[d].stamp))
    BY <1>2, ProposalAccepted
<1>4. file' \in ProjectStates
    BY <1>3 DEF Replace, ValidateProjectState
<1>5. TypeOK'
    BY <1>2, <1>4 DEF Replace, Goto, TypeOK, PollSteps, Optional
<1>6. PollOK(d)'
    BY <1>2 DEF Replace, Goto, TypeOK, PollOK, UpdateWindow
<1> QED BY <1>1, <1>5, <1>6

\* A failing system call leaves the file alone.
LEMMA WriteFailsKeepsPollInv ==
    ASSUME PollInv, NEW d \in Detectors, WriteFails(d)
    PROVE  PollInv'
<1> USE DEF PollInv
<1>1. PICK step \in {"report", "cleanup"} : Fails(d, "STATE_WRITE_FAILED", step)
    BY DEF WriteFails
<1>2. \A e \in Detectors \ {d} : PollOK(e)'
    BY <1>1, PollOKUntouched DEF WriteFails, UnlinkFails, Fails, Poll, Goto, TypeOK
<1>3. TypeOK'
    BY <1>1, BoundsAssumption
       DEF WriteFails, UnlinkFails, Fails, Poll, Goto, TypeOK, PollSteps, Polls, Optional,
           Decisions, FailureDecisions
<1>4. PollOK(d)'
    BY <1>1 DEF Fails, Poll, Goto, TypeOK, PollOK, UpdateWindow, Polls
<1> QED BY <1>2, <1>3, <1>4

\* So does the removal of the temporary file.
LEMMA CleanupKeepsPollInv ==
    ASSUME PollInv, NEW d \in Detectors, Cleanup(d)
    PROVE  PollInv'
<1> USE DEF PollInv
<1>1. \A e \in Detectors \ {d} : PollOK(e)'
    BY PollOKUntouched DEF Cleanup, Goto, TypeOK
<1>2. TypeOK'
    BY BoundsAssumption DEF Cleanup, Goto, TypeOK, PollSteps, Optional
<1>3. PollOK(d)'
    BY DEF Cleanup, Goto, TypeOK, PollOK, UpdateWindow
<1> QED BY <1>1, <1>2, <1>3

\* Or its failure.
LEMMA UnlinkFailsKeepsPollInv ==
    ASSUME PollInv, NEW d \in Detectors, UnlinkFails(d)
    PROVE  PollInv'
<1> USE DEF PollInv
<1>1. \A e \in Detectors : PollOK(e)'
    BY PollOKUntouched DEF UnlinkFails, Goto, TypeOK, PollOK, UpdateWindow
<1>2. TypeOK'
    BY BoundsAssumption DEF UnlinkFails, Goto, TypeOK, PollSteps, Optional
<1> QED BY <1>1, <1>2

\* And the report.
LEMMA ReportKeepsPollInv ==
    ASSUME PollInv, NEW d \in Detectors, Report(d)
    PROVE  PollInv'
<1> USE DEF PollInv
<1>1. \A e \in Detectors \ {d} : PollOK(e)'
    BY PollOKUntouched DEF Report, Goto, TypeOK
<1>2. NoPoll \in Polls
    BY DEF NoPoll, Poll, Polls, Optional
<1>3. requests' \subseteq QualificationRequests
    BY RequestWellFormed DEF Report, PollOK, TypeOK
<1>4. TypeOK'
    BY <1>2, <1>3 DEF Report, Goto, TypeOK, PollSteps
<1>5. PollOK(d)'
    BY DEF Report, Goto, TypeOK, PollOK, UpdateWindow
<1> QED BY <1>1, <1>4, <1>5

\* A process that dies keeps nothing.
LEMMA CrashKeepsPollInv ==
    ASSUME PollInv, NEW d \in Detectors, Crash(d)
    PROVE  PollInv'
<1> USE DEF PollInv
<1>1. \A e \in Detectors \ {d} : PollOK(e)'
    BY PollOKUntouched DEF Crash, Goto, TypeOK
<1>2. NoPoll \in Polls
    BY DEF NoPoll, Poll, Polls, Optional
<1>3. TypeOK'
    BY <1>2, BoundsAssumption DEF Crash, Goto, TypeOK, PollSteps, Optional
<1>4. PollOK(d)'
    BY DEF Crash, Goto, TypeOK, PollOK, UpdateWindow
<1> QED BY <1>1, <1>3, <1>4

\* The outside writers do not touch a process.
LEMMA AuthorityKeepsPollInv ==
    ASSUME PollInv, AuthorityStep
    PROVE  PollInv'
<1> USE DEF PollInv
<1>1. OutsideWrite
    BY DEF AuthorityStep, Qualify, Release, Damage
<1>2. \A e \in Detectors : PollOK(e)'
    BY <1>1, PollOKUntouched DEF OutsideWrite
<1>3. file' \in ProjectStates \cup {Malformed}
    BY <1>1 DEF AuthorityStep, Qualify, Release, Damage, OutsideWrite, ValidateProjectState,
                ProjectStates, Optional
<1>4. TypeOK'
    BY <1>1, <1>3, BoundsAssumption DEF OutsideWrite, TypeOK
<1> QED BY <1>2, <1>4

\* Every step keeps the invariant.
LEMMA NextKeepsPollInv == PollInv /\ [Next]_vars => PollInv'
<1> SUFFICES ASSUME PollInv, [Next]_vars PROVE PollInv'
    OBVIOUS
<1>1. CASE UNCHANGED vars
    BY <1>1 DEF vars, PollInv, TypeOK, PollOK
<1>2. CASE \E d \in Detectors : DetectorStep(d)
    BY <1>2, FetchKeepsPollInv, LoadKeepsPollInv, RereadKeepsPollInv, OpenTempKeepsPollInv,
       FlushTempKeepsPollInv, ReplaceKeepsPollInv, WriteFailsKeepsPollInv,
       CleanupKeepsPollInv, UnlinkFailsKeepsPollInv, ReportKeepsPollInv, CrashKeepsPollInv
       DEF DetectorStep, Advance
<1>3. CASE AuthorityStep
    BY <1>3, AuthorityKeepsPollInv
<1> QED BY <1>1, <1>2, <1>3 DEF Next

\* The variables keep their types in every behaviour, races included.
THEOREM TypeCorrect == Spec => []TypeOK
<1>1. PollInv => TypeOK
    BY DEF PollInv
<1> QED BY <1>1, InitPollInv, NextKeepsPollInv, PTL DEF Spec

-----------------------------------------------------------------------------
(* What a detector does to the file, with and without races                *)

\* Of a detector's steps only os.replace touches the file, and what it
\* leaves there is an accepted document.
LEMMA DetectorFileSteps ==
    ASSUME PollInv, NEW d \in Detectors, DetectorStep(d)
    PROVE  \/ file' = file
           \/ Replace(d) /\ ValidateProjectState(file')
<1>1. CASE Replace(d)
    <2>1. /\ poll[d].offered \in Revisions
          /\ poll[d].stamp \in Timestamps
          /\ ValidateProjectState(poll[d].base)
        BY <1>1 DEF PollInv, Replace, PollOK, UpdateWindow
    <2> QED BY <1>1, <2>1, ProposalAccepted DEF Replace
<1>2. CASE ~ Replace(d)
    BY <1>2
       DEF DetectorStep, Advance, Fetch, Load, Reread, OpenTemp, FlushTemp, WriteFails,
           UnlinkFails,
                Cleanup, Report, Crash
<1> QED BY <1>1, <1>2

\* An outside write is no step of a detector.
LEMMA OutsideStepsAreNotDetectors ==
    ASSUME AuthorityStep
    PROVE  ~ ByDetector
BY DEF AuthorityStep, Qualify, Release, Damage, OutsideWrite, ByDetector

\* No step of a detector turns an accepted document into a refused one,
\* whatever the interleaving: crashes, failing system calls and races
\* included.
THEOREM FileStaysValid == Spec => DetectorKeepsFileValid
<1>1. ASSUME PollInv, [Next]_vars
      PROVE  [ByDetector /\ ValidateProjectState(file) => ValidateProjectState(file')]_vars
    <2>1. CASE UNCHANGED vars
        BY <2>1
    <2>2. CASE \E d \in Detectors : DetectorStep(d)
        BY <1>1, <2>2, DetectorFileSteps
    <2>3. CASE AuthorityStep
        BY <2>3, OutsideStepsAreNotDetectors
    <2> QED BY <1>1, <2>1, <2>2, <2>3 DEF Next
<1> QED BY <1>1, InitPollInv, NextKeepsPollInv, PTL DEF Spec, DetectorKeepsFileValid

\* A process that keeps its file through a step still holds it after it.
LEMMA KeptIsHeld ==
    ASSUME NEW e \in Detectors, Holds(e), Holds(e)', temp'[e] = temp[e]
    PROVE  temp[e] \in Held'
BY DEF Held, Holds

\* A process's step leaves the files of the others with them.
LEMMA OthersKeepTheirs ==
    ASSUME TypeOK, NEW d \in Detectors, DetectorStep(d), NEW e \in Detectors, e # d, Holds(e)
    PROVE  temp[e] \in Held'
<1>1. pc'[e] = pc[e] /\ temp'[e] = temp[e]
    BY DEF DetectorStep, Advance, Fetch, Load, Reread, OpenTemp, FlushTemp, Replace, WriteFails,
       UnlinkFails, Cleanup, Report, Crash, Fails, Goto, TypeOK
<1> QED BY <1>1, KeptIsHeld DEF Holds

\* What a process's step does to its own file: it stays in its hands, is
\* renamed or removed, is the one just created, or is lost to a fault.
LEMMA OwnTempSteps ==
    ASSUME TypeOK, NEW d \in Detectors, DetectorStep(d)
    PROVE  \/ temps' = temps /\ (Holds(d) => temp[d] \in Held')
           \/ temps' = temps \ {temp[d]}
           \/ ~ Holds(d) /\ \E f \in Held' : temps' = temps \cup {f}
           \/ temps' = temps /\ (Crash(d) \/ UnlinkFails(d))
<1>1. CASE Fetch(d) \/ Load(d) \/ Reread(d) \/ Report(d)
    BY <1>1 DEF Fetch, Load, Reread, Report, Holds
<1>2. CASE FlushTemp(d) \/ WriteFails(d)
    <2>1. Holds(d) => Holds(d)'
        BY <1>2 DEF FlushTemp, WriteFails, Fails, Goto, Holds, TypeOK, UpdateWindow
    <2> QED BY <1>2, <2>1, KeptIsHeld DEF FlushTemp, WriteFails
<1>3. CASE Replace(d) \/ Cleanup(d)
    BY <1>3 DEF Replace, Cleanup
<1>4. CASE OpenTemp(d)
    <2>1. PICK n \in TempNumbers : temp'[d] = <<d, n>> /\ temps' = temps \cup {<<d, n>>}
        BY <1>4 DEF OpenTemp, TypeOK
    <2>2. ~ Holds(d) /\ Holds(d)'
        BY <1>4 DEF OpenTemp, Goto, Holds, TypeOK
    <2> QED BY <2>1, <2>2 DEF Held
<1>5. CASE Crash(d) \/ UnlinkFails(d)
    BY <1>5 DEF Crash, UnlinkFails
<1> QED BY <1>1, <1>2, <1>3, <1>4, <1>5 DEF DetectorStep, Advance

\* In every interleaving, a temporary file that no process will rename or
\* remove any more was held by a process that died or whose unlink failed:
\* no way out of AtomicWriteJson forgets its file, and no process's step
\* takes away what another one holds.
THEOREM TempsAreRenamedOrRemoved == Spec => TempsAreRemoved
<1>1. ASSUME PollInv, [Next]_vars
      PROVE  [\A f \in Abandoned' \ Abandoned :
                \E d \in Detectors : temp[d] = f /\ (Crash(d) \/ UnlinkFails(d))]_vars
    <2>1. CASE UNCHANGED vars
        BY <2>1
    <2>2. CASE AuthorityStep
        <3>1. UNCHANGED <<pc, temp, temps>>
            BY <2>2 DEF AuthorityStep, Qualify, Release, Damage, OutsideWrite
        <3> QED BY <3>1 DEF Abandoned, Held, Holds
    <2>3. ASSUME NEW d \in Detectors, DetectorStep(d), NEW f \in Abandoned' \ Abandoned
          PROVE  temp[d] = f /\ (Crash(d) \/ UnlinkFails(d))
        <3>1. f \in temps' /\ f \notin Held'
            BY <2>3 DEF Abandoned
        <3>2. f \in temps
            BY <1>1, <2>3, <3>1, OwnTempSteps DEF PollInv
        <3>3. PICK e \in Detectors : Holds(e) /\ temp[e] = f
            BY <2>3, <3>2 DEF Abandoned, Held
        <3>4. e = d
            BY <1>1, <2>3, <3>1, <3>3, OthersKeepTheirs DEF PollInv
        <3> QED BY <1>1, <2>3, <3>1, <3>3, <3>4, OwnTempSteps DEF PollInv
    <2> QED BY <1>1, <2>1, <2>2, <2>3 DEF Next
<1> QED BY <1>1, InitPollInv, NextKeepsPollInv, PTL DEF Spec, TempsAreRemoved

-----------------------------------------------------------------------------
(* What races cannot do: bring in a revision nobody was asked to qualify    *)

Requested(r) == r = Null \/ \E q \in requests : q.candidate = r

\* The accepted records of a document.
AcceptedRequested(s) ==
    s \in ProjectStates => Requested(s.qualified) /\ Requested(s.released)

\* A race may put back an old document, but every document that a poll holds
\* or writes is of this kind.
AcceptedWereRequested ==
    /\ AcceptedRequested(file)
    /\ \A d \in Detectors : AcceptedRequested(poll[d].base)
    /\ \A q \in requests : Requested(q.previous)

RequestedInv == PollInv /\ AcceptedWereRequested

\* Requests are never withdrawn.
LEMMA RequestsStay ==
    ASSUME Next
    PROVE  /\ requests \subseteq requests'
           /\ \A r : Requested(r) => Requested(r)'
           /\ \A s : AcceptedRequested(s) =>
                (s \in ProjectStates => Requested(s.qualified)' /\ Requested(s.released)')
<1>1. requests \subseteq requests'
    BY DEF Next, DetectorStep, Advance, AuthorityStep, Fetch, Load, Reread, OpenTemp,
           FlushTemp, Replace, WriteFails, UnlinkFails, Cleanup, Report, Crash, Qualify,
           Release, Damage, OutsideWrite
<1> QED BY <1>1 DEF Requested, AcceptedRequested

\* A poll holds the document it had, the one it reads, or none.
LEMMA BasesByLoad ==
    ASSUME PollInv, Next, NEW e \in Detectors
    PROVE  poll'[e].base \in {poll[e].base, file, Null}
<1> USE DEF PollInv
<1>1. CASE AuthorityStep
    BY <1>1 DEF AuthorityStep, Qualify, Release, Damage, OutsideWrite
<1>2. ASSUME NEW d \in Detectors, DetectorStep(d), d # e
      PROVE  poll'[e].base \in {poll[e].base, file, Null}
    BY <1>2 DEF DetectorStep, Advance, Fetch, Load, Reread, OpenTemp, FlushTemp, Replace,
       WriteFails, UnlinkFails, Cleanup, Report, Crash, Fails, Poll, TypeOK
<1>3. CASE Fetch(e)
    <2>1. PICK o \in Options, r \in Optional(Revisions), decision \in Optional(Decisions) :
              poll' = [poll EXCEPT ![e] = Poll(o, r, Null, Null, decision)]
        BY <1>3 DEF Fetch, Optional, Decisions, FailureDecisions
    <2> QED BY <2>1 DEF TypeOK, Poll
<1>4. CASE Load(e)
    <2>1. CASE Fails(e, "INVALID_STATE", "report")
        BY <2>1 DEF Fails, Poll, TypeOK, Polls
    <2>2. CASE ~ Fails(e, "INVALID_STATE", "report")
        <3>1. \E t, decision : poll' = [poll EXCEPT ![e] =
                    Poll(poll[e].opts, poll[e].offered, file, t, decision)]
            BY <1>4, <2>2 DEF Load
        <3> QED BY <3>1 DEF TypeOK, Poll
    <2> QED BY <2>1, <2>2
<1>5. CASE Reread(e) \/ WriteFails(e)
    BY <1>5 DEF Reread, WriteFails, UnlinkFails, Fails, Poll, TypeOK, Polls
<1>6. CASE OpenTemp(e) \/ FlushTemp(e) \/ Replace(e) \/ Cleanup(e)
          \/ UnlinkFails(e)
    BY <1>6 DEF OpenTemp, FlushTemp, Replace, Cleanup, UnlinkFails
<1>7. CASE Report(e) \/ Crash(e)
    BY <1>7 DEF Report, Crash, NoPoll, Poll, TypeOK
<1> QED BY <1>1, <1>2, <1>3, <1>4, <1>5, <1>6, <1>7 DEF Next, DetectorStep, Advance

\* The file gets its accepted records from a document a poll holds, from itself
\* or from a request.
LEMMA FileStaysRequested ==
    ASSUME RequestedInv, Next
    PROVE  AcceptedRequested(file)'
<1> USE DEF RequestedInv, AcceptedWereRequested
<1>1. CASE file' = file
    BY <1>1, RequestsStay DEF AcceptedRequested
<1>2. ASSUME NEW d \in Detectors, Replace(d)
      PROVE  AcceptedRequested(file)'
    <2>1. /\ ValidateProjectState(poll[d].base) /\ poll[d].base \in ProjectStates
          /\ poll[d].offered \in Revisions /\ poll[d].stamp \in Timestamps
        BY <1>2 DEF PollInv, PollOK, Replace, UpdateWindow, ValidateProjectState
    <2>2. file'.qualified = poll[d].base.qualified /\ file'.released = poll[d].base.released
        BY <1>2, <2>1, ProposalAccepted DEF Replace
    <2> QED BY <2>1, <2>2, RequestsStay DEF AcceptedRequested
<1>3. CASE AuthorityStep
    <2>1. file \in ProjectStates
        BY <1>3 DEF AuthorityStep, Qualify, Release, Damage, OutsideWrite, ValidateProjectState
    <2>2. Requested(file.qualified) /\ Requested(file.released) /\ Requested(Null)
        BY <2>1 DEF AcceptedRequested, Requested
    <2>3. file' \in ProjectStates => Requested(file'.qualified) /\ Requested(file'.released)
        BY <1>3, <2>1, <2>2, MalformedAssumption
           DEF AuthorityStep, Qualify, Release, Damage, ProjectStates, Requested, Optional
    <2> QED BY <2>3, RequestsStay DEF AcceptedRequested
<1>4. ASSUME NEW d \in Detectors, DetectorStep(d), ~ Replace(d)
      PROVE  file' = file
    BY <1>4, DetectorFileSteps
<1> QED BY <1>1, <1>2, <1>3, <1>4 DEF Next

\* A request cites the accepted revision of the document its poll holds.
LEMMA CitedStaysRequested ==
    ASSUME RequestedInv, Next, NEW q \in requests'
    PROVE  Requested(q.previous)'
<1> USE DEF RequestedInv, AcceptedWereRequested
<1>1. CASE q \in requests
    BY <1>1, RequestsStay
<1>2. ASSUME NEW d \in Detectors, Report(d), poll[d].verdict = "NEW_CANDIDATE",
             q = BuildQualificationRequest(poll[d].offered, poll[d].base)
      PROVE  Requested(q.previous)'
    <2>1. poll[d].base \in ProjectStates
        BY <1>2 DEF PollInv, PollOK, Report, ValidateProjectState
    <2>2. q.previous = poll[d].base.qualified
        BY <1>2 DEF BuildQualificationRequest
    <2> QED BY <2>1, <2>2, RequestsStay DEF AcceptedRequested
<1>3. CASE AuthorityStep
    BY <1>1, <1>3 DEF AuthorityStep, Qualify, Release, Damage, OutsideWrite
<1>4. ASSUME NEW d \in Detectors, DetectorStep(d), ~ Report(d)
      PROVE  requests' = requests
    BY <1>4 DEF DetectorStep, Advance, Fetch, Load, Reread, OpenTemp, FlushTemp, Replace,
       WriteFails, UnlinkFails, Cleanup, Crash
<1> QED BY <1>1, <1>2, <1>3, <1>4 DEF Next, Report

\* That is an invariant of every interleaving.
LEMMA RequestedInvariant == Spec => []RequestedInv
<1>1. Init => RequestedInv
    BY InitPollInv, NullAssumption
       DEF Init, RequestedInv, AcceptedWereRequested, AcceptedRequested, Requested,
           EmptyProjectState, NoPoll, Poll
<1>2. RequestedInv /\ [Next]_vars => RequestedInv'
    <2> SUFFICES ASSUME RequestedInv, [Next]_vars PROVE RequestedInv'
        OBVIOUS
    <2>1. PollInv'
        BY NextKeepsPollInv DEF RequestedInv
    <2>2. CASE UNCHANGED vars
        BY <2>1, <2>2
           DEF vars, RequestedInv, AcceptedWereRequested, AcceptedRequested, Requested
    <2>3. CASE Next
        <3>1. ASSUME NEW d \in Detectors
              PROVE  AcceptedRequested(poll[d].base)'
            <4>1. poll'[d].base \in {poll[d].base, file, Null}
                BY <2>3, BasesByLoad DEF RequestedInv
            <4> QED BY <2>3, <4>1, RequestsStay, NullAssumption
                    DEF RequestedInv, AcceptedWereRequested, AcceptedRequested
        <3>2. AcceptedRequested(file)' /\ \A q \in requests' : Requested(q.previous)'
            BY <2>3, FileStaysRequested, CitedStaysRequested
        <3> QED BY <2>1, <3>1, <3>2 DEF RequestedInv, AcceptedWereRequested
    <2> QED BY <2>2, <2>3
<1> QED BY <1>1, <1>2, PTL DEF Spec

\* In every interleaving, also those in which a detector overwrites what an
\* authority wrote: the qualified and the released revision in the file, in a
\* document some process holds, and cited as the previous one by a request,
\* were all handed to qualification.  A race can lose an acceptance or bring
\* an old one back; it cannot invent one.
THEOREM RacesInventNothing == Spec => []AcceptedWereRequested
<1>1. RequestedInv => AcceptedWereRequested
    BY DEF RequestedInv
<1> QED BY <1>1, RequestedInvariant, PTL

-----------------------------------------------------------------------------
(* With the writers kept apart                                             *)

\* While a process is in its update window the file is the document it read
\* there, and no other process is in its own.
BaseCurrent ==
    /\ \A d, e \in Detectors : InWindow(d) /\ InWindow(e) => d = e
    /\ \A d \in Detectors : InWindow(d) => file = poll[d].base

SerialInv == PollInv /\ BaseCurrent

\* No window is open at first.
LEMMA InitSerialInv == Init => SerialInv
BY InitPollInv DEF SerialInv, BaseCurrent, Init, InWindow, UpdateWindow

\* A process that is in its window after a step was there before it, or has
\* just found the file equal to what it read first; either way it still
\* works on the same document.
LEMMA WindowSteps ==
    ASSUME PollInv, Next, NEW e \in Detectors, InWindow(e)'
    PROVE  /\ poll'[e].base = poll[e].base
           /\ InWindow(e) \/ file' = poll[e].base
<1>1. CASE AuthorityStep
    BY <1>1 DEF AuthorityStep, Qualify, Release, Damage, OutsideWrite, InWindow
<1>2. CASE \E d \in Detectors : DetectorStep(d)
    <2>1. PICK d \in Detectors : DetectorStep(d)
        BY <1>2
    <2>2. CASE d # e
        <3>1. pc'[e] = pc[e] /\ poll'[e] = poll[e]
            BY <2>1, <2>2 DEF DetectorStep, Advance, Fetch, Load, Reread, OpenTemp,
               FlushTemp, Replace, WriteFails, UnlinkFails, Cleanup, Report, Crash, Fails,
               Poll, Goto, PollInv, TypeOK
        <3> QED BY <3>1 DEF InWindow
    <2>3. CASE d = e
        <3>1. CASE Reread(d)
            BY <2>3, <3>1 DEF Reread, Fails, Poll, Goto, InWindow, UpdateWindow, PollInv, TypeOK
        <3>2. CASE OpenTemp(d) \/ FlushTemp(d)
            BY <2>3, <3>2 DEF OpenTemp, FlushTemp, Goto, InWindow, UpdateWindow, PollInv, TypeOK
        <3>3. CASE Fetch(d) \/ Load(d) \/ Replace(d)
            BY <2>3, <3>3 DEF Fetch, Load, Replace, Fails, Poll, Goto, InWindow, UpdateWindow,
               PollInv, TypeOK
        <3>4. CASE WriteFails(d) \/ Cleanup(d) \/ UnlinkFails(d) \/ Report(d) \/ Crash(d)
            BY <2>3, <3>4
               DEF WriteFails, UnlinkFails, Cleanup, Report, Crash, Fails, Poll, Goto, InWindow,
               UpdateWindow, PollInv, TypeOK
        <3> QED BY <2>1, <3>1, <3>2, <3>3, <3>4 DEF DetectorStep, Advance
    <2> QED BY <2>2, <2>3
<1> QED BY <1>1, <1>2 DEF Next

\* With no second process in the window, the document of its second read stays current.
LEMMA NextKeepsSerialInv == SerialInv /\ [SerialNext]_vars => SerialInv'
<1> SUFFICES ASSUME SerialInv, [SerialNext]_vars PROVE SerialInv'
    OBVIOUS
<1>1. PollInv'
    BY NextKeepsPollInv DEF SerialInv, SerialNext, vars
<1>2. CASE UNCHANGED vars
    BY <1>1, <1>2 DEF vars, SerialInv, BaseCurrent, InWindow
<1>3. CASE SerialNext
    <2>1. \A d, e \in Detectors : InWindow(d)' /\ InWindow(e)' => d = e
        BY <1>3 DEF SerialNext, WritersApart
    <2>2. ASSUME NEW e \in Detectors, InWindow(e)'
          PROVE  file' = poll'[e].base
        BY <1>3, <2>2, WindowSteps DEF SerialInv, BaseCurrent, SerialNext, WritersApart
    <2> QED BY <1>1, <2>1, <2>2 DEF SerialInv, BaseCurrent, InWindow
<1> QED BY <1>2, <1>3

\* "The detector cannot update" the qualified and the released record: with
\* the writers kept apart, a step of a detector that changes the file leaves
\* both as they were.
THEOREM DetectorPreservesAuthority == SerialSpec => AuthorityPreserved
<1>1. ASSUME SerialInv, [SerialNext]_vars
      PROVE  [ByDetector /\ file' # file =>
                /\ file \in ProjectStates /\ file' \in ProjectStates
                /\ file'.qualified = file.qualified
                /\ file'.released = file.released]_vars
    <2>1. CASE UNCHANGED vars
        BY <2>1
    <2>2. ASSUME NEW d \in Detectors, DetectorStep(d), file' # file
          PROVE  /\ file \in ProjectStates /\ file' \in ProjectStates
                 /\ file'.qualified = file.qualified
                 /\ file'.released = file.released
        <3>1. Replace(d) /\ ValidateProjectState(file')
            BY <1>1, <2>2, DetectorFileSteps DEF SerialInv
        <3>2. /\ poll[d].offered \in Revisions
              /\ poll[d].stamp \in Timestamps
              /\ ValidateProjectState(poll[d].base)
              /\ file = poll[d].base
            BY <1>1, <3>1 DEF SerialInv, PollInv, BaseCurrent, Replace, PollOK, InWindow,
               UpdateWindow
        <3>3. file' = WithCandidate(file, poll[d].offered, poll[d].stamp)
            BY <3>1, <3>2 DEF Replace
        <3> QED BY <3>1, <3>2, <3>3, ProposalAccepted DEF ValidateProjectState
    <2>3. CASE AuthorityStep
        BY <2>3, OutsideStepsAreNotDetectors
    <2> QED BY <1>1, <2>1, <2>2, <2>3 DEF SerialNext, Next
<1> QED BY <1>1, InitSerialInv, NextKeepsSerialInv, PTL DEF SerialSpec, AuthorityPreserved

\* A revision that is the candidate and neither qualified nor released is
\* nothing to write: CompareCandidate answers NO_CHANGE, or refuses it.
LEMMA WaitingIsNotWritten ==
    ASSUME NEW s, s.candidate # Null,
           s.candidate.rev \notin {s.qualified, s.released}
    PROVE  CompareCandidate(s.candidate.rev, s) \notin WritableDecisions
BY DEF CompareCandidate, WritableDecisions

\* With the writers kept apart, detected_at stays what it was while the
\* candidate waits for qualification: UpdateCandidateState writes the time
\* of a poll only over another revision, or over one that was accepted.
THEOREM WaitingTimeIsKept == SerialSpec => WaitingCandidateKeepsTime
<1>1. ASSUME SerialInv, [SerialNext]_vars
      PROVE  [KeepsRevision /\ file.candidate.rev \notin {file.qualified, file.released}
                => file'.candidate.at = file.candidate.at]_vars
    <2>1. CASE UNCHANGED vars
        BY <2>1
    <2>2. ASSUME NEW d \in Detectors, DetectorStep(d), KeepsRevision,
                 file.candidate.rev \notin {file.qualified, file.released}
          PROVE  file'.candidate.at = file.candidate.at
        <3>1. CASE file' = file
            BY <3>1
        <3>2. CASE Replace(d)
            <4>1. /\ poll[d].offered \in Revisions
                  /\ poll[d].stamp \in Timestamps
                  /\ ValidateProjectState(file)
                  /\ CompareCandidate(poll[d].offered, file) \in WritableDecisions
                  /\ file' = WithCandidate(file, poll[d].offered, poll[d].stamp)
                BY <1>1, <3>2 DEF SerialInv, PollInv, BaseCurrent, Replace, PollOK, InWindow,
                   UpdateWindow
            <4>2. file'.candidate.rev = poll[d].offered
                <5>1. file'.candidate = [rev |-> poll[d].offered, at |-> poll[d].stamp]
                    BY <4>1, ProposalAccepted
                <5> QED BY <5>1
            <4>3. file.candidate # Null /\ file.candidate.rev = poll[d].offered
                BY <2>2, <4>2 DEF KeepsRevision
            <4> QED BY <2>2, <4>1, <4>3, WaitingIsNotWritten
        <3> QED BY <1>1, <2>2, <3>1, <3>2, DetectorFileSteps DEF SerialInv
    <2>3. CASE AuthorityStep
        BY <2>3, OutsideStepsAreNotDetectors DEF KeepsRevision
    <2> QED BY <1>1, <2>1, <2>2, <2>3 DEF SerialNext, Next
<1> QED
    BY <1>1, InitSerialInv, NextKeepsSerialInv, PTL DEF SerialSpec, WaitingCandidateKeepsTime

-----------------------------------------------------------------------------
(* Refinement                                                              *)

\* Polls that all may write: a poll without --write-candidate reports a new
\* revision, request included, that is recorded nowhere.
WritePollsOnly == \A o \in Options : o.write

\* A poll about to report a new candidate, and to request its qualification.
Pending(d) == pc[d] = "report" /\ poll[d].verdict = "NEW_CANDIDATE"

\* A request still to be printed is for a revision that has been recorded.
PendingGranted == \A d \in Detectors : Pending(d) => poll[d].offered \in granted

RequestsGranted == \A q \in requests : q.candidate \in granted

RefInv == SerialInv /\ PendingGranted /\ RequestsGranted

\* The two modules share the rules, so they decide alike.
LEMMA SameRules ==
    /\ \A r, s : UpstreamState!CompareCandidate(r, s) = CompareCandidate(r, s)
    /\ \A s : UpstreamState!ValidateProjectState(s) = ValidateProjectState(s)
    /\ \A r, s, t : UpstreamState!WithCandidate(s, r, t) = WithCandidate(s, r, t)
    /\ UpstreamState!WritableDecisions = WritableDecisions
    /\ UpstreamState!QualificationRequests = QualificationRequests
BY DEF CompareCandidate, Conflicts, Regresses, Recorded, ValidateProjectState, WithCandidate,
       WritableDecisions, QualificationRequests, ProjectStates, CandidateRecords, Optional,
       UpstreamState!CompareCandidate, UpstreamState!Conflicts, UpstreamState!Regresses,
       UpstreamState!Recorded, UpstreamState!ValidateProjectState,
       UpstreamState!WithCandidate, UpstreamState!WritableDecisions,
       UpstreamState!QualificationRequests, UpstreamState!ProjectStates,
       UpstreamState!CandidateRecords, UpstreamState!Optional

\* Every step of a poll but its os.replace and its report is invisible.
LEMMA QuietSteps ==
    ASSUME NEW d \in Detectors, DetectorStep(d), ~ Replace(d), ~ Report(d)
    PROVE  UNCHANGED <<file, granted, requests>>
BY DEF DetectorStep, Advance, Fetch, Load, Reread, OpenTemp, FlushTemp, WriteFails, UnlinkFails,
   Cleanup,
       Crash

\* os.replace is the atomic detection of UpstreamState.
LEMMA ReplaceIsRecord ==
    ASSUME SerialInv, NEW d \in Detectors, Replace(d)
    PROVE  UpstreamState!Next
<1>1. /\ poll[d].offered \in Revisions
      /\ poll[d].stamp \in Timestamps
      /\ ValidateProjectState(poll[d].base)
      /\ poll[d].verdict = CompareCandidate(poll[d].offered, poll[d].base)
      /\ poll[d].verdict \in WritableDecisions
      /\ file = poll[d].base
    BY DEF SerialInv, PollInv, BaseCurrent, Replace, PollOK, InWindow, UpdateWindow
<1>2. UpstreamState!Record(poll[d].offered, poll[d].stamp)
    BY <1>1, SameRules DEF Replace, UpstreamState!Record
<1> QED BY <1>1, <1>2 DEF UpstreamState!Next

\* The report of a new candidate is a request for a granted revision; any
\* other report is invisible.
LEMMA ReportIsRequest ==
    ASSUME RefInv, NEW d \in Detectors, Report(d)
    PROVE  UpstreamState!Next \/ UNCHANGED <<file, granted, requests>>
<1>1. CASE poll[d].verdict = "NEW_CANDIDATE" /\ poll[d].opts.json
    <2> DEFINE q == BuildQualificationRequest(poll[d].offered, poll[d].base)
    <2>1. q \in QualificationRequests /\ q.candidate = poll[d].offered
        BY <1>1, RequestWellFormed DEF RefInv, SerialInv, PollInv, PollOK, Report
    <2>2. q.candidate \in granted
        BY <1>1, <2>1 DEF RefInv, PendingGranted, Pending, Report
    <2>3. requests' = requests \cup {q} /\ UNCHANGED <<file, granted>>
        BY <1>1 DEF Report
    <2> HIDE DEF q
    <2>4. UpstreamState!Request(q)
        BY <2>2, <2>3 DEF UpstreamState!Request
    <2> QED BY <2>1, <2>4, SameRules DEF UpstreamState!Next
<1>2. CASE ~ (poll[d].verdict = "NEW_CANDIDATE" /\ poll[d].opts.json)
    BY <1>2 DEF Report
<1> QED BY <1>1, <1>2

\* The outside writers are those of the abstract specification.
LEMMA AuthorityIsAuthority ==
    ASSUME AuthorityStep
    PROVE  UpstreamState!Next
<1>1. CASE \E r \in Revisions : Qualify(r)
    BY <1>1, SameRules DEF Qualify, OutsideWrite, UpstreamState!Qualify, UpstreamState!Next
<1>2. CASE Release
    BY <1>2, SameRules DEF Release, OutsideWrite, UpstreamState!Release, UpstreamState!Next
<1>3. CASE Damage
    BY <1>3, SameRules DEF Damage, OutsideWrite, UpstreamState!Damage, UpstreamState!Next
<1> QED BY <1>1, <1>2, <1>3 DEF AuthorityStep

\* A poll becomes pending by its os.replace only: what it reports as new it
\* has just recorded.
LEMMA PendingByReplace ==
    ASSUME WritePollsOnly, PollInv, Next, NEW e \in Detectors, Pending(e)'
    PROVE  /\ poll'[e].offered = poll[e].offered
           /\ \/ Pending(e)
              \/ Replace(e) /\ poll[e].verdict = "NEW_CANDIDATE"
<1> USE DEF PollInv, Pending
<1>1. CASE AuthorityStep
    BY <1>1 DEF AuthorityStep, Qualify, Release, Damage, OutsideWrite
<1>2. ASSUME NEW d \in Detectors, DetectorStep(d), d # e
      PROVE  pc'[e] = pc[e] /\ poll'[e] = poll[e]
    BY <1>2 DEF DetectorStep, Advance, Fetch, Load, Reread, OpenTemp, FlushTemp,
       Replace, WriteFails, UnlinkFails, Cleanup, Report, Crash, Fails, Poll, Goto, TypeOK
<1>3. CASE DetectorStep(e)
    <2>1. CASE Replace(e)
        BY <2>1 DEF Replace, Goto, TypeOK
    <2>2. CASE Load(e)
        <3>1. poll[e].opts.write
            BY <2>2 DEF WritePollsOnly, Load, PollOK
        <3>2. CASE ValidateProjectState(file)
            BY <2>2, <3>1, <3>2 DEF Load, Goto, Poll, TypeOK, WritableDecisions
        <3>3. CASE ~ ValidateProjectState(file)
            BY <2>2, <3>3 DEF Load, Fails, Poll, Goto, TypeOK, Polls
        <3> QED BY <3>2, <3>3
    <2>3. CASE Fetch(e)
        BY <2>3 DEF Fetch, Goto, Poll, TypeOK
    <2>4. CASE Reread(e) \/ WriteFails(e)
        BY <2>4 DEF Reread, WriteFails, UnlinkFails, Fails, Poll, Goto, TypeOK, Polls
    <2>5. CASE Cleanup(e) \/ UnlinkFails(e)
        BY <2>5 DEF Cleanup, UnlinkFails, Goto, PollOK, TypeOK
    <2>6. CASE OpenTemp(e) \/ FlushTemp(e) \/ Report(e) \/ Crash(e)
        BY <2>6 DEF OpenTemp, FlushTemp, Report, Crash, Goto, TypeOK
    <2> QED BY <1>3, <2>1, <2>2, <2>3, <2>4, <2>5, <2>6 DEF DetectorStep, Advance
<1> QED BY <1>1, <1>2, <1>3 DEF Next

\* A grant is never taken back, so a revision that gets a twin keeps it.
LEMMA GrantsStay == Next => granted \subseteq granted'
BY DEF Next, DetectorStep, Advance, Fetch, Load, Reread, OpenTemp, FlushTemp, Replace,
       WriteFails, UnlinkFails, Cleanup, Report, Crash, AuthorityStep, Qualify, Release, Damage,
       OutsideWrite

\* Every step keeps what the refinement rests on.
LEMMA NextKeepsRefInv ==
    ASSUME WritePollsOnly
    PROVE  RefInv /\ [SerialNext]_vars => RefInv'
<1> SUFFICES ASSUME RefInv, [SerialNext]_vars PROVE RefInv'
    OBVIOUS
<1>1. SerialInv'
    BY NextKeepsSerialInv DEF RefInv
<1>2. CASE UNCHANGED vars
    BY <1>1, <1>2 DEF vars, RefInv, PendingGranted, RequestsGranted, Pending
<1>3. CASE SerialNext
    <2>1. Next /\ PollInv /\ granted \subseteq granted'
        BY <1>3, GrantsStay DEF SerialNext, RefInv, SerialInv
    <2>2. ASSUME NEW d \in Detectors, Pending(d)'
          PROVE  poll'[d].offered \in granted'
        <3>1. /\ poll'[d].offered = poll[d].offered
              /\ Pending(d) \/ (Replace(d) /\ poll[d].verdict = "NEW_CANDIDATE")
            BY <2>1, <2>2, PendingByReplace
        <3> QED BY <2>1, <3>1 DEF RefInv, PendingGranted, Replace
    <2>3. RequestsGranted'
        <3>1. CASE AuthorityStep
            BY <3>1 DEF AuthorityStep, Qualify, Release, Damage, OutsideWrite, RefInv,
               RequestsGranted
        <3>2. CASE \E d \in Detectors : Report(d)
            BY <2>1, <3>2, RequestWellFormed
               DEF Report, PollOK, PollInv, Pending, RefInv, PendingGranted, RequestsGranted
        <3>3. CASE \E d \in Detectors : DetectorStep(d) /\ ~ Report(d)
            BY <2>1, <3>3, QuietSteps DEF Replace, RefInv, RequestsGranted
        <3> QED BY <2>1, <3>1, <3>2, <3>3 DEF Next
    <2> QED BY <1>1, <2>2, <2>3 DEF RefInv, PendingGranted
<1> QED BY <1>2, <1>3

\* With the writers kept apart and every poll allowed to write, concurrent
\* polling implements atomic detection: every behaviour of the processes is,
\* on the file and the requests, a behaviour of UpstreamState.
THEOREM PollingImplementsUpstreamState ==
    ASSUME WritePollsOnly
    PROVE  SerialSpec => ImplementsUpstreamState
<1>1. Init => RefInv
    BY InitSerialInv DEF RefInv, PendingGranted, RequestsGranted, Pending, Init
<1>2. Init => UpstreamState!Init
    BY DEF Init, EmptyProjectState, UpstreamState!Init, UpstreamState!EmptyProjectState
<1>3. RefInv /\ [SerialNext]_vars => [UpstreamState!Next]_(UpstreamState!vars)
    <2> SUFFICES ASSUME RefInv, [SerialNext]_vars
                 PROVE  UpstreamState!Next \/ UNCHANGED <<file, granted, requests>>
        BY DEF UpstreamState!vars
    <2>1. CASE UNCHANGED vars
        BY <2>1 DEF vars
    <2>2. CASE \E d \in Detectors : DetectorStep(d)
        BY <2>2, QuietSteps, ReplaceIsRecord, ReportIsRequest DEF RefInv
    <2>3. CASE AuthorityStep
        BY <2>3, AuthorityIsAuthority
    <2> QED BY <2>1, <2>2, <2>3 DEF SerialNext, Next
<1> QED
    BY <1>1, <1>2, <1>3, NextKeepsRefInv, PTL
       DEF SerialSpec, ImplementsUpstreamState, UpstreamState!Spec

-----------------------------------------------------------------------------
(* The candidate is the newest                                             *)

\* CandidateNewest is preserved only because what an authority may qualify
\* next, a granted revision, is no newer than the candidate either.
GrantedBelowCandidate ==
    file \in ProjectStates =>
        \A k \in Recorded(file) \cup granted :
            /\ file.candidate # Null
            /\ Rank[k.version] <= Rank[file.candidate.rev.version]

NewestInv == RefInv /\ GrantedBelowCandidate

\* Ranks are numbers.
LEMMA RankIsNatural ==
    ASSUME NEW r \in Revisions
    PROVE  Rank[r.version] \in Nat
BY RankAssumption, RevisionsAssumption

\* A decision to write means that nothing recorded is newer.
LEMMA WritableDoesNotRegress ==
    ASSUME NEW r, NEW s, CompareCandidate(r, s) \in WritableDecisions
    PROVE  ~ Regresses(r, s)
BY DEF CompareCandidate, WritableDecisions

\* A replacement records a revision that is not older.
LEMMA ReplaceKeepsNewest ==
    ASSUME NewestInv, NEW d \in Detectors, Replace(d)
    PROVE  GrantedBelowCandidate'
<1> DEFINE r == poll[d].offered
           t == poll[d].stamp
<1>1. /\ r \in Revisions
      /\ t \in Timestamps
      /\ ValidateProjectState(file)
      /\ CompareCandidate(r, file) \in WritableDecisions
      /\ file' = WithCandidate(file, r, t)
      /\ granted' \subseteq granted \cup {r}
      /\ granted \subseteq Revisions
    BY DEF NewestInv, RefInv, SerialInv, PollInv, TypeOK, BaseCurrent, Replace, PollOK,
       InWindow,
           UpdateWindow
<1> HIDE DEF r, t
<1>2. /\ file'.candidate = [rev |-> r, at |-> t]
      /\ file'.qualified = file.qualified
      /\ file'.released = file.released
    BY <1>1, ProposalAccepted
<1>3. file \in ProjectStates
    BY <1>1 DEF ValidateProjectState
<1>4. [rev |-> r, at |-> t] # Null
    BY <1>1, NullAssumption DEF CandidateRecords
<1>5. \A k \in Recorded(file) : Rank[k.version] <= Rank[r.version]
    <2>1. ASSUME NEW k \in Recorded(file)
          PROVE  Rank[k.version] <= Rank[r.version]
        <3>1. ~ (Rank[r.version] < Rank[k.version])
            BY <1>1, WritableDoesNotRegress DEF Regresses
        <3>2. Rank[k.version] \in Nat /\ Rank[r.version] \in Nat
            BY <1>1, RankIsNatural DEF Recorded
        <3> QED BY <3>1, <3>2
    <2> QED BY <2>1
<1>6. \A k \in granted : Rank[k.version] <= Rank[r.version]
    <2>1. ASSUME NEW k \in granted
          PROVE  Rank[k.version] <= Rank[r.version]
        <3>1. /\ file.candidate # Null
              /\ Rank[k.version] <= Rank[file.candidate.rev.version]
            BY <1>3 DEF NewestInv, GrantedBelowCandidate
        <3>2. file.candidate.rev \in Recorded(file)
            BY <1>3, <3>1 DEF Recorded, ProjectStates, Optional, CandidateRecords
        <3>3. Rank[file.candidate.rev.version] <= Rank[r.version]
            BY <1>5, <3>2
        <3>4. /\ Rank[k.version] \in Nat
              /\ Rank[r.version] \in Nat
              /\ Rank[file.candidate.rev.version] \in Nat
            BY <1>1, <3>2, RankIsNatural DEF Recorded
        <3> QED BY <3>1, <3>3, <3>4
    <2> QED BY <2>1
<1>7. Recorded(file') \subseteq Recorded(file) \cup {r}
    BY <1>2 DEF Recorded
<1>8. Rank[r.version] <= Rank[r.version]
    BY <1>1, RankIsNatural
<1>9. \A k \in Recorded(file') \cup granted' : Rank[k.version] <= Rank[r.version]
    BY <1>1, <1>5, <1>6, <1>7, <1>8
<1>10. file'.candidate # Null /\ file'.candidate.rev = r
    BY <1>2, <1>4
<1> QED BY <1>9, <1>10 DEF GrantedBelowCandidate

\* The outside writers do not take the candidate back.
LEMMA AuthorityKeepsNewest ==
    ASSUME NewestInv, AuthorityStep
    PROVE  GrantedBelowCandidate'
<1>1. file \in ProjectStates /\ granted' = granted
    BY DEF AuthorityStep, Qualify, Release, Damage, OutsideWrite, ValidateProjectState
<1>2. \A k \in Recorded(file) \cup granted :
        /\ file.candidate # Null
        /\ Rank[k.version] <= Rank[file.candidate.rev.version]
    BY <1>1 DEF NewestInv, GrantedBelowCandidate
<1>3. ASSUME NEW r \in Revisions, Qualify(r)
      PROVE  GrantedBelowCandidate'
    <2>1. r \in granted
        BY <1>3 DEF NewestInv, RefInv, RequestsGranted, Qualify
    <2>2. /\ file'.candidate = file.candidate
          /\ file'.qualified = r
          /\ file'.released = file.released
        BY <1>1, <1>3 DEF Qualify, ProjectStates
    <2>3. Recorded(file') \subseteq Recorded(file) \cup granted
        BY <2>1, <2>2 DEF Recorded
    <2> QED BY <1>1, <1>2, <2>2, <2>3 DEF GrantedBelowCandidate
<1>4. CASE Release
    <2>1. /\ file'.candidate = file.candidate
          /\ file'.qualified = file.qualified
          /\ file'.released = file.qualified
        BY <1>1, <1>4 DEF Release, ProjectStates
    <2>2. Recorded(file') \subseteq Recorded(file)
        BY <2>1 DEF Recorded
    <2> QED BY <1>1, <1>2, <2>1, <2>2 DEF GrantedBelowCandidate
<1>5. CASE Damage
    <2>1. CASE file' = Malformed
        BY <2>1, MalformedAssumption DEF GrantedBelowCandidate, Optional
    <2>2. CASE file' = [file EXCEPT !.qualified = Null]
        <3>1. /\ file'.candidate = file.candidate
              /\ file'.qualified = Null
              /\ file'.released = file.released
            BY <1>1, <2>2 DEF ProjectStates
        <3>2. Recorded(file') \subseteq Recorded(file)
            BY <3>1, NullAssumption DEF Recorded
        <3> QED BY <1>1, <1>2, <3>1, <3>2 DEF GrantedBelowCandidate
    <2> QED BY <1>5, <2>1, <2>2 DEF Damage
<1> QED BY <1>3, <1>4, <1>5 DEF AuthorityStep

\* Nothing is recorded or granted at first.
LEMMA InitNewestInv == Init => NewestInv
<1>1. Init => RefInv
    BY InitSerialInv DEF RefInv, PendingGranted, RequestsGranted, Pending, Init
<1>2. Init => GrantedBelowCandidate
    BY NullAssumption DEF Init, EmptyProjectState, GrantedBelowCandidate, Recorded
<1> QED BY <1>1, <1>2 DEF NewestInv

\* Every step keeps the candidate the newest of what is recorded or granted.
LEMMA NextKeepsNewestInv ==
    ASSUME WritePollsOnly
    PROVE  NewestInv /\ [SerialNext]_vars => NewestInv'
<1> SUFFICES ASSUME NewestInv, [SerialNext]_vars PROVE NewestInv'
    OBVIOUS
<1>1. RefInv'
    BY NextKeepsRefInv DEF NewestInv
<1>2. CASE UNCHANGED <<file, granted>>
    BY <1>1, <1>2 DEF NewestInv, GrantedBelowCandidate
<1>3. CASE \E d \in Detectors : Replace(d)
    BY <1>1, <1>3, ReplaceKeepsNewest DEF NewestInv
<1>4. CASE AuthorityStep
    BY <1>1, <1>4, AuthorityKeepsNewest DEF NewestInv
<1>5. CASE \E d \in Detectors : DetectorStep(d) /\ ~ Replace(d)
    <2>1. UNCHANGED <<file, granted>>
        BY <1>5, QuietSteps DEF Report
    <2> QED BY <1>2, <2>1
<1> QED BY <1>2, <1>3, <1>4, <1>5 DEF SerialNext, Next, vars

\* No recorded revision is ever newer than the candidate, however many polls,
\* crashes and promotions have happened: what is qualified or released was a
\* candidate once, and CompareCandidate refuses a regression.
THEOREM CandidateStaysNewest ==
    ASSUME WritePollsOnly
    PROVE  SerialSpec => []CandidateNewest
<1>1. NewestInv => CandidateNewest
    BY DEF NewestInv, GrantedBelowCandidate, CandidateNewest
<1> QED BY <1>1, InitNewestInv, NextKeepsNewestInv, PTL DEF SerialSpec

-----------------------------------------------------------------------------
(* A revision is dispatched once                                           *)

\* Another revision of the same rank has been recorded as new.
Twinned(r) == \E g \in granted : g # r /\ Rank[g.version] = Rank[r.version]

\* What the document names was recorded as new, also when the decision that
\* wrote it was another one: an accepted revision was a candidate before.
RecordedGranted == file \in ProjectStates => Recorded(file) \subseteq granted

\* As long as a revision has no twin, there is one dispatch of it: either it
\* is still to come, in one process, or it has been.
DispatchedOnce ==
    \A d \in Detectors :
        Pending(d) /\ ~ Twinned(poll[d].offered) =>
            /\ \A q \in requests : q.candidate # poll[d].offered
            /\ \A e \in Detectors :
                Pending(e) /\ poll[e].offered = poll[d].offered => e = d

OnceInv == NewestInv /\ RecordedGranted /\ DispatchedOnce

\* NEW_CANDIDATE means that the revision is not in the document, and that
\* nothing in it is newer.
LEMMA NewIsNew ==
    ASSUME NEW r, NEW s, CompareCandidate(r, s) = "NEW_CANDIDATE"
    PROVE  /\ ~ Regresses(r, s)
           /\ s.qualified # r /\ s.released # r
           /\ s.candidate # Null => s.candidate.rev # r
BY DEF CompareCandidate

\* An accepted revision is one the document names.
LEMMA AlreadyIsRecorded ==
    ASSUME NEW r \in Revisions, NEW s, CompareCandidate(r, s) \in WritableDecisions,
           CompareCandidate(r, s) # "NEW_CANDIDATE"
    PROVE  r \in Recorded(s)
BY DEF CompareCandidate, WritableDecisions, Recorded

\* The reason for the property: a revision recorded as new a second time is
\* not the candidate, and ranks neither below nor above it.
LEMMA RegrantedHasTwin ==
    ASSUME OnceInv, NEW r \in granted, ValidateProjectState(file),
           CompareCandidate(r, file) = "NEW_CANDIDATE"
    PROVE  Twinned(r)
<1>1. file \in ProjectStates /\ granted \subseteq Revisions
    BY DEF ValidateProjectState, OnceInv, NewestInv, RefInv, SerialInv, PollInv, TypeOK
<1>2. file.candidate # Null /\ Rank[r.version] <= Rank[file.candidate.rev.version]
    BY <1>1 DEF OnceInv, NewestInv, GrantedBelowCandidate
<1> DEFINE k == file.candidate.rev
<1>3. k \in Recorded(file)
    BY <1>1, <1>2 DEF Recorded, ProjectStates, Optional, CandidateRecords
<1>4. k \in granted
    BY <1>1, <1>3 DEF OnceInv, RecordedGranted
<1>5. k # r
    BY <1>2, NewIsNew
<1>6. ~ (Rank[r.version] < Rank[k.version])
    BY <1>3, NewIsNew DEF Regresses
<1>7. Rank[r.version] \in Nat /\ Rank[k.version] \in Nat
    BY <1>1, <1>4, RankIsNatural
<1>8. Rank[k.version] = Rank[r.version]
    BY <1>2, <1>6, <1>7
<1> QED BY <1>4, <1>5, <1>8 DEF Twinned

\* os.replace records a granted revision, or grants it.
LEMMA ReplaceKeepsRecorded ==
    ASSUME OnceInv, NEW d \in Detectors, Replace(d)
    PROVE  RecordedGranted'
<1> DEFINE r == poll[d].offered
           t == poll[d].stamp
<1>1. /\ r \in Revisions
      /\ t \in Timestamps
      /\ ValidateProjectState(file)
      /\ CompareCandidate(r, file) \in WritableDecisions
      /\ poll[d].verdict = CompareCandidate(r, file)
      /\ file' = WithCandidate(file, r, t)
      /\ granted' = IF poll[d].verdict = "NEW_CANDIDATE" THEN granted \cup {r} ELSE granted
    BY DEF OnceInv, NewestInv, RefInv, SerialInv, PollInv, BaseCurrent, Replace, PollOK,
           InWindow, UpdateWindow
<1> HIDE DEF r, t
<1>2. Recorded(file) \subseteq granted
    BY <1>1 DEF OnceInv, RecordedGranted, ValidateProjectState
<1>3. r \in granted'
    BY <1>1, <1>2, AlreadyIsRecorded
<1>4. /\ file'.candidate = [rev |-> r, at |-> t]
      /\ file'.qualified = file.qualified
      /\ file'.released = file.released
    BY <1>1, ProposalAccepted
<1>5. Recorded(file') \subseteq Recorded(file) \cup {r}
    BY <1>4 DEF Recorded
<1>6. granted \subseteq granted'
    BY <1>1
<1> QED BY <1>2, <1>3, <1>5, <1>6 DEF RecordedGranted

\* The authorities only move what is recorded or was asked for.
LEMMA AuthorityKeepsRecorded ==
    ASSUME OnceInv, AuthorityStep
    PROVE  RecordedGranted'
<1>1. file \in ProjectStates /\ granted' = granted
    BY DEF AuthorityStep, Qualify, Release, Damage, OutsideWrite, ValidateProjectState
<1>2. Recorded(file) \subseteq granted
    BY <1>1 DEF OnceInv, RecordedGranted
<1>3. ASSUME NEW r \in Revisions, Qualify(r)
      PROVE  RecordedGranted'
    <2>1. r \in granted
        BY <1>3 DEF OnceInv, NewestInv, RefInv, RequestsGranted, Qualify
    <2>2. /\ file'.candidate = file.candidate
          /\ file'.qualified = r
          /\ file'.released = file.released
        BY <1>1, <1>3 DEF Qualify, ProjectStates
    <2> QED BY <1>1, <1>2, <2>1, <2>2 DEF RecordedGranted, Recorded
<1>4. CASE Release
    <2>1. /\ file'.candidate = file.candidate
          /\ file'.qualified = file.qualified
          /\ file'.released = file.qualified
        BY <1>1, <1>4 DEF Release, ProjectStates
    <2> QED BY <1>1, <1>2, <2>1 DEF RecordedGranted, Recorded
<1>5. CASE Damage
    <2>1. CASE file' = Malformed
        BY <2>1, MalformedAssumption DEF RecordedGranted, Optional
    <2>2. CASE file' = [file EXCEPT !.qualified = Null]
        <3>1. /\ file'.candidate = file.candidate
              /\ file'.qualified = Null
              /\ file'.released = file.released
            BY <1>1, <2>2 DEF ProjectStates
        <3> QED BY <1>1, <1>2, <3>1, NullAssumption DEF RecordedGranted, Recorded
    <2> QED BY <1>5, <2>1, <2>2 DEF Damage
<1> QED BY <1>3, <1>4, <1>5 DEF AuthorityStep

\* What os.replace grants without a twin was never granted.
LEMMA GrantIsFresh ==
    ASSUME OnceInv, NEW d \in Detectors, Replace(d), poll[d].verdict = "NEW_CANDIDATE",
           ~ Twinned(poll[d].offered)
    PROVE  poll[d].offered \notin granted
<1>1. /\ ValidateProjectState(file)
      /\ CompareCandidate(poll[d].offered, file) = "NEW_CANDIDATE"
    BY DEF OnceInv, NewestInv, RefInv, SerialInv, PollInv, BaseCurrent, Replace, PollOK,
           InWindow, UpdateWindow
<1> QED BY <1>1, RegrantedHasTwin

\* A new request is made by the report of a pending poll.
LEMMA RequestsByReport ==
    ASSUME RefInv, Next, NEW q \in requests', q \notin requests
    PROVE  \E d \in Detectors :
              Pending(d) /\ ~ Pending(d)' /\ q.candidate = poll[d].offered
<1>1. CASE AuthorityStep
    BY <1>1 DEF AuthorityStep, Qualify, Release, Damage, OutsideWrite
<1>2. ASSUME NEW d \in Detectors, DetectorStep(d)
      PROVE  Pending(d) /\ ~ Pending(d)' /\ q.candidate = poll[d].offered
    <2>1. Report(d)
        BY <1>2, QuietSteps DEF Replace
    <2>2. /\ poll[d].verdict = "NEW_CANDIDATE"
          /\ q = BuildQualificationRequest(poll[d].offered, poll[d].base)
        BY <2>1 DEF Report
    <2>3. q.candidate = poll[d].offered
        BY <2>2 DEF BuildQualificationRequest
    <2>4. pc[d] = "report" /\ pc'[d] = "idle"
        BY <2>1 DEF Report, Goto, RefInv, SerialInv, PollInv, TypeOK
    <2> QED BY <2>2, <2>3, <2>4 DEF Pending
<1> QED BY <1>1, <1>2 DEF Next

\* A step leaves at most one dispatch of a revision without a twin.
LEMMA NextKeepsDispatchedOnce ==
    ASSUME WritePollsOnly, OnceInv, SerialNext
    PROVE  DispatchedOnce'
<1> SUFFICES ASSUME NEW e \in Detectors, Pending(e)', ~ Twinned(poll[e].offered)'
             PROVE  /\ \A q \in requests' : q.candidate # poll'[e].offered
                    /\ \A f \in Detectors :
                        Pending(f)' /\ poll'[f].offered = poll'[e].offered => f = e
    BY DEF DispatchedOnce
<1> DEFINE r == poll[e].offered
<1>1. Next /\ PollInv /\ RefInv
    BY DEF SerialNext, OnceInv, NewestInv, RefInv, SerialInv
<1>2. poll'[e].offered = r
    BY <1>1, PendingByReplace
<1>3. ~ Twinned(r)
    BY <1>1, <1>2, GrantsStay DEF Twinned
<1>4. CASE Pending(e)
    <2>1. r \in granted
        BY <1>1, <1>4 DEF RefInv, PendingGranted
    <2>2. /\ \A q \in requests : q.candidate # r
          /\ \A f \in Detectors : Pending(f) /\ poll[f].offered = r => f = e
        BY <1>3, <1>4 DEF OnceInv, DispatchedOnce
    <2>3. ASSUME NEW q \in requests'
          PROVE  q.candidate # r
        <3>1. CASE q \in requests
            BY <2>2, <3>1
        <3>2. CASE q \notin requests
            <4>1. PICK d \in Detectors :
                    Pending(d) /\ ~ Pending(d)' /\ q.candidate = poll[d].offered
                BY <1>1, <3>2, RequestsByReport
            <4>2. d # e
                BY <4>1
            <4> QED BY <2>2, <4>1, <4>2
        <3> QED BY <3>1, <3>2
    <2>4. ASSUME NEW f \in Detectors, Pending(f)', poll'[f].offered = r
          PROVE  f = e
        <3>1. /\ poll[f].offered = r
              /\ Pending(f) \/ (Replace(f) /\ poll[f].verdict = "NEW_CANDIDATE")
            BY <1>1, <2>4, PendingByReplace
        <3>2. CASE Pending(f)
            BY <2>2, <3>1, <3>2
        <3>3. CASE Replace(f) /\ poll[f].verdict = "NEW_CANDIDATE"
            BY <1>3, <2>1, <3>1, <3>3, GrantIsFresh
        <3> QED BY <3>1, <3>2, <3>3
    <2> QED BY <1>2, <2>3, <2>4
<1>5. CASE Replace(e) /\ poll[e].verdict = "NEW_CANDIDATE"
    <2>1. r \notin granted
        BY <1>3, <1>5, GrantIsFresh
    <2>2. \A q \in requests' : q.candidate # r
        BY <1>1, <1>5, <2>1 DEF Replace, RefInv, RequestsGranted
    <2>3. ASSUME NEW f \in Detectors, Pending(f)', poll'[f].offered = r
          PROVE  f = e
        <3>1. /\ poll[f].offered = r
              /\ Pending(f) \/ Replace(f)
            BY <1>1, <2>3, PendingByReplace
        <3>2. ~ Pending(f)
            BY <1>1, <2>1, <3>1 DEF RefInv, PendingGranted
        <3>3. InWindow(e) /\ InWindow(f)
            BY <1>5, <3>1, <3>2 DEF Replace, InWindow, UpdateWindow
        <3> QED BY <1>1, <3>3 DEF RefInv, SerialInv, BaseCurrent
    <2> QED BY <1>2, <2>2, <2>3
<1> QED BY <1>1, <1>4, <1>5, PendingByReplace

\* A revision is handed to qualification again only if another one of its rank
\* was recorded: two polls that detect one revision do not both dispatch it,
\* and neither does a poll after a crash.
THEOREM DispatchedOnceWithoutFlip ==
    ASSUME WritePollsOnly
    PROVE  SerialSpec => RedispatchOnlyAfterFlip
<1>1. Init => OnceInv
    <2>1. Init => RecordedGranted /\ DispatchedOnce
        BY NullAssumption
           DEF Init, EmptyProjectState, RecordedGranted, Recorded, DispatchedOnce, Pending
    <2> QED BY <2>1, InitNewestInv DEF OnceInv
<1>2. OnceInv /\ [SerialNext]_vars => OnceInv'
    <2> SUFFICES ASSUME OnceInv, [SerialNext]_vars PROVE OnceInv'
        OBVIOUS
    <2>1. NewestInv'
        BY NextKeepsNewestInv DEF OnceInv
    <2>2. CASE UNCHANGED vars
        BY <2>1, <2>2 DEF vars, OnceInv, RecordedGranted, DispatchedOnce, Pending, Twinned
    <2>3. CASE SerialNext
        <3>1. DispatchedOnce'
            BY <2>3, NextKeepsDispatchedOnce
        <3>2. RecordedGranted'
            <4>1. CASE \E d \in Detectors : Replace(d)
                BY <4>1, ReplaceKeepsRecorded
            <4>2. CASE AuthorityStep
                BY <4>2, AuthorityKeepsRecorded
            <4>3. CASE \E d \in Detectors : DetectorStep(d) /\ ~ Replace(d)
                <5>1. UNCHANGED <<file, granted>>
                    BY <4>3, QuietSteps DEF Report
                <5> QED BY <5>1 DEF OnceInv, RecordedGranted
            <4> QED BY <2>3, <4>1, <4>2, <4>3 DEF SerialNext, Next
        <3> QED BY <2>1, <3>1, <3>2 DEF OnceInv
    <2> QED BY <2>2, <2>3
<1>3. ASSUME OnceInv
      PROVE  [\A d \in Detectors :
                Dispatches(d) /\ (\E q \in requests : q.candidate = poll[d].offered) =>
                    \E g \in granted :
                        /\ g # poll[d].offered
                        /\ Rank[g.version] = Rank[poll[d].offered.version]]_vars
    BY <1>3 DEF OnceInv, DispatchedOnce, Dispatches, Report, Pending, Twinned
<1> QED BY <1>1, <1>2, <1>3, PTL DEF SerialSpec, RedispatchOnlyAfterFlip

-----------------------------------------------------------------------------
(* The recorded candidate, and who still has to hand it over               *)

\* Every poll prints its report in JSON, the form that carries requests.
JsonPollsOnly == \A o \in Options : o.json

\* Qualification was asked for r, or a running process is about to ask.
InHand(r) ==
    \/ faults > 0
    \/ \E q \in requests : q.candidate = r
    \/ \E d \in Detectors : Pending(d) /\ poll[d].offered = r

\* What RecordedIsRequested needs of every state on the way.
CandidateInHand == file \in ProjectStates /\ file.candidate # Null => InHand(file.candidate.rev)

\* A pending report is printed, or its process dies.
LEMMA PendingStays ==
    ASSUME JsonPollsOnly, PollInv, Next, NEW d \in Detectors, Pending(d)
    PROVE  \/ Pending(d)' /\ poll'[d].offered = poll[d].offered
           \/ \E q \in requests' : q.candidate = poll[d].offered
           \/ faults' > 0
<1>1. CASE Report(d)
    <2>1. /\ poll[d].opts.json /\ poll[d].offered \in Revisions
          /\ ValidateProjectState(poll[d].base)
        BY <1>1 DEF JsonPollsOnly, PollInv, PollOK, Pending, Report
    <2> DEFINE q == BuildQualificationRequest(poll[d].offered, poll[d].base)
    <2>2. q \in requests' /\ q.candidate = poll[d].offered
        BY <1>1, <2>1, RequestWellFormed DEF Report, Pending
    <2> QED BY <2>2
<1>2. CASE Crash(d)
    BY <1>2, BoundsAssumption DEF Crash, PollInv, TypeOK
<1>3. ASSUME NEW e \in Detectors, DetectorStep(e), e # d
      PROVE  pc'[d] = pc[d] /\ poll'[d] = poll[d]
    BY <1>3 DEF DetectorStep, Advance, Fetch, Load, Reread, OpenTemp, FlushTemp, Replace,
       WriteFails, UnlinkFails, Cleanup, Report, Crash, Fails, Poll, Goto, PollInv, TypeOK
<1>4. DetectorStep(d) => Report(d) \/ Crash(d)
    BY DEF Pending, DetectorStep, Advance, Fetch, Load, Reread, OpenTemp, FlushTemp, Replace,
       WriteFails, UnlinkFails, Cleanup, UpdateWindow
<1>5. CASE AuthorityStep
    BY <1>5 DEF AuthorityStep, Qualify, Release, Damage, OutsideWrite, Pending
<1> QED BY <1>1, <1>2, <1>3, <1>4, <1>5 DEF Next, Pending

\* So a revision in hand stays in hand.
LEMMA InHandStays ==
    ASSUME JsonPollsOnly, PollInv, Next, NEW r, InHand(r)
    PROVE  InHand(r)'
<1>1. CASE faults > 0
    <2>1. faults' > 0
        BY <1>1, BoundsAssumption
           DEF PollInv, TypeOK, Next, DetectorStep, Advance, AuthorityStep, Fetch, Load,
               Reread, OpenTemp, FlushTemp, Replace, WriteFails, UnlinkFails, Cleanup,
               Report, Crash, Qualify, Release, Damage, OutsideWrite
    <2> QED BY <2>1 DEF InHand
<1>2. CASE \E q \in requests : q.candidate = r
    BY <1>2, RequestsStay DEF InHand
<1>3. CASE \E d \in Detectors : Pending(d) /\ poll[d].offered = r
    BY <1>3, PendingStays DEF InHand
<1> QED BY <1>1, <1>2, <1>3 DEF InHand

\* The poll that records a revision as new is about to report it; one that
\* records an accepted revision again finds that it was asked for.
LEMMA ReplacedIsInHand ==
    ASSUME RequestedInv, NEW d \in Detectors, Replace(d)
    PROVE  CandidateInHand'
<1> PICK r \in Revisions, base \in ProjectStates : r = poll[d].offered /\ base = poll[d].base
    BY DEF RequestedInv, PollInv, PollOK, Replace, UpdateWindow, ValidateProjectState
<1>1. /\ TypeOK /\ poll[d].stamp \in Timestamps /\ ValidateProjectState(base)
      /\ poll[d].verdict = CompareCandidate(r, base) /\ poll[d].verdict \in WritableDecisions
    BY DEF RequestedInv, PollInv, PollOK, Replace, UpdateWindow
<1>2. file'.candidate.rev = r
    <2>1. file' = WithCandidate(base, r, poll[d].stamp)
        BY DEF Replace
    <2>2. base.candidate \in Optional(CandidateRecords) /\ base \in ProjectStates
        BY DEF ProjectStates
    <2>3. WithCandidate(base, r, poll[d].stamp).candidate = [rev |-> r, at |-> poll[d].stamp]
        BY <1>1, <2>2 DEF WithCandidate, ProjectStates
    <2> QED BY <2>1, <2>3
<1>3. CASE poll[d].verdict = "NEW_CANDIDATE"
    <2>1. Pending(d)' /\ poll'[d].offered = r
        BY <1>1, <1>3 DEF Replace, Goto, TypeOK, Pending
    <2>2. InHand(r)'
        BY <2>1 DEF InHand
    <2> QED BY <1>2, <2>2 DEF CandidateInHand
<1>4. CASE poll[d].verdict # "NEW_CANDIDATE"
    <2>1. r = base.qualified \/ r = base.released
        BY <1>1, <1>4 DEF WritableDecisions, CompareCandidate
    <2>2. Requested(r) /\ r # Null
        BY <1>1, <2>1, NullAssumption DEF RequestedInv, AcceptedWereRequested, AcceptedRequested
    <2>3. InHand(r)'
        BY <2>2 DEF Replace, Requested, InHand
    <2> QED BY <1>2, <2>3 DEF CandidateInHand
<1> QED BY <1>3, <1>4

\* Until a fault hits, in every interleaving, a recorded candidate was handed
\* to qualification or some process is about to do so: races overwrite what
\* others recorded, and still lose no request.  After a crash between
\* os.replace and the report nobody may be left to make it.
THEOREM NoRequestIsLost ==
    ASSUME JsonPollsOnly
    PROVE  Spec => []CandidateInHand
<1>1. Init => CandidateInHand
    BY DEF Init, EmptyProjectState, CandidateInHand
<1>2. RequestedInv /\ CandidateInHand /\ [Next]_vars => CandidateInHand'
    <2> SUFFICES ASSUME RequestedInv, CandidateInHand, [Next]_vars PROVE CandidateInHand'
        OBVIOUS
    <2>1. CASE UNCHANGED vars
        BY <2>1 DEF vars, CandidateInHand, InHand, Pending
    <2>2. ASSUME NEW d \in Detectors, Replace(d)
          PROVE  CandidateInHand'
        BY <2>2, ReplacedIsInHand
    <2>3. ASSUME Next,
                 file' \in ProjectStates => file \in ProjectStates /\ file'.candidate = file.candidate
          PROVE  CandidateInHand'
        BY <2>3, InHandStays DEF CandidateInHand, RequestedInv
    <2>4. ASSUME NEW d \in Detectors, DetectorStep(d), ~ Replace(d)
          PROVE  file' = file
        BY <2>4, DetectorFileSteps DEF RequestedInv
    <2>5. ASSUME AuthorityStep, file' \in ProjectStates
          PROVE  file \in ProjectStates /\ file'.candidate = file.candidate
        BY <2>5, MalformedAssumption DEF AuthorityStep, Qualify, Release, Damage, OutsideWrite,
           ValidateProjectState, ProjectStates, Optional
    <2> QED BY <2>1, <2>2, <2>3, <2>4, <2>5 DEF Next
<1> QED BY <1>1, <1>2, RequestedInvariant, PTL DEF Spec
=============================================================================
