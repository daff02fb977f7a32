------------------------- MODULE CandidateDetector --------------------------
(***************************************************************************)
(* scripts/chromium_update.py as it runs: any number of detector processes *)
(* polling ChromiumDash against one state/upstream.json, with the          *)
(* qualification and release authorities and people with an editor as the  *)
(* other writers of the file.                                              *)
(*                                                                         *)
(* One action per step between which another process can act: the fetch,   *)
(* the first read with the comparison, the second read with the test that  *)
(* nothing changed, the creation of the temporary file, the end of its     *)
(* fsync, the os.replace, the unlink of a failed attempt, and the print of *)
(* the report.  A process may die before any of them.  Nothing locks the   *)
(* file: between the second read and the os.replace anything can happen.   *)
(***************************************************************************)
EXTENDS CandidateRules

CONSTANTS
    Detectors,   \* the detector processes
    Options,     \* the command lines polls are started with
    TempNumbers, \* tell the temporary files of one process apart
    MaxFaults,   \* bound: crashes and failing system calls in a behaviour
    MaxEdits     \* bound: writes of others to the file in a behaviour

ASSUME OptionsAssumption ==
    /\ Options \subseteq [json : BOOLEAN, write : BOOLEAN]
    /\ Null \notin Options
ASSUME TempNumbersAssumption == TempNumbers \subseteq Nat
ASSUME BoundsAssumption == MaxFaults \in Nat /\ MaxEdits \in Nat

VARIABLES
    file,      \* state/upstream.json: a document, or Malformed
    pc,        \* what each process does next
    poll,      \* the local variables of each process
    temp,      \* TemporaryPath of each process
    temps,     \* the temporary files on disk, beside the state file
    granted,   \* history: the revisions recorded under NEW_CANDIDATE
    requests,  \* the qualification requests printed so far
    faults,    \* crashes and failed system calls so far, bar a cleanup that fails
    edits      \* writes of others so far

vars == <<file, pc, poll, temp, temps, granted, requests, faults, edits>>

-----------------------------------------------------------------------------
(* State                                                                   *)

\* tempfile draws a name no file has.  The name is of no consequence, so a
\* file is known by the process that created it and a number.
TempFiles == Detectors \X TempNumbers

PollSteps == {"idle", "load", "reread", "open", "flush", "replace", "cleanup", "report"}

\* The steps at which a process has re-read the file and not yet replaced it.
UpdateWindow == {"open", "flush", "replace"}

\* Options, the parsed candidate, the State of ExecuteCheck, DetectedAt and
\* the decision.  A process that is not running has none of them.
Polls ==
    [opts : Optional(Options), offered : Optional(Revisions),
     base : Optional(ProjectStates), stamp : Optional(Timestamps),
     verdict : Optional(Decisions)]

Poll(o, r, s, t, decision) ==
    [opts |-> o, offered |-> r, base |-> s, stamp |-> t, verdict |-> decision]

NoPoll == Poll(Null, Null, Null, Null, Null)

TypeOK ==
    /\ file \in ProjectStates \cup {Malformed}
    /\ pc \in [Detectors -> PollSteps]
    /\ poll \in [Detectors -> Polls]
    /\ temp \in [Detectors -> Optional(TempFiles)]
    /\ temps \subseteq TempFiles
    /\ granted \subseteq Revisions
    /\ requests \subseteq QualificationRequests
    /\ faults \in 0..MaxFaults
    /\ edits \in 0..MaxEdits

Init ==
    /\ file = EmptyProjectState
    /\ pc = [d \in Detectors |-> "idle"]
    /\ poll = [d \in Detectors |-> NoPoll]
    /\ temp = [d \in Detectors |-> Null]
    /\ temps = {}
    /\ granted = {}
    /\ requests = {}
    /\ faults = 0
    /\ edits = 0

-----------------------------------------------------------------------------
(* One poll                                                                *)

Goto(d, step) == pc' = [pc EXCEPT ![d] = step]

\* The poll stops with a controlled error, which the report names; the locals
\* of ExecuteCheck go with the exception that leaves it.
Fails(d, decision, step) ==
    /\ Goto(d, step)
    /\ poll' = [poll EXCEPT ![d] = Poll(poll[d].opts, Null, Null, Null, decision)]

\* Main reads the response; ParseChromiumDashResponse accepts or refuses it.
Fetch(d) ==
    /\ pc[d] = "idle"
    /\ \E o \in Options :
        \/ \E r \in Revisions :
            /\ Goto(d, "load")
            /\ poll' = [poll EXCEPT ![d] = Poll(o, r, Null, Null, Null)]
        \/ \E failure \in {"FETCH_FAILED", "INVALID_UPSTREAM"} :
            /\ Goto(d, "report")
            /\ poll' = [poll EXCEPT ![d] = Poll(o, Null, Null, Null, failure)]
    /\ UNCHANGED <<file, temp, temps, granted, requests, faults, edits>>

\* ExecuteCheck reads the state and compares; a poll that may write takes
\* the time as it calls UpdateCandidateState.
Load(d) ==
    /\ pc[d] = "load"
    /\ \/ /\ ~ ValidateProjectState(file)
          /\ Fails(d, "INVALID_STATE", "report")
       \/ /\ ValidateProjectState(file)
          /\ LET decision == CompareCandidate(poll[d].offered, file)
                 writes   == poll[d].opts.write /\ decision \in WritableDecisions
             IN  /\ Goto(d, IF writes THEN "reread" ELSE "report")
                 /\ \E t \in IF writes THEN Timestamps ELSE {Null} :
                      poll' = [poll EXCEPT ![d] =
                                 Poll(poll[d].opts, poll[d].offered, file, t, decision)]
    /\ UNCHANGED <<file, temp, temps, granted, requests, faults, edits>>

\* Mutated form: UpdateCandidateState does not compare the two reads.
RereadUnchecked(d) ==
    /\ pc[d] = "reread"
    /\ \/ /\ ~ ValidateProjectState(file)
          /\ Fails(d, "INVALID_STATE", "report")
       \/ /\ ValidateProjectState(file)
          /\ Goto(d, "open")
          /\ UNCHANGED poll
    /\ UNCHANGED <<file, temp, temps, granted, requests, faults, edits>>

\* Mutated form: the two reads are compared by identity, so they differ.
RereadByIdentity(d) ==
    /\ pc[d] = "reread"
    /\ Fails(d, IF ValidateProjectState(file) THEN "STATE_WRITE_FAILED" ELSE "INVALID_STATE",
             "report")
    /\ UNCHANGED <<file, temp, temps, granted, requests, faults, edits>>

\* UpdateCandidateState reads again and refuses a state that has changed.
Reread(d) ==
    /\ pc[d] = "reread"
    /\ \/ /\ ~ ValidateProjectState(file)
          /\ Fails(d, "INVALID_STATE", "report")
       \/ /\ ValidateProjectState(file)
          /\ file # poll[d].base
          /\ Fails(d, "STATE_WRITE_FAILED", "report")
       \/ /\ file = poll[d].base
          /\ Goto(d, "open")
          /\ UNCHANGED poll
    /\ UNCHANGED <<file, temp, temps, granted, requests, faults, edits>>

\* A file this process has not got yet: the least number it can have.
FreshTemp(d, n) ==
    /\ <<d, n>> \notin temps
    /\ \A m \in TempNumbers : <<d, m>> \notin temps => n <= m

\* Mutated form: the temporary file has one fixed name, opened exclusively,
\* and a process waits for it.
OpenTempFixedName(d) ==
    /\ pc[d] = "open"
    /\ temps = {}
    /\ Goto(d, "flush")
    /\ \E n \in TempNumbers :
        /\ FreshTemp(d, n)
        /\ temp' = [temp EXCEPT ![d] = <<d, n>>]
        /\ temps' = {<<d, n>>}
    /\ UNCHANGED <<file, poll, granted, requests, faults, edits>>

\* Mutated form: the document is written in place, as Path.write_text would.
OpenTempInPlace(d) ==
    /\ pc[d] = "open"
    /\ Goto(d, "flush")
    /\ file' = Malformed
    /\ UNCHANGED <<poll, temp, temps, granted, requests, faults, edits>>

\* AtomicWriteJson creates its temporary file beside the state file ...
OpenTemp(d) ==
    /\ pc[d] = "open"
    /\ Goto(d, "flush")
    /\ \E n \in TempNumbers :
        /\ FreshTemp(d, n)
        /\ temp' = [temp EXCEPT ![d] = <<d, n>>]
        /\ temps' = temps \cup {<<d, n>>}
    /\ UNCHANGED <<file, poll, granted, requests, faults, edits>>

\* ... writes the proposal to it, flushes it and closes it ...
FlushTemp(d) ==
    /\ pc[d] = "flush"
    /\ Goto(d, "replace")
    /\ UNCHANGED <<file, poll, temp, temps, granted, requests, faults, edits>>

\* ... and moves it over the state file.  The proposal is the document of
\* the second read with another candidate record, whatever the file holds now.
Replace(d) ==
    /\ pc[d] = "replace"
    /\ file' = WithCandidate(poll[d].base, poll[d].offered, poll[d].stamp)
    /\ granted' = IF poll[d].verdict = "NEW_CANDIDATE"
                  THEN granted \cup {poll[d].offered} ELSE granted
    /\ temps' = temps \ {temp[d]}
    /\ temp' = [temp EXCEPT ![d] = Null]
    /\ Goto(d, "report")
    /\ UNCHANGED <<poll, requests, faults, edits>>

\* Mutated form: the error goes straight to the caller, without the "finally".
WriteFailsUncleaned(d) ==
    /\ pc[d] \in UpdateWindow
    /\ faults < MaxFaults
    /\ Fails(d, "STATE_WRITE_FAILED", "report")
    /\ faults' = faults + 1
    /\ temp' = [temp EXCEPT ![d] = Null]
    /\ UNCHANGED <<file, temps, granted, requests, edits>>

\* A system call of AtomicWriteJson raises OSError.  Creating the temporary
\* file leaves nothing to remove; a failing write, fsync or rename does.
WriteFails(d) ==
    /\ pc[d] \in UpdateWindow
    /\ faults < MaxFaults
    /\ Fails(d, "STATE_WRITE_FAILED", IF pc[d] = "open" THEN "report" ELSE "cleanup")
    /\ faults' = faults + 1
    /\ UNCHANGED <<file, temp, temps, granted, requests, edits>>

\* The "finally" of AtomicWriteJson removes the temporary file ...
Cleanup(d) ==
    /\ pc[d] = "cleanup"
    /\ Goto(d, "report")
    /\ temps' = temps \ {temp[d]}
    /\ temp' = [temp EXCEPT ![d] = Null]
    /\ UNCHANGED <<file, poll, granted, requests, faults, edits>>

\* ... or does not: an OSError of the unlink is swallowed.  The fault that
\* brought the process here is already counted.
UnlinkFails(d) ==
    /\ pc[d] = "cleanup"
    /\ Goto(d, "report")
    /\ temp' = [temp EXCEPT ![d] = Null]
    /\ UNCHANGED <<file, poll, temps, granted, requests, faults, edits>>

\* Mutated form: the decision is taken again from the file as it is now.
ReportRecompared(d) ==
    /\ pc[d] = "report"
    /\ Goto(d, "idle")
    /\ requests' = IF /\ poll[d].verdict = "NEW_CANDIDATE" /\ poll[d].opts.json
                      /\ ValidateProjectState(file)
                      /\ CompareCandidate(poll[d].offered, file) = "NEW_CANDIDATE"
                   THEN requests \cup {BuildQualificationRequest(poll[d].offered, poll[d].base)}
                   ELSE requests
    /\ poll' = [poll EXCEPT ![d] = NoPoll]
    /\ UNCHANGED <<file, temp, temps, granted, faults, edits>>

\* Main prints the report and the process ends.  Only a NEW_CANDIDATE report
\* in JSON carries a qualification request; it cites the State of the first
\* read.
Report(d) ==
    /\ pc[d] = "report"
    /\ Goto(d, "idle")
    /\ requests' = IF poll[d].verdict = "NEW_CANDIDATE" /\ poll[d].opts.json
                   THEN requests \cup {BuildQualificationRequest(poll[d].offered, poll[d].base)}
                   ELSE requests
    /\ poll' = [poll EXCEPT ![d] = NoPoll]
    /\ UNCHANGED <<file, temp, temps, granted, faults, edits>>

\* The process dies, or an exception nothing catches ends it (printing to a
\* closed pipe): no report, and a temporary file that exists stays.
Crash(d) ==
    /\ pc[d] # "idle"
    /\ faults < MaxFaults
    /\ faults' = faults + 1
    /\ Goto(d, "idle")
    /\ poll' = [poll EXCEPT ![d] = NoPoll]
    /\ temp' = [temp EXCEPT ![d] = Null]
    /\ UNCHANGED <<file, temps, granted, requests, edits>>

-----------------------------------------------------------------------------
(* The other writers of the file, which are not part of the repository     *)

\* Each of them finds a document that is valid, and changes it in one step.
OutsideWrite ==
    /\ ValidateProjectState(file)
    /\ edits < MaxEdits
    /\ edits' = edits + 1
    /\ UNCHANGED <<pc, poll, temp, temps, granted, requests, faults>>

\* The qualification authority accepts a revision it was asked to qualify.
Qualify(r) ==
    /\ OutsideWrite
    /\ \E q \in requests : q.candidate = r
    /\ file' = [file EXCEPT !.qualified = r]

\* The release authority promotes the qualified revision.
Release ==
    /\ OutsideWrite
    /\ file.qualified # Null
    /\ file' = [file EXCEPT !.released = file.qualified]

\* Somebody edits the tracked file into something the detector must refuse.
Damage ==
    /\ OutsideWrite
    /\ \/ file' = Malformed
       \/ file.released # Null /\ file' = [file EXCEPT !.qualified = Null]

-----------------------------------------------------------------------------
(* Specifications                                                          *)

Advance(d) ==
    \/ Load(d) \/ Reread(d) \/ OpenTemp(d) \/ FlushTemp(d) \/ Replace(d)
    \/ Cleanup(d) \/ Report(d)

DetectorStep(d) ==
    Fetch(d) \/ Advance(d) \/ WriteFails(d) \/ UnlinkFails(d) \/ Crash(d)

AuthorityStep == (\E r \in Revisions : Qualify(r)) \/ Release \/ Damage

Next == (\E d \in Detectors : DetectorStep(d)) \/ AuthorityStep

Spec == Init /\ [][Next]_vars

\* A process that is running keeps running.  Nothing makes anybody start a
\* poll, and nothing makes an authority act.
FairSpec == Spec /\ \A d \in Detectors : WF_vars(Advance(d))

\* The deployment that keeps the writers apart: while one process is between
\* its second read and its os.replace, no other gets that far and nobody
\* else changes the file.  The code does not enforce it.
InWindow(d) == pc[d] \in UpdateWindow

WritersApart ==
    /\ \A d, e \in Detectors : InWindow(d)' /\ InWindow(e)' => d = e
    /\ \A d \in Detectors : InWindow(d) /\ InWindow(d)' => file' = file

SerialNext == Next /\ WritersApart

SerialSpec == Init /\ [][SerialNext]_vars

-----------------------------------------------------------------------------
(* Safety                                                                  *)

\* A step of a detector process, as opposed to one of an authority.
ByDetector == pc' # pc

\* No step of a detector turns a document ValidateProjectState accepts into
\* one it refuses: not an interrupted write (AtomicWriteJson), not a crash,
\* not a race with another writer.
DetectorKeepsFileValid ==
    [][ByDetector /\ ValidateProjectState(file) => ValidateProjectState(file')]_vars

\* "The detector cannot update" qualified and released: a step that
\* replaces the file leaves both records as they were in the file
\* (UpdateCandidateState).
AuthorityPreserved ==
    [][ByDetector /\ file' # file =>
        /\ file \in ProjectStates /\ file' \in ProjectStates
        /\ file'.qualified = file.qualified
        /\ file'.released = file.released]_vars

\* No recorded revision is newer than the candidate: what is qualified or
\* released was a candidate once, and CompareCandidate refuses regressions.
CandidateNewest ==
    file \in ProjectStates =>
        \A k \in Recorded(file) :
            /\ file.candidate # Null
            /\ Rank[k.version] <= Rank[file.candidate.rev.version]

Dispatches(d) ==
    Report(d) /\ poll[d].verdict = "NEW_CANDIDATE" /\ poll[d].opts.json

\* A revision is handed to qualification a second time only if upstream
\* published another revision of the same rank, and it was recorded: two
\* processes that detect one revision do not both dispatch it (the second
\* read in UpdateCandidateState), and neither does a poll after a crash.
RedispatchOnlyAfterFlip ==
    [][\A d \in Detectors :
        Dispatches(d) /\ (\E q \in requests : q.candidate = poll[d].offered) =>
            \E g \in granted :
                /\ g # poll[d].offered
                /\ Rank[g.version] = Rank[poll[d].offered.version]]_vars

\* A detector step that leaves the recorded candidate revision in place.
KeepsRevision ==
    /\ ByDetector
    /\ file \in ProjectStates /\ file' \in ProjectStates
    /\ file.candidate # Null /\ file'.candidate # Null
    /\ file'.candidate.rev = file.candidate.rev

\* detected_at stays what it was while the candidate waits for
\* qualification, however many processes detect it again.
WaitingCandidateKeepsTime ==
    [][KeepsRevision /\ file.candidate.rev \notin {file.qualified, file.released}
        => file'.candidate.at = file.candidate.at]_vars

\* detected_at "is written only on an actual candidate change and never
\* refreshed by an unchanged poll" (docs/CANDIDATE_DETECTION.md:95-96).
UnchangedPollKeepsTime ==
    [][KeepsRevision => file'.candidate.at = file.candidate.at]_vars

\* The temporary files some process will still rename or remove, and those
\* that no process ever will.
Holds(d) == pc[d] \in {"flush", "replace", "cleanup"}
Held == {temp[d] : d \in {e \in Detectors : Holds(e)}}
Abandoned == temps \ Held

\* A temporary file is abandoned only by a process that dies holding it, or
\* whose unlink fails: every other way out of AtomicWriteJson, whichever
\* system call failed and whatever other processes created meanwhile,
\* renames or removes the file this process created (lines 497-506).
TempsAreRemoved ==
    [][\A f \in Abandoned' \ Abandoned :
        \E d \in Detectors : temp[d] = f /\ (Crash(d) \/ UnlinkFails(d))]_vars

-----------------------------------------------------------------------------
(* Liveness                                                                *)

\* A poll that has started ends, whatever the others do: a lost race is an
\* error report, never a retry.
EveryPollEnds == \A d \in Detectors : pc[d] # "idle" ~> pc[d] = "idle"

\* A recorded candidate is handed to qualification by the poll that
\* recorded it, unless a fault hits.  (After a crash between os.replace and
\* the report nobody will: the next poll says NO_CHANGE.)
RecordedIsRequested ==
    \A r \in Revisions :
        (file \in ProjectStates /\ file.candidate # Null /\ file.candidate.rev = r)
            ~> (faults > 0 \/ \E q \in requests : q.candidate = r)

OfferedTo(r, d) == pc[d] = "load" /\ poll[d].offered = r

\* If upstream settles on a revision and polls that may write keep coming,
\* the file ends up recording it, or refusing it, or damaged: no schedule
\* of racing writers leaves it forever new.
SettledRevisionIsDecided ==
    \A r \in Revisions :
        /\ <>[](\A d \in Detectors : pc[d] = "load" => OfferedTo(r, d))
        /\ []<>(\E d \in Detectors : OfferedTo(r, d) /\ poll[d].opts.write)
        => <>(\/ ~ ValidateProjectState(file)
              \/ CompareCandidate(r, file) # "NEW_CANDIDATE")

-----------------------------------------------------------------------------
(* Refinement                                                              *)

UpstreamState == INSTANCE UpstreamState

\* With the writers kept apart, polling implements the atomic detection of
\* UpstreamState, on the same file and the same requests.
ImplementsUpstreamState == UpstreamState!Spec
=============================================================================
