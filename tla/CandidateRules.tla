--------------------------- MODULE CandidateRules ---------------------------
(***************************************************************************)
(* The pure part of scripts/chromium_update.py: the documents kept in      *)
(* state/upstream.json, the test that accepts one, and the comparison of a *)
(* detected Stable revision with an accepted document.                     *)
(*                                                                         *)
(* A revision is a Chrome version with a Chromium SHA.  A version is       *)
(* compared in two ways by the code: as text (RevisionMatches, the         *)
(* conflict test) and as the tuple of integers ParseVersion makes of it    *)
(* (the regression test), so that "1.2.3.4" and "1.2.3.04" are different   *)
(* versions of equal rank.  Rank stands for ParseVersion.                  *)
(*                                                                         *)
(* Malformed is every content LoadProjectState rejects before it looks at  *)
(* the three records together: unreadable, not JSON, unknown keys, a       *)
(* record with a bad field.                                                *)
(***************************************************************************)
EXTENDS Naturals

CONSTANTS
    Versions,    \* the version texts upstream can publish
    Shas,        \* the Chromium SHAs upstream can publish
    Rank,        \* ParseVersion: the order of a version text
    Revisions,   \* the (version, sha) pairs upstream can publish
    Timestamps,  \* the values CurrentUtcTimestamp can return
    Null,        \* JSON null, Python None
    Malformed    \* a state file that cannot be loaded

CandidateRecords == [rev : Revisions, at : Timestamps]

Optional(S) == S \cup {Null}

\* The documents whose three records are each well formed.  The level and
\* the times of "qualified" and "released" never decide anything.
ProjectStates ==
    [candidate : Optional(CandidateRecords),
     qualified : Optional(Revisions),
     released  : Optional(Revisions)]

ASSUME RankAssumption == Rank \in [Versions -> Nat]
ASSUME RevisionsAssumption == Revisions \subseteq [version : Versions, sha : Shas]
ASSUME NullAssumption ==
    /\ Null \notin Revisions
    /\ Null \notin CandidateRecords
    /\ Null \notin Timestamps
    /\ Null \notin ProjectStates
ASSUME MalformedAssumption == Malformed \notin Optional(ProjectStates)

-----------------------------------------------------------------------------

EmptyProjectState == [candidate |-> Null, qualified |-> Null, released |-> Null]

\* The cross-record rule of ValidateProjectState: a release needs a
\* qualified record.
ValidateProjectState(s) ==
    /\ s \in ProjectStates
    /\ s.released # Null => s.qualified # Null

\* The revisions a document names, in any of its three records.
Recorded(s) ==
    {r \in Revisions : \/ s.candidate # Null /\ s.candidate.rev = r
                       \/ s.qualified = r
                       \/ s.released = r}

\* A SHA already recorded with a different version text.
Conflicts(r, s) == \E k \in Recorded(s) : k.sha = r.sha /\ k.version # r.version

\* Mutated form: only the qualified record is looked at.
RegressesQualifiedOnly(r, s) ==
    s.qualified # Null /\ Rank[r.version] < Rank[s.qualified.version]

\* Older than something recorded.
Regresses(r, s) == \E k \in Recorded(s) : Rank[r.version] < Rank[k.version]

\* The decision, with the early returns of the code in their order.
CompareCandidate(r, s) ==
    IF Conflicts(r, s) THEN "UPSTREAM_CONFLICT"
    ELSE IF Regresses(r, s) THEN "UPSTREAM_REGRESSION"
    ELSE IF s.released = r THEN "CANDIDATE_ALREADY_RELEASED"
    ELSE IF s.qualified = r THEN "CANDIDATE_ALREADY_QUALIFIED"
    ELSE IF s.candidate # Null /\ s.candidate.rev = r THEN "NO_CHANGE"
    ELSE "NEW_CANDIDATE"

ComparisonDecisions ==
    {"UPSTREAM_CONFLICT", "UPSTREAM_REGRESSION", "CANDIDATE_ALREADY_RELEASED",
     "CANDIDATE_ALREADY_QUALIFIED", "NO_CHANGE", "NEW_CANDIDATE"}

FailureDecisions ==
    {"FETCH_FAILED", "INVALID_UPSTREAM", "INVALID_STATE", "STATE_WRITE_FAILED"}

Decisions == ComparisonDecisions \cup FailureDecisions

\* The decisions after which a poll run with --write-candidate writes.
WritableDecisions ==
    {"NEW_CANDIDATE", "CANDIDATE_ALREADY_QUALIFIED", "CANDIDATE_ALREADY_RELEASED"}

\* Mutated form: DetectedAt is dropped.
WithCandidateUnstamped(s, r, t) == [s EXCEPT !.candidate = [rev |-> r, at |-> Null]]

\* Mutated form: the proposal starts from EmptyProjectState, not the document.
WithCandidateFromEmpty(s, r, t) ==
    [EmptyProjectState EXCEPT !.candidate = [rev |-> r, at |-> t]]

\* The proposed document of UpdateCandidateState.
WithCandidate(s, r, t) == [s EXCEPT !.candidate = [rev |-> r, at |-> t]]

\* What BuildQualificationRequest hands to the qualification pipeline.
BuildQualificationRequest(r, s) == [candidate |-> r, previous |-> s.qualified]

QualificationRequests == [candidate : Revisions, previous : Optional(Revisions)]
=============================================================================
