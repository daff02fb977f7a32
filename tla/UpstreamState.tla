--------------------------- MODULE UpstreamState ----------------------------
(***************************************************************************)
(* What candidate detection promises the rest of the project about         *)
(* state/upstream.json, with no processes, no temporary files and no       *)
(* interleaving: a detection is one atomic step that compares a revision   *)
(* with the document as it is and changes only its candidate record, and a *)
(* qualification request is made only for a revision recorded as new.      *)
(* The qualification and release authorities, which are not part of the    *)
(* repository, own the other two records.                                  *)
(***************************************************************************)
EXTENDS CandidateRules

VARIABLES
    file,      \* the document in state/upstream.json, or Malformed
    granted,   \* the revisions recorded under NEW_CANDIDATE
    requests   \* the qualification requests handed out

vars == <<file, granted, requests>>

Init ==
    /\ file = EmptyProjectState
    /\ granted = {}
    /\ requests = {}

\* One detection that writes: compare, and replace the candidate record.
Record(r, t) ==
    /\ ValidateProjectState(file)
    /\ CompareCandidate(r, file) \in WritableDecisions
    /\ file' = WithCandidate(file, r, t)
    /\ granted' = IF CompareCandidate(r, file) = "NEW_CANDIDATE"
                  THEN granted \cup {r} ELSE granted
    /\ UNCHANGED requests

\* A request follows a grant, after any delay; it may name a qualified
\* revision that has been superseded in the meantime.
Request(q) ==
    /\ q.candidate \in granted
    /\ requests' = requests \cup {q}
    /\ UNCHANGED <<file, granted>>

\* The qualification authority accepts a revision it was asked to qualify.
Qualify(r) ==
    /\ ValidateProjectState(file)
    /\ \E q \in requests : q.candidate = r
    /\ file' = [file EXCEPT !.qualified = r]
    /\ UNCHANGED <<granted, requests>>

\* The release authority promotes the qualified revision.
Release ==
    /\ ValidateProjectState(file)
    /\ file.qualified # Null
    /\ file' = [file EXCEPT !.released = file.qualified]
    /\ UNCHANGED <<granted, requests>>

\* Somebody edits the tracked file into something the detector must refuse.
Damage ==
    /\ ValidateProjectState(file)
    /\ \/ file' = Malformed
       \/ file.released # Null /\ file' = [file EXCEPT !.qualified = Null]
    /\ UNCHANGED <<granted, requests>>

Next ==
    \/ \E r \in Revisions, t \in Timestamps : Record(r, t)
    \/ \E q \in QualificationRequests : Request(q)
    \/ \E r \in Revisions : Qualify(r)
    \/ Release
    \/ Damage

Spec == Init /\ [][Next]_vars
=============================================================================
