------------------------ MODULE MCCandidateDetector -------------------------
(***************************************************************************)
(* Instances of CandidateDetector for TLC.  Revisions are chosen so that   *)
(* every decision of CompareCandidate occurs: two SHAs of one version, one *)
(* SHA under two versions, and a second spelling of a version.             *)
(***************************************************************************)
EXTENDS CandidateDetector, TLC

CONSTANTS a, b, d1, d2

MCVersions == {"1", "01", "2"}
MCRank == "1" :> 1 @@ "01" :> 1 @@ "2" :> 2

Rev(v, s) == [version |-> v, sha |-> s]

\* Two SHAs of rank 1, spelt differently, and a newer version whose SHA is
\* that of an older one.
MCRevisions == {Rev("1", a), Rev("01", b), Rev("2", a)}

\* An older revision and a newer one.
MCTwoRevisions == {Rev("1", a), Rev("2", b)}

MCShas == {a, b}

MCDetectors == {d1, d2}

DetectorSymmetry == Permutations(MCDetectors)

WritePolls == {[json |-> TRUE, write |-> TRUE]}
AllPolls == [json : BOOLEAN, write : BOOLEAN]
=============================================================================
