SPECIFICATION SerialSpec
CONSTANTS
    a = a
    b = b
    d1 = d1
    d2 = d2
    Null = Null
    Malformed = Malformed
    Versions <- MCVersions
    Rank <- MCRank
    Shas <- MCShas
    Revisions <- MCTwoRevisions
    Timestamps = {1, 2}
    Detectors <- MCDetectors
    Options <- WritePolls
    TempNumbers = {0, 1}
    MaxFaults = 1
    MaxEdits = 3
SYMMETRY DetectorSymmetry
INVARIANTS
    TypeOK
    CandidateNewest
PROPERTIES
    AuthorityPreserved
    WaitingCandidateKeepsTime
    ImplementsUpstreamState
CHECK_DEADLOCK FALSE
