SPECIFICATION Spec
CONSTANTS
    a = a
    b = b
    d1 = d1
    d2 = d2
    Null = Null
    Malformed = Malformed
    Versions <- MCVersions
    Rank <- MCRank
    Shas <- MCShas
    Revisions <- MCTwoRevisions
    Timestamps = {1}
    Detectors <- MCDetectors
    Options <- AllPolls
    TempNumbers = {0, 1}
    MaxFaults = 0
    MaxEdits = 3
SYMMETRY DetectorSymmetry
PROPERTIES
    AuthorityPreserved
CHECK_DEADLOCK FALSE
