SPECIFICATION SerialSpec
CONSTANTS
    a = a
    b = b
    d1 = d1
    d2 = d2
    Null = Null
    Malformed = Malformed
    Versions <- MCVersions
    Rank <- MCRank
    Shas <- MCShas
    Revisions <- MCTwoRevisions
    Timestamps = {1, 2}
    Detectors = {d1}
    Options <- AllPolls
    TempNumbers = {0, 1}
    MaxFaults = 0
    MaxEdits = 3
PROPERTIES
    UnchangedPollKeepsTime
CHECK_DEADLOCK FALSE
