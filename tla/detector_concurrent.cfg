SPECIFICATION FairSpec
CONSTANTS
    a = a
    b = b
    d1 = d1
    d2 = d2
    Null = Null
    Malformed = Malformed
    Versions <- MCVersions
    Rank <- MCRank
    Shas <- MCShas
    Revisions <- MCTwoRevisions
    Timestamps = {1}
    Detectors <- MCDetectors
    Options <- WritePolls
    TempNumbers = {0, 1}
    MaxFaults = 1
    MaxEdits = 2
PROPERTIES
    TempsAreRemoved
    DetectorKeepsFileValid
    EveryPollEnds
    RecordedIsRequested
    SettledRevisionIsDecided
CHECK_DEADLOCK FALSE
