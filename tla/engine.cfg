SPECIFICATION FairSpec
CONSTANTS
    p1 = p1
    p2 = p2
    Source = Source
    Downstream = Downstream
    Null = Null
    Runs = {r1, r2}
    Patches <- MCPatches
    Series <- MCSeries
    MaxEdits = 1
INVARIANTS
    TypeOK
    OneWriter
    EvidenceDescribesTree
    BundleNamesFirstFailure
    PreflightBeforeTree
    ReturnMatchesDisk
    EvidenceIsValid
PROPERTIES
    WorkspaceGetsAnswer
CHECK_DEADLOCK FALSE
