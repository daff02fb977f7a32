SPECIFICATION Spec
CONSTANTS
    p1 = p1
    p2 = p2
    Null = Null
    Runs = {r1, r2}
    Workspaces = {w1, w2}
    Gates = {g1}
    Commits = {a, b}
    Patches = {p1, p2}
    Series <- MCSeries
    Tracked = {p1}
    Edits = {listed, stray, ignored}
    InFiles = {listed}
    InDiff = {}
    Ignored = {ignored}
    MaxForeign = 1
SYMMETRY Names
INVARIANTS
    TypeOK
    AcceptedTreeIsIntegrated
    EvidenceDescribesTree
    ReturnMatchesDisk
PROPERTIES
    ImplementsEvidenceStore
CHECK_DEADLOCK FALSE
