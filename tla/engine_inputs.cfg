SPECIFICATION Spec
CONSTANTS
    p1 = p1
    p2 = p2
    Source = Source
    Downstream = Downstream
    Null = Null
    Runs = {r1}
    Patches <- MCPatches
    Series <- MCSeries
    MaxEdits = 1
INVARIANTS
    PassUsesDeclaredInputs
CHECK_DEADLOCK FALSE
