SPECIFICATION Spec
CONSTANTS
    all = all
    fewer = fewer
    Collectors = {c1, c2}
    Finishers = {f1}
    Paths = {e1, e2, e3}
    Outputs = {o1}
    Args <- MCArgs
    ArgsOf <- MCArgsOf
    Wider <- MCWider
    MaxEdits = 1
    Null = Null
SYMMETRY GateSymmetry
INVARIANTS
    TypeOK
    GnSawIntegration
    ReportedArgsWereRead
    PassStandsOnBuild
PROPERTIES
    ImplementsEvidenceStore
    ArgsWrittenOnce
CHECK_DEADLOCK FALSE
