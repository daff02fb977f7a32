SPECIFICATION Spec
CONSTANTS
    all = all
    fewer = fewer
    Collectors = {c1}
    Finishers = {f1}
    Paths = {e1, e2}
    Outputs = {o1}
    Args <- MCArgs
    ArgsOf <- MCArgsOf
    Wider <- MCWider
    MaxEdits = 1
    Null = Null
INVARIANTS
    PassNeedsSuccessfulBuild
CHECK_DEADLOCK FALSE
