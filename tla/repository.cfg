SPECIFICATION Spec
CONSTANTS
    n1 = n1
    n2 = n2
    odd = odd
    PatchNames = {n1, n2, odd}
    NumberOf <- MCNumberOf
    Null = Null
    official = official
    compose = compose
    apiKey = apiKey
    token = token
    glic = glic
    other = other
    SettingNames = {official, compose, apiKey, token, glic, other}
    Official = official
    Credentials = {official, apiKey}
    CredentialLike = {official, apiKey, token}
    Speculative = {glic}
    Baseline = {official, compose, apiKey}
    Required <- MCRequired
    s1 = s1
    s2 = s2
    ServiceNames = {s1, s2}
    False = False
    True = True
    Zero = Zero
    One = One
    EmptyText = EmptyText
    Text = Text
    Secret = Secret
    Escaped = Escaped
    Values = {False, True, Zero, One, EmptyText, Text, Secret, Escaped}
    TypeOf <- MCTypeOf
    PythonPairs <- MCPythonPairs
    Secrets = {Secret}
    Readable = {False, True, Zero, One, EmptyText, Text, Secret}
    NoSetting = NoSetting
    a = a
    A = A
    b = b
    nul = nul
    Segments = {a, A, b, nul}
    Unsafe = {nul}
    Fold <- MCFold
    FileSystems <- MCFileSystems
    Upstream <- MCUpstream
    Paths <- MCPaths
    SeriesVariants <- MCSeriesVariants
    PatchVariants <- MCPatchVariants
    SettingVariants <- MCSettingVariants
    ApprovedVariants <- MCApprovedVariants
    BaseSeries <- MCSeries
    BasePatches <- MCPatches
    BaseManifest <- MCManifest
    MaxEdits = 2
INVARIANTS
    SeriesVerdictsAgree
    PlanCanBeCarriedOut
    AcceptedPolicyHolds
CHECK_DEADLOCK FALSE
