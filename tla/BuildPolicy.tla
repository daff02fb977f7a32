----------------------------- MODULE BuildPolicy ----------------------------
(***************************************************************************)
(* The build policy: which manifests scripts/build_policy.py accepts, what *)
(* scripts/verify_build_policy.py writes to args.gn for one, and which     *)
(* arguments it finds to match.                                            *)
(*                                                                         *)
(* A manifest maps the names it has to their settings, which leaves no     *)
(* room for its duplicates, its order and its canonical form.              *)
(***************************************************************************)
EXTENDS FiniteSets

CONSTANTS
    SettingNames,
    Credentials,       \* CredentialSettingNames
    Official,          \* use_official_google_api_keys, one of them
    CredentialLike,    \* names that CredentialNamePattern finds
    Speculative,       \* ForbiddenSpeculativeNames
    Baseline,          \* the names of RequiredBaselineSettings
    Required,          \* and what it requires of each
    ServiceNames,
    Values,            \* JSON scalars
    TypeOf,            \* the type of each
    False, Zero, EmptyText,
    PythonPairs,       \* different values that Python calls equal
    Secrets,           \* those that SecretValuePattern finds
    Readable,          \* those that json.dumps writes and ParseScalar reads
    NoSetting

\* What a setting expects: one scalar, or the items of an array.
Expectations == [list : BOOLEAN, values : SUBSET Values]
Scalar(v) == [list |-> FALSE, values |-> {v}]
IsScalar(e) == \E v \in Values : e = Scalar(v)

Classifications == {"EXPLICIT_DEFENSE", "PRODUCT_CHOICE", "REQUIRED_INVARIANT"}
Requirements == {"ALLOWED_SET", "EXACT_VALUE", "FORBIDDEN_VALUE", "REQUIRED_EMPTY_STRING"}

Settings ==
    [classification : Classifications, requirement : Requirements, expected : Expectations,
     stability : {"INVARIANT", "PREFERRED"}, services : SUBSET ServiceNames]

Manifests == [SettingNames -> Settings \cup {NoSetting}]

ASSUME PolicyAssumption ==
    /\ Credentials \subseteq Baseline /\ Baseline \subseteq SettingNames
    /\ CredentialLike \subseteq SettingNames
    /\ Official \in Credentials
    /\ Required \in [Baseline -> Settings]
    /\ {False, Zero, EmptyText} \subseteq Values
    /\ Readable \subseteq Values
    /\ NoSetting \notin Settings

\* The names a manifest has.
Named(m) == {n \in SettingNames : m[n] # NoSetting}

ValidateExpectedValue(e, requirement) ==
    /\ requirement = "REQUIRED_EMPTY_STRING" => e = Scalar(EmptyText)
    /\ requirement = "ALLOWED_SET" =>
        /\ e.list /\ e.values # {}
        /\ \A v, w \in e.values : TypeOf[v] = TypeOf[w]
    /\ requirement \in {"EXACT_VALUE", "FORBIDDEN_VALUE"} => IsScalar(e)

\* In the last but one rule Python takes 0 for False.
ValidateSetting(n, s, approved) ==
    /\ n \notin Speculative
    /\ s.classification = "PRODUCT_CHOICE" <=> s.stability = "PREFERRED"
    /\ n = Official => s.expected = Scalar(False)
    /\ n \in Credentials \ {Official} => s.expected = Scalar(EmptyText)
    /\ ValidateExpectedValue(s.expected, s.requirement)
    /\ s.services \subseteq approved
    /\ n \in CredentialLike =>
           s.expected \in {Scalar(False), Scalar(Zero), Scalar(EmptyText)}
    /\ s.expected.values \cap Secrets = {}

\* The rule repeats the two for credentials.
ValidateRequiredBaseline(m) ==
    /\ Baseline \subseteq Named(m)
    /\ \A n \in Baseline : m[n] = Required[n]
    /\ \A n \in Credentials :
           m[n].expected = IF n = Official THEN Scalar(False) ELSE Scalar(EmptyText)

\* LoadManifest, given the services that the network policy approves.
LoadManifest(m, approved) ==
    /\ Named(m) # {}
    /\ \A n \in Named(m) : ValidateSetting(n, m[n], approved)
    /\ ValidateRequiredBaseline(m)

\* Mutated form: the values are compared by Python.
PythonEqual(v, w) == v = w \/ <<v, w>> \in PythonPairs

JsonValuesEqual(v, w) == v = w

Matches(s, v) ==
    IF s.requirement = "FORBIDDEN_VALUE"
    THEN \A w \in s.expected.values : ~ JsonValuesEqual(v, w)
    ELSE \E w \in s.expected.values : JsonValuesEqual(v, w)

\* BuildArguments refuses a policy that leaves a choice.
Buildable(m) ==
    \A n \in Named(m) : m[n].requirement \in {"EXACT_VALUE", "REQUIRED_EMPTY_STRING"}

\* What CompareArguments says of one argument that GN reports.  A text that
\* ParseScalar does not read stops the comparison.
CompareArgument(s, v) ==
    IF v \notin Readable THEN "REFUSED" ELSE IF Matches(s, v) THEN "MATCH" ELSE "MISMATCH"
=============================================================================
