---------------------------- MODULE MCRepository ----------------------------
(***************************************************************************)
(* An instance of Repository for TLC: a series of two good patches, the    *)
(* policy's baseline, and paths of up to two segments, two of which differ *)
(* in case only.                                                           *)
(***************************************************************************)
EXTENDS Repository, TLC

CONSTANTS n1, n2, odd,                                \* names of patches
    official, compose, apiKey, token, glic, other,    \* names of settings
    s1, s2,                                           \* services
    True, One, Text, Secret, Escaped,                 \* values
    a, A, b, nul                                      \* segments

MCNumberOf == n1 :> 1 @@ n2 :> 2 @@ odd :> 0
MCSeries == <<n1, n2>>
MCSeriesVariants == UNION {[1 .. n -> PatchNames] : n \in 0 .. 2}

Patch(k, c) == [kind |-> k, content |-> c]
MCPatches == n1 :> Patch("FILE", "GOOD") @@ n2 :> Patch("FILE", "GOOD") @@ odd :> Null
MCPatchVariants ==
    {Patch("LINK", "GOOD"), Patch("OTHER", "GOOD"), Null}
        \cup {Patch("FILE", c) : c \in Contents}

MCTypeOf ==
    [v \in {False, True} |-> "bool"] @@ [v \in {Zero, One} |-> "int"]
        @@ [v \in {EmptyText, Text, Secret, Escaped} |-> "str"]
MCPythonPairs == {<<False, Zero>>, <<Zero, False>>, <<True, One>>, <<One, True>>}

Setting(c, r, e, s) ==
    [classification |-> c, requirement |-> r, expected |-> e,
     stability |-> IF c = "PRODUCT_CHOICE" THEN "PREFERRED" ELSE "INVARIANT",
     services |-> s]
Defense(r, e) == Setting("EXPLICIT_DEFENSE", r, e, {})
List(vs) == [list |-> TRUE, values |-> vs]

MCRequired ==
    Official :> Defense("EXACT_VALUE", Scalar(False))
        @@ apiKey :> Defense("REQUIRED_EMPTY_STRING", Scalar(EmptyText))
        @@ compose :> Setting("PRODUCT_CHOICE", "EXACT_VALUE", Scalar(False), {})
MCManifest ==
    [n \in SettingNames |-> IF n \in Baseline THEN Required[n] ELSE NoSetting]
MCSettingVariants ==
    {Defense("EXACT_VALUE", Scalar(v)) : v \in Values}
        \cup {Defense("FORBIDDEN_VALUE", Scalar(EmptyText)),
              Defense("REQUIRED_EMPTY_STRING", Scalar(EmptyText)),
              Defense("ALLOWED_SET", List({False, True})),
              Defense("ALLOWED_SET", List({True, One})),
              Setting("PRODUCT_CHOICE", "EXACT_VALUE", Scalar(True), {s1}),
              [Defense("EXACT_VALUE", Scalar(True)) EXCEPT !.stability = "PREFERRED"]}
MCApprovedVariants == {{s1}, {s2}}

MCFold == a :> a @@ A :> a @@ b :> b @@ nul :> nul
MCFileSystems == {MCFold, [s \in Segments |-> s]}
MCPaths == UNION {[1 .. n -> {a, A, b}] : n \in 1 .. 2} \cup {<<nul>>}
MCUpstream ==
    {[files |-> {<<b>>}, directories |-> {}],
     [files |-> {<<a, b>>}, directories |-> {<<a>>}],
     [files |-> {<<a>>, <<A, b>>}, directories |-> {<<A>>}]}
=============================================================================
