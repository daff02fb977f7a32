SPECIFICATION Spec
CONSTANTS
    s1 = s1
    s2 = s2
    k1 = k1
    k2 = k2
    d1 = d1
    d2 = d2
    src1 = src1
    src2 = src2
    Null = Null
    ServiceIds = {s1, s2}
    CapabilityIds = {c1}
    ConnectionIds = {k1, k2}
    Captures = {o1}
    Scenarios = {sc1}
    Triggers = {"started"}
    Conditions = {"consented"}
    UserActions = {"invoked"}
    Destinations = {d1, d2}
    Sources = {src1, src2}
    Values = {"SITE_CONTROLLED", "EXTENSION_CONTROLLED", "OTHER_THIRD_PARTY_SERVICE"}
    ServiceVariants <- MCServiceVariants
    CapabilityVariants <- MCCapabilityVariants
    ConnectionVariants <- MCConnectionVariants
INVARIANTS
    TypeOK
    PassedTrafficIsPermitted
    PassedTrafficIsNotDenied
PROPERTIES
    DenyingNeverHelps
    TrafficHidesNothing
    RemovalNeverFails
    AdoptingClassifiesNothing
CHECK_DEADLOCK FALSE
