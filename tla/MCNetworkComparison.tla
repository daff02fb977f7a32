------------------------ MODULE MCNetworkComparison -------------------------
(***************************************************************************)
(* An instance of NetworkComparison for TLC: one service that a review may *)
(* give any state, rightly or wrongly, and one that a scenario expects.    *)
(***************************************************************************)
EXTENDS NetworkComparison

CONSTANTS s1, s2, k1, k2, d1, d2, src1, src2

Background == "BROWSER_NATIVE_BACKGROUND"
Conditional == "BROWSER_NATIVE_CONDITIONAL"
Triggered == "USER_TRIGGERED_SERVICE"
Third == "OTHER_THIRD_PARTY_SERVICE"

Of(scopes, v) == [f \in scopes |-> {v}]

Service(initiator, state, condition, action, expectation) ==
    [initiator |-> initiator, state |-> state,
     status |-> IF state = "UNCLASSIFIED" THEN "PENDING_REVIEW" ELSE "APPROVED",
     trigger |-> "started", allows |-> Of(Scopes, Third), condition |-> condition,
     action |-> action, replaced |-> state = "REPLACED",
     scenarios |-> [sc \in Scenarios |-> expectation], constraints |-> {{d1}}]

\* The last three are not valid.
Decisions ==
    {Service(Background, "ALLOW_BACKGROUND", Null, Null, Null),
     Service(Background, "ALLOW_BACKGROUND", Null, Null, "MUST_NOT_OBSERVE"),
     Service(Conditional, "CONDITIONAL", "consented", Null, "MUST_OBSERVE"),
     Service(Triggered, "USER_INITIATED", Null, "invoked", "MAY_OBSERVE"),
     Service("SITE_DIRECTED", "SITE_DIRECTED", Null, Null, Null),
     Service(Background, "REPLACED", Null, Null, "MUST_NOT_OBSERVE"),
     Service(Triggered, "DENY", Null, Null, Null),
     Service(Background, "UNCLASSIFIED", Null, Null, Null),
     Service(Conditional, "ALLOW_BACKGROUND", Null, Null, Null),
     Service(Conditional, "CONDITIONAL", Null, Null, Null),
     Service(Background, "UNCLASSIFIED", Null, Null, "MUST_OBSERVE")}

MCServiceVariants ==
    [id \in ServiceIds |->
        CASE id = s1 -> Decisions
          [] id = s2 -> {Service(Background, "ALLOW_BACKGROUND", Null, Null, "MUST_OBSERVE")}
          [] OTHER -> {}]

Capability(service, initiator, source) ==
    [service |-> service, initiator |-> initiator, trigger |-> "started",
     uses |-> Of(Scopes, Third), source |-> source]

MCCapabilityVariants ==
    {Capability(s1, Background, src1), Capability(s1, Background, src2),
     Capability(Null, Triggered, src1)}

Connection(service, initiator, class, destination) ==
    [service |-> service, initiator |-> initiator, trigger |-> "started",
     uses |-> [Of(ConnectionScopes, Third) EXCEPT !["destination_classes"] = {class}],
     destination |-> destination]

MCConnectionVariants ==
    [id \in ConnectionIds |->
        IF id = k2 THEN {Connection(s2, Background, Third, d1)}
        ELSE {Connection(s1, Background, Third, d1), Connection(s1, Conditional, Third, d1),
              Connection(s1, Triggered, Third, d2),
              Connection(s1, "USER_REQUESTED_WEB", Third, d1),
              Connection(s2, Background, Third, d2),
              Connection(s1, "SITE_DIRECTED", Third, d1),
              Connection(Null, "SITE_DIRECTED", Third, d2),
              Connection(Null, "EXTENSION_DIRECTED", "EXTENSION_CONTROLLED", d2)}]
=============================================================================
