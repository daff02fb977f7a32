--------------------------- MODULE NetworkPolicy ----------------------------
(***************************************************************************)
(* scripts/network_policy.py without its state: the service policy and the *)
(* documents compared with it, ValidatePolicyDocument, and                 *)
(* ComparePolicyEvidence, which lists the issues.                          *)
(*                                                                         *)
(* A document with unique sorted identifiers is a function from them, Null *)
(* where one is absent.  What a capability or a connection uses, and what  *)
(* a service allows, is a set for each of Scopes; a value that the code    *)
(* has as one string or None is a set of one or none.                      *)
(***************************************************************************)
EXTENDS Integers, FiniteSets

CONSTANTS
    ServiceIds,      \* identifiers, in the policy or not
    CapabilityIds,
    ConnectionIds,
    Captures,        \* the observation documents given to one comparison
    Scenarios,
    Triggers,
    Conditions,      \* of activation
    UserActions,
    Destinations,
    Sources,         \* source mappings
    Values,          \* what a scope may hold
    Null

ASSUME ValuesAssumption == {"SITE_CONTROLLED", "EXTENSION_CONTROLLED"} \subseteq Values

Optional(S) == S \cup {Null}

NativeInitiatorClasses ==
    {"BROWSER_NATIVE_BACKGROUND", "BROWSER_NATIVE_CONDITIONAL", "USER_TRIGGERED_SERVICE"}
InitiatorClasses ==
    NativeInitiatorClasses \cup {"USER_REQUESTED_WEB", "SITE_DIRECTED", "EXTENSION_DIRECTED"}
PolicyStates ==
    {"ALLOW_BACKGROUND", "CONDITIONAL", "USER_INITIATED", "SITE_DIRECTED",
     "EXTENSION_DIRECTED", "DENY", "REPLACED", "UNCLASSIFIED"}
PolicyStatuses == {"APPROVED", "PENDING_REVIEW"}
Expectations == {"MAY_OBSERVE", "MUST_OBSERVE", "MUST_NOT_OBSERVE"}

\* The lists that may not be empty, and those that may.
Required == {"destination_classes", "data_categories", "credential_modes"}
ConnectionScopes == Required \cup {"provider_boundary"}
Scopes == ConnectionScopes \cup {"activation_gates"}

Uses(scopes, single) ==
    {u \in [scopes -> SUBSET Values] :
        /\ \A f \in scopes \cap Required : u[f] # {}
        /\ \A f \in single : Cardinality(u[f]) <= 1}

Services ==
    [initiator : InitiatorClasses, state : PolicyStates, status : PolicyStatuses,
     trigger : Triggers, allows : Uses(Scopes, {}), condition : Optional(Conditions),
     action : Optional(UserActions), replaced : BOOLEAN,
     scenarios : [Scenarios -> Optional(Expectations)],
     constraints : SUBSET SUBSET Destinations]

\* No service is mistaken for an absent one.
ASSUME NullAssumption == Null \notin Services

Capabilities ==
    [service : Optional(ServiceIds), initiator : InitiatorClasses, trigger : Triggers,
     uses : Uses(Scopes, {"provider_boundary"}), source : Sources]

Connections ==
    [service : Optional(ServiceIds), initiator : InitiatorClasses, trigger : Triggers,
     uses : Uses(ConnectionScopes, {"destination_classes", "provider_boundary"}), destination : Destinations]

Policies == [ServiceIds -> Optional(Services)]
Inventories == [CapabilityIds -> Optional(Capabilities)]
Observations ==
    [scenario : Scenarios, conditions : SUBSET Conditions, actions : SUBSET UserActions,
     connections : [ConnectionIds -> Optional(Connections)]]

Present(document) == {id \in DOMAIN document : document[id] # Null}

-----------------------------------------------------------------------------
(* ValidatePolicyDocument                                                  *)

\* Mutated form: the state does not bind the initiator.
ValidServiceAnyInitiator(s) ==
    /\ s.status = "APPROVED" <=> s.state # "UNCLASSIFIED"
    /\ s.state = "CONDITIONAL" <=> s.condition # Null
    /\ s.state = "USER_INITIATED" <=> s.action # Null

\* The rules of ValidateService that relate two fields.
ValidService(s) ==
    /\ s.status = "APPROVED" <=> s.state # "UNCLASSIFIED"
    /\ s.state = "UNCLASSIFIED" => \A sc \in Scenarios : s.scenarios[sc] = Null
    /\ s.state = "ALLOW_BACKGROUND" => s.initiator = "BROWSER_NATIVE_BACKGROUND"
    /\ s.state = "CONDITIONAL" => s.initiator = "BROWSER_NATIVE_CONDITIONAL"
    /\ s.state = "CONDITIONAL" <=> s.condition # Null
    /\ s.state = "USER_INITIATED" => s.initiator = "USER_TRIGGERED_SERVICE"
    /\ s.state = "USER_INITIATED" <=> s.action # Null
    /\ s.state \in {"SITE_DIRECTED", "EXTENSION_DIRECTED"} => s.initiator = s.state
    /\ s.state = "REPLACED" <=> s.replaced

ValidatePolicyDocument(p) ==
    /\ Present(p) # {}
    /\ \A id \in Present(p) : ValidService(p[id])

-----------------------------------------------------------------------------
(* ComparePolicyEvidence                                                   *)

Issue(code, about, service, field) ==
    [code |-> code, about |-> about, service |-> service, field |-> field]

Approved(p, id) == id # Null /\ p[id] # Null /\ p[id].status = "APPROVED"

\* What of a capability or a connection is not as the service has it.
Mismatches(x, s, scopes) ==
    {f \in scopes : ~ x.uses[f] \subseteq s.allows[f]}
        \cup {f \in {"initiator_class"} : x.initiator # s.initiator}
        \cup {f \in {"trigger_id"} : x.trigger # s.trigger}

CompareCapabilityToPolicy(p, id, c) ==
    IF c.initiator \notin NativeInitiatorClasses THEN {}
    ELSE IF ~ Approved(p, c.service)
    THEN {Issue("UNCLASSIFIED_NATIVE_CAPABILITY", id, c.service, Null)}
    ELSE {Issue("CAPABILITY_POLICY_MISMATCH", id, c.service, f) :
              f \in Mismatches(c, p[c.service], Scopes)}

\* SemanticCapabilityFields
Semantics(c) == <<c.service, c.initiator, c.trigger, c.uses>>

\* The inventory_delta of the result.
InventoryDelta(previous, current) ==
    LET kept == Present(previous) \cap Present(current)
        changed == {id \in kept : Semantics(previous[id]) # Semantics(current[id])}
    IN  [added |-> Present(current) \ Present(previous),
         removed |-> Present(previous) \ Present(current),
         changed |-> changed,
         source_remapped |-> {id \in kept \ changed : previous[id].source # current[id].source}]

\* Mutated form: a change of the source mapping is material too.
CompareInventoriesSources(p, previous, current) ==
    {Issue("MATERIAL_CAPABILITY_CHANGE", id, Null, Null) :
         id \in InventoryDelta(previous, current).changed
                    \cup InventoryDelta(previous, current).source_remapped}
    \cup UNION {CompareCapabilityToPolicy(p, id, current[id]) : id \in Present(current)}

\* Mutated form: what the previous inventory has is not compared again.
CompareInventoriesAdded(p, previous, current) ==
    {Issue("MATERIAL_CAPABILITY_CHANGE", id, Null, Null) :
         id \in InventoryDelta(previous, current).changed}
    \cup UNION {CompareCapabilityToPolicy(p, id, current[id]) :
                    id \in InventoryDelta(previous, current).added}

CompareInventories(p, previous, current) ==
    {Issue("MATERIAL_CAPABILITY_CHANGE", id, Null, Null) :
         id \in InventoryDelta(previous, current).changed}
    \cup UNION {CompareCapabilityToPolicy(p, id, current[id]) : id \in Present(current)}

\* A constraint is the set of destinations it admits.
DestinationMatchesConstraints(destination, constraints) ==
    constraints = {} \/ \E k \in constraints : destination \in k

RuntimeMismatches(k, s) ==
    Mismatches(k, s, ConnectionScopes)
        \cup {f \in {"destination_constraint"} :
                  ~ DestinationMatchesConstraints(k.destination, s.constraints)}

\* Mutated form: the state DENY is left to the scenarios.
StateIssuesDenied(s, o) ==
    {code \in {"REPLACED_UPSTREAM_PROVIDER_OBSERVED"} : s.state = "REPLACED"}
        \cup {code \in {"CONDITION_NOT_SATISFIED"} :
                  s.state = "CONDITIONAL" /\ s.condition \notin o.conditions}
        \cup {code \in {"USER_ACTION_NOT_OBSERVED"} :
                  s.state = "USER_INITIATED" /\ s.action \notin o.actions}

\* What the state of the service has against its being observed in o.
StateIssues(s, o) ==
    {code \in {"DENIED_SERVICE_OBSERVED"} : s.state = "DENY"}
        \cup {code \in {"REPLACED_UPSTREAM_PROVIDER_OBSERVED"} : s.state = "REPLACED"}
        \cup {code \in {"CONDITION_NOT_SATISFIED"} :
                  s.state = "CONDITIONAL" /\ s.condition \notin o.conditions}
        \cup {code \in {"USER_ACTION_NOT_OBSERVED"} :
                  s.state = "USER_INITIATED" /\ s.action \notin o.actions}

\* Traffic of a site or an extension that names no service.
Undirected(k) ==
    k.initiator \in {"SITE_DIRECTED", "EXTENSION_DIRECTED"} /\ k.service = Null

Attributed(k) ==
    k.uses["destination_classes"] =
        {IF k.initiator = "SITE_DIRECTED" THEN "SITE_CONTROLLED" ELSE "EXTENSION_CONTROLLED"}

\* Mutated form: traffic of sites and extensions is never a service's.
CompareNativeConnection(p, o, id, k) ==
    IF k.initiator \notin NativeInitiatorClasses THEN {}
    ELSE IF ~ Approved(p, k.service)
    THEN {Issue("UNCLASSIFIED_NATIVE_CONNECTION", id, k.service, Null)}
    ELSE {Issue(code, id, k.service, Null) : code \in StateIssues(p[k.service], o)}
             \cup {Issue("RUNTIME_POLICY_MISMATCH", id, k.service, f) :
                       f \in RuntimeMismatches(k, p[k.service])}

CompareConnectionToPolicy(p, o, id, k) ==
    IF k.initiator = "USER_REQUESTED_WEB" \/ (Undirected(k) /\ Attributed(k)) THEN {}
    ELSE IF Undirected(k)
    THEN {Issue("ATTRIBUTION_CLASS_MISMATCH", id, Null, Null)}
    ELSE IF ~ Approved(p, k.service)
    THEN {Issue("UNCLASSIFIED_NATIVE_CONNECTION", id, k.service, Null)}
    ELSE {Issue(code, id, k.service, Null) : code \in StateIssues(p[k.service], o)}
             \cup {Issue("RUNTIME_POLICY_MISMATCH", id, k.service, f) :
                       f \in RuntimeMismatches(k, p[k.service])}

ObservedServices(o) ==
    {o.connections[id].service : id \in Present(o.connections)} \ {Null}

\* Mutated form: any observed service meets the expectation.
ExpectationIssuesOfAny(p, o) ==
    {Issue("EXPECTED_SERVICE_NOT_OBSERVED", o.scenario, id, Null) :
         id \in {i \in Present(p) : /\ p[i].scenarios[o.scenario] = "MUST_OBSERVE"
                                    /\ ObservedServices(o) = {}}}
    \cup {Issue("PROHIBITED_SERVICE_OBSERVED", o.scenario, id, Null) :
         id \in {i \in Present(p) : /\ p[i].scenarios[o.scenario] = "MUST_NOT_OBSERVE"
                                    /\ i \in ObservedServices(o)}}

\* What the policy expects of the scenario of o.
ExpectationIssues(p, o) ==
    {Issue("EXPECTED_SERVICE_NOT_OBSERVED", o.scenario, id, Null) :
         id \in {i \in Present(p) : /\ p[i].scenarios[o.scenario] = "MUST_OBSERVE"
                                    /\ i \notin ObservedServices(o)}}
    \cup {Issue("PROHIBITED_SERVICE_OBSERVED", o.scenario, id, Null) :
         id \in {i \in Present(p) : /\ p[i].scenarios[o.scenario] = "MUST_NOT_OBSERVE"
                                    /\ i \in ObservedServices(o)}}

CompareObservation(p, o) ==
    ExpectationIssues(p, o)
        \cup UNION {CompareConnectionToPolicy(p, o, id, o.connections[id]) :
                        id \in Present(o.connections)}

CompareObservations(p, obs) == UNION {CompareObservation(p, obs[c]) : c \in Captures}

ComparePolicyEvidence(p, previous, current, obs) ==
    CompareInventories(p, previous, current) \cup CompareObservations(p, obs)

\* What the compare command says of the documents.
CompareResult(p, previous, current, obs) ==
    IF ~ ValidatePolicyDocument(p) THEN "INVALID"
    ELSE IF ComparePolicyEvidence(p, previous, current, obs) = {} THEN "PASS" ELSE "FAIL"
=============================================================================
