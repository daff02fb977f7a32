-------------------------- MODULE NetworkComparison -------------------------
(***************************************************************************)
(* The documents that scripts/network_policy.py compares, while people     *)
(* review the policy, adopt another inventory and capture traffic.  The    *)
(* script keeps nothing between two calls, so its answer at any moment is  *)
(* CompareResult of the documents.  A comparison without a previous        *)
(* inventory is one whose previous inventory has no capability.            *)
(***************************************************************************)
EXTENDS NetworkPolicy

CONSTANTS
    ServiceVariants,     \* the records a review may write for each service
    CapabilityVariants,
    ConnectionVariants   \* the records a capture may have for each connection

ASSUME VariantsAssumption ==
    /\ ServiceVariants \in [ServiceIds -> SUBSET Services]
    /\ CapabilityVariants \subseteq Capabilities
    /\ ConnectionVariants \in [ConnectionIds -> SUBSET Connections]

VARIABLES
    policy,
    previous,       \* the inventory last adopted
    current,
    observations

documents == <<policy, previous, current, observations>>

Result == CompareResult(policy, previous, current, observations)
Issues == ComparePolicyEvidence(policy, previous, current, observations)

EmptyObservation(scenario) ==
    [scenario |-> scenario, conditions |-> {}, actions |-> {},
     connections |-> [id \in ConnectionIds |-> Null]]

Init ==
    /\ policy = [id \in ServiceIds |-> Null]
    /\ previous = [id \in CapabilityIds |-> Null]
    /\ current = previous
    /\ \E scenarios \in [Captures -> Scenarios] :
           observations = [c \in Captures |-> EmptyObservation(scenarios[c])]

\* A review writes or takes out a service.  It may be wrong: the validator
\* sees the policy only when it is compared.
Review(id, s) ==
    /\ policy' = [policy EXCEPT ![id] = s]
    /\ UNCHANGED <<previous, current, observations>>

\* The record of a service that is now denied.
Denied(s) ==
    [initiator |-> s.initiator, state |-> "DENY", status |-> "APPROVED",
     trigger |-> s.trigger, allows |-> s.allows, condition |-> Null, action |-> Null,
     replaced |-> FALSE, scenarios |-> s.scenarios, constraints |-> s.constraints]

Deny(id) ==
    /\ policy[id] # Null
    /\ Review(id, Denied(policy[id]))

\* Upstream adds, removes or changes a capability.
Change(id, c) ==
    /\ current' = [current EXCEPT ![id] = c]
    /\ UNCHANGED <<policy, previous, observations>>

\* Mutated form: the file of the delta is taken for the inventory.
AdoptDelta ==
    /\ previous' = InventoryDelta(previous, current)
    /\ UNCHANGED <<policy, current, observations>>

\* The current inventory becomes the one the next is compared with.
Adopt ==
    /\ previous' = current
    /\ UNCHANGED <<policy, current, observations>>

\* A scenario is run again and another document recorded of it.
Capture(c, o) ==
    /\ observations' = [observations EXCEPT ![c] = o]
    /\ UNCHANGED <<policy, previous, current>>

Connect(c, id, k) ==
    LET o == observations[c]
    IN  Capture(c, [scenario |-> o.scenario, conditions |-> o.conditions,
                    actions |-> o.actions, connections |-> [o.connections EXCEPT ![id] = k]])

Circumstances(c, conditions, actions) ==
    Capture(c, [scenario |-> observations[c].scenario, conditions |-> conditions,
                actions |-> actions, connections |-> observations[c].connections])

Next ==
    \/ \E id \in ServiceIds : \/ Deny(id)
                              \/ \E s \in Optional(ServiceVariants[id]) : Review(id, s)
    \/ \E id \in CapabilityIds, c \in Optional(CapabilityVariants) : Change(id, c)
    \/ Adopt
    \/ \E c \in Captures, id \in ConnectionIds :
           \E k \in Optional(ConnectionVariants[id]) : Connect(c, id, k)
    \/ \E c \in Captures, conditions \in SUBSET Conditions, actions \in SUBSET UserActions :
           Circumstances(c, conditions, actions)

Spec == Init /\ [][Next]_documents

-----------------------------------------------------------------------------

\* Every document has the form that the script requires of it.
TypeOK ==
    /\ policy \in Policies
    /\ previous \in Inventories
    /\ current \in Inventories
    /\ observations \in [Captures -> Observations]

\* What a service in use must be for the traffic of each native class.
Permits(s, o, initiator) ==
    /\ initiator = "BROWSER_NATIVE_BACKGROUND" => s.state = "ALLOW_BACKGROUND"
    /\ initiator = "BROWSER_NATIVE_CONDITIONAL" =>
           s.state = "CONDITIONAL" /\ s.condition \in o.conditions
    /\ initiator = "USER_TRIGGERED_SERVICE" =>
           s.state = "USER_INITIATED" /\ s.action \in o.actions

\* When the comparison passes, every native connection of every capture has
\* an approved service that permits it in the circumstances of that capture:
\* background traffic only of a service allowed in the background,
\* conditional traffic only under the service's own condition, user-triggered
\* traffic only with the service's own action.  The initiator is compared with
\* the service, the state of the service with the circumstances, and only the
\* validator relates initiator and state (network_policy.py:356-403, 787-829).
PassedTrafficIsPermitted ==
    Result = "PASS" =>
        \A c \in Captures : \A id \in Present(observations[c].connections) :
            LET k == observations[c].connections[id]
            IN  k.initiator \in NativeInitiatorClasses =>
                    /\ Approved(policy, k.service)
                    /\ Permits(policy[k.service], observations[c], k.initiator)

\* When the comparison passes, no connection of a capture names a service
\* that is denied, replaced or not approved, whoever initiated it, with one
\* exception: a connection of the class USER_REQUESTED_WEB, which leaves the
\* comparison before its service is looked at (network_policy.py:768).
PassedTrafficIsNotDenied ==
    Result = "PASS" =>
        \A c \in Captures : \A id \in Present(observations[c].connections) :
            LET k == observations[c].connections[id]
            IN  k.service # Null /\ k.initiator # "USER_REQUESTED_WEB" =>
                    /\ Approved(policy, k.service)
                    /\ policy[k.service].state \notin {"DENY", "REPLACED"}

\* Denying an approved service never turns a failed comparison into a passed
\* one, although the issue that failed may go: a condition that was not
\* satisfied is none of a denied service (network_policy.py:797-829).
DenyingNeverHelps ==
    [][\A id \in ServiceIds :
           Deny(id) /\ policy[id].status = "APPROVED" /\ Result = "FAIL" =>
               Result' # "PASS"]_documents

\* The expectation that recording traffic of a service may meet.
Expected(c, service) ==
    Issue("EXPECTED_SERVICE_NOT_OBSERVED", observations[c].scenario, service, Null)

\* Recording one more connection removes no issue but that its own service was
\* expected and not observed: no traffic hides what other traffic did
\* (network_policy.py:860-896).
TrafficHidesNothing ==
    [][\A c \in Captures, id \in ConnectionIds :
           \A k \in ConnectionVariants[id] :
               observations[c].connections[id] = Null /\ Connect(c, id, k) =>
                   Issues \ Issues' \subseteq {Expected(c, k.service)}]_documents

\* An inventory that only loses capabilities or moves their sources gets no
\* new issue: the delta records it and nothing fails
\* (docs/NETWORK_SERVICE_POLICY.md, "removal is recorded but does not fail").
RemovalNeverFails ==
    [][(/\ UNCHANGED <<policy, previous, observations>>
        /\ InventoryDelta(current, current').added = {}
        /\ InventoryDelta(current, current').changed = {})
       => Issues' \subseteq Issues]_documents

\* Adopting the inventory clears the material changes and nothing else:
\* a capability that fits no approved service fails as long as it is there,
\* however often it was adopted (network_policy.py:734-750).
AdoptingClassifiesNothing ==
    [][Adopt => Issues' = {i \in Issues : i.code # "MATERIAL_CAPABILITY_CHANGE"}]_documents
=============================================================================
