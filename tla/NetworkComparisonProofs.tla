----------------------- MODULE NetworkComparisonProofs ----------------------
(***************************************************************************)
(* What the comparison of the service policy promises, for every set of    *)
(* services, capabilities, captures and connections.                       *)
(*                                                                         *)
(* The script keeps no state, so no invariant has to be strengthened: what *)
(* a PASS stands for follows from the form of the documents, and how an    *)
(* edit changes the issues from which documents the issue is read from.    *)
(***************************************************************************)
EXTENDS NetworkComparison, TLAPS

-----------------------------------------------------------------------------
(* The documents keep their form.                                          *)

\* A service that is denied keeps the form of a service.
LEMMA DeniedIsService ==
    ASSUME NEW s \in Services
    PROVE  Denied(s) \in Services
BY DEF Denied, Services, Optional, PolicyStates, PolicyStatuses

LEMMA EmptyObservationTyped ==
    ASSUME NEW scenario \in Scenarios
    PROVE  EmptyObservation(scenario) \in Observations
BY DEF EmptyObservation, Observations, Optional

LEMMA InitTyped == Init => TypeOK
<1> SUFFICES ASSUME Init PROVE TypeOK
  OBVIOUS
<1>1. policy \in Policies
  BY DEF Init, Policies, Optional
<1>2. previous \in Inventories /\ current \in Inventories
  BY DEF Init, Inventories, Optional
<1>3. observations \in [Captures -> Observations]
  BY EmptyObservationTyped DEF Init
<1> QED
  BY <1>1, <1>2, <1>3 DEF TypeOK

LEMMA ReviewTyped ==
    ASSUME TypeOK, NEW id \in ServiceIds, NEW s \in Optional(Services), Review(id, s)
    PROVE  TypeOK'
BY DEF TypeOK, Review, Policies

LEMMA CaptureTyped ==
    ASSUME TypeOK, NEW c \in Captures, NEW o \in Observations, Capture(c, o)
    PROVE  TypeOK'
BY DEF TypeOK, Capture

LEMMA ConnectTyped ==
    ASSUME TypeOK, NEW c \in Captures, NEW id \in ConnectionIds,
           NEW k \in Optional(Connections), Connect(c, id, k)
    PROVE  TypeOK'
<1> DEFINE o == observations[c]
<1> DEFINE connections == [o.connections EXCEPT ![id] = k]
<1> DEFINE new == [scenario |-> o.scenario, conditions |-> o.conditions,
                   actions |-> o.actions, connections |-> connections]
<1>1. o \in Observations
  BY DEF TypeOK
<1>2. connections \in [ConnectionIds -> Optional(Connections)]
  BY <1>1 DEF Observations
<1> HIDE DEF connections
<1>3. new \in Observations
  BY <1>1, <1>2 DEF Observations
<1>4. Capture(c, new)
  BY DEF Connect, connections
<1> QED
  BY <1>3, <1>4, CaptureTyped

LEMMA CircumstancesTyped ==
    ASSUME TypeOK, NEW c \in Captures, NEW conditions \in SUBSET Conditions,
           NEW actions \in SUBSET UserActions, Circumstances(c, conditions, actions)
    PROVE  TypeOK'
<1> DEFINE new == [scenario |-> observations[c].scenario, conditions |-> conditions,
                   actions |-> actions, connections |-> observations[c].connections]
<1>1. new \in Observations
  BY DEF TypeOK, Observations
<1>2. Capture(c, new)
  BY DEF Circumstances
<1> QED
  BY <1>1, <1>2, CaptureTyped

LEMMA NextTyped ==
    ASSUME TypeOK, [Next]_documents
    PROVE  TypeOK'
<1>1. CASE \E id \in ServiceIds : Deny(id)
  <2> PICK id \in ServiceIds : Deny(id)
    BY <1>1
  <2>1. policy[id] \in Services
    BY DEF Deny, TypeOK, Policies, Optional
  <2> QED
    BY <2>1, DeniedIsService, ReviewTyped DEF Deny, Optional
<1>2. CASE \E id \in ServiceIds : \E s \in Optional(ServiceVariants[id]) : Review(id, s)
  <2> PICK id \in ServiceIds : \E s \in Optional(ServiceVariants[id]) : Review(id, s)
    BY <1>2
  <2> PICK s \in Optional(ServiceVariants[id]) : Review(id, s)
    OBVIOUS
  <2>1. s \in Optional(Services)
    BY VariantsAssumption DEF Optional
  <2> QED
    BY <2>1, ReviewTyped
<1>3. CASE \E id \in CapabilityIds, c \in Optional(CapabilityVariants) : Change(id, c)
  <2> PICK id \in CapabilityIds, c \in Optional(CapabilityVariants) : Change(id, c)
    BY <1>3
  <2>1. c \in Optional(Capabilities)
    BY VariantsAssumption DEF Optional
  <2> QED
    BY <2>1 DEF TypeOK, Change, Inventories
<1>4. CASE Adopt
  BY <1>4 DEF TypeOK, Adopt
<1>5. CASE \E c \in Captures, id \in ConnectionIds :
               \E k \in Optional(ConnectionVariants[id]) : Connect(c, id, k)
  <2> PICK c \in Captures, id \in ConnectionIds :
               \E k \in Optional(ConnectionVariants[id]) : Connect(c, id, k)
    BY <1>5
  <2> PICK k \in Optional(ConnectionVariants[id]) : Connect(c, id, k)
    OBVIOUS
  <2>1. k \in Optional(Connections)
    BY VariantsAssumption DEF Optional
  <2> QED
    BY <2>1, ConnectTyped
<1>6. CASE \E c \in Captures, conditions \in SUBSET Conditions,
              actions \in SUBSET UserActions : Circumstances(c, conditions, actions)
  BY <1>6, CircumstancesTyped
<1>7. CASE UNCHANGED documents
  BY <1>7 DEF TypeOK, documents
<1> QED
  BY <1>1, <1>2, <1>3, <1>4, <1>5, <1>6, <1>7 DEF Next

\* Whatever is reviewed, adopted and recorded, the documents keep the form the
\* comparison requires (network_policy.py:277-354, 451-616).
THEOREM TypeCorrect == Spec => []TypeOK
<1>1. Init => TypeOK
  BY InitTyped
<1>2. TypeOK /\ [Next]_documents => TypeOK'
  BY NextTyped
<1> QED
  BY <1>1, <1>2, PTL DEF Spec

-----------------------------------------------------------------------------
(* What a PASS stands for.                                                 *)

LEMMA PassHasNoIssue ==
    ASSUME NEW p, NEW before, NEW now, NEW obs,
           CompareResult(p, before, now, obs) = "PASS"
    PROVE  /\ ValidatePolicyDocument(p)
           /\ ComparePolicyEvidence(p, before, now, obs) = {}
BY DEF CompareResult

\* A connection without an issue, of a class that is compared with its service.
LEMMA CleanConnection ==
    ASSUME NEW p, NEW o, NEW id, NEW k,
           CompareConnectionToPolicy(p, o, id, k) = {},
           k.initiator # "USER_REQUESTED_WEB",
           k.service # Null \/ k.initiator \in NativeInitiatorClasses
    PROVE  /\ Approved(p, k.service)
           /\ StateIssues(p[k.service], o) = {}
           /\ RuntimeMismatches(k, p[k.service]) = {}
<1>1. ~ Undirected(k)
  BY DEF Undirected, NativeInitiatorClasses
<1>2. Approved(p, k.service)
  BY <1>1 DEF CompareConnectionToPolicy
<1>3. {Issue(code, id, k.service, Null) : code \in StateIssues(p[k.service], o)}
          \cup {Issue("RUNTIME_POLICY_MISMATCH", id, k.service, f) :
                    f \in RuntimeMismatches(k, p[k.service])} = {}
  BY <1>1, <1>2 DEF CompareConnectionToPolicy
<1> QED
  BY <1>2, <1>3

\* Every connection that a passed comparison compares with its service.
LEMMA PassedConnection ==
    ASSUME TypeOK, Result = "PASS", NEW c \in Captures,
           NEW id \in Present(observations[c].connections),
           observations[c].connections[id].initiator # "USER_REQUESTED_WEB",
           \/ observations[c].connections[id].service # Null
           \/ observations[c].connections[id].initiator \in NativeInitiatorClasses
    PROVE  LET k == observations[c].connections[id]
               s == policy[k.service]
           IN  /\ k \in Connections
               /\ Approved(policy, k.service)
               /\ s \in Services
               /\ ValidService(s)
               /\ StateIssues(s, observations[c]) = {}
               /\ RuntimeMismatches(k, s) = {}
<1> DEFINE k == observations[c].connections[id]
<1>1. k \in Connections
  BY DEF TypeOK, Observations, Present, Optional
<1>2. ValidatePolicyDocument(policy) /\ Issues = {}
  BY PassHasNoIssue DEF Result, Issues
<1>3. CompareObservation(policy, observations[c]) = {}
  BY <1>2 DEF Issues, ComparePolicyEvidence, CompareObservations
<1>4. CompareConnectionToPolicy(policy, observations[c], id, k) = {}
  BY <1>3 DEF CompareObservation
<1>5. /\ Approved(policy, k.service)
      /\ StateIssues(policy[k.service], observations[c]) = {}
      /\ RuntimeMismatches(k, policy[k.service]) = {}
  BY <1>4, CleanConnection
<1>6. k.service \in ServiceIds
  BY <1>1, <1>5 DEF Connections, Optional, Approved
<1>7. policy[k.service] \in Services /\ k.service \in Present(policy)
  BY <1>5, <1>6 DEF TypeOK, Policies, Optional, Approved, Present
<1>8. ValidService(policy[k.service])
  BY <1>2, <1>7 DEF ValidatePolicyDocument
<1> QED
  BY <1>1, <1>5, <1>7, <1>8

\* The initiator and the state of a valid service, seen without an issue.
LEMMA StateFollowsInitiator ==
    ASSUME NEW k \in Connections, NEW s \in Services, NEW o,
           k.initiator \in NativeInitiatorClasses, s.status = "APPROVED",
           ValidService(s), StateIssues(s, o) = {}, RuntimeMismatches(k, s) = {}
    PROVE  Permits(s, o, k.initiator)
<1>1. k.initiator = s.initiator
  BY DEF RuntimeMismatches, Mismatches
<1>2. /\ s.state # "DENY"
      /\ s.state # "REPLACED"
      /\ s.state = "CONDITIONAL" => s.condition \in o.conditions
      /\ s.state = "USER_INITIATED" => s.action \in o.actions
  BY DEF StateIssues
<1>3. s.state \in PolicyStates
  BY DEF Services
<1>4. CASE k.initiator = "BROWSER_NATIVE_BACKGROUND"
  <2>1. s.state = "ALLOW_BACKGROUND"
    BY <1>1, <1>2, <1>3, <1>4 DEF ValidService, PolicyStates
  <2> QED
    BY <2>1, <1>4 DEF Permits
<1>5. CASE k.initiator = "BROWSER_NATIVE_CONDITIONAL"
  <2>1. s.state = "CONDITIONAL"
    BY <1>1, <1>2, <1>3, <1>5 DEF ValidService, PolicyStates
  <2> QED
    BY <2>1, <1>2, <1>5 DEF Permits
<1>6. CASE k.initiator = "USER_TRIGGERED_SERVICE"
  <2>1. s.state = "USER_INITIATED"
    BY <1>1, <1>2, <1>3, <1>6 DEF ValidService, PolicyStates
  <2> QED
    BY <2>1, <1>2, <1>6 DEF Permits
<1> QED
  BY <1>4, <1>5, <1>6 DEF NativeInitiatorClasses

\* When the comparison passes, every native connection has an approved service
\* whose state permits it in the circumstances of its capture
\* (network_policy.py:356-403, 787-829).
THEOREM NativeTrafficIsPermitted == Spec => []PassedTrafficIsPermitted
<1>1. TypeOK => PassedTrafficIsPermitted
  <2> SUFFICES ASSUME TypeOK, Result = "PASS", NEW c \in Captures,
                      NEW id \in Present(observations[c].connections),
                      observations[c].connections[id].initiator \in NativeInitiatorClasses
               PROVE  LET k == observations[c].connections[id]
                      IN  /\ Approved(policy, k.service)
                          /\ Permits(policy[k.service], observations[c], k.initiator)
    BY DEF PassedTrafficIsPermitted
  <2> DEFINE k == observations[c].connections[id]
  <2>1. k.initiator # "USER_REQUESTED_WEB"
    BY DEF NativeInitiatorClasses
  <2>2. /\ k \in Connections
        /\ Approved(policy, k.service)
        /\ policy[k.service] \in Services
        /\ ValidService(policy[k.service])
        /\ StateIssues(policy[k.service], observations[c]) = {}
        /\ RuntimeMismatches(k, policy[k.service]) = {}
    BY <2>1, PassedConnection
  <2>3. policy[k.service].status = "APPROVED"
    BY <2>2 DEF Approved
  <2> QED
    BY <2>2, <2>3, StateFollowsInitiator
<1> QED
  BY <1>1, TypeCorrect, PTL

\* When the comparison passes, no traffic but ordinary web requests names a
\* service that is denied, replaced or not approved (network_policy.py:768).
THEOREM DeniedTrafficFails == Spec => []PassedTrafficIsNotDenied
<1>1. TypeOK => PassedTrafficIsNotDenied
  <2> SUFFICES ASSUME TypeOK, Result = "PASS", NEW c \in Captures,
                      NEW id \in Present(observations[c].connections),
                      observations[c].connections[id].service # Null,
                      observations[c].connections[id].initiator # "USER_REQUESTED_WEB"
               PROVE  LET k == observations[c].connections[id]
                      IN  /\ Approved(policy, k.service)
                          /\ policy[k.service].state \notin {"DENY", "REPLACED"}
    BY DEF PassedTrafficIsNotDenied
  <2> DEFINE k == observations[c].connections[id]
  <2>1. /\ Approved(policy, k.service)
        /\ StateIssues(policy[k.service], observations[c]) = {}
    BY PassedConnection
  <2> QED
    BY <2>1 DEF StateIssues
<1> QED
  BY <1>1, TypeCorrect, PTL

-----------------------------------------------------------------------------
(* How an edit of one document changes the issues.                         *)

\* Denying an approved service leaves every service as approved as it was.
LEMMA DenyingKeepsApproval ==
    ASSUME TypeOK, NEW id \in ServiceIds, Deny(id), policy[id].status = "APPROVED",
           NEW x \in Optional(ServiceIds)
    PROVE  Approved(policy', x) <=> Approved(policy, x)
<1>1. policy[id] \in Services
  BY DEF Deny, TypeOK, Policies, Optional
<1>2. policy' = [policy EXCEPT ![id] = Denied(policy[id])] /\ policy \in Policies
  BY DEF Deny, Review, TypeOK
<1>3. Denied(policy[id]).status = "APPROVED" /\ Denied(policy[id]) # Null
  BY <1>1, DeniedIsService, NullAssumption DEF Denied
<1>4. CASE x = id
  <2>1. policy'[id] = Denied(policy[id])
    BY <1>2 DEF Policies
  <2>2. policy[id] # Null
    BY DEF Deny
  <2> QED
    BY <1>3, <1>4, <2>1, <2>2 DEF Approved
<1>5. CASE x # id
  BY <1>2, <1>5 DEF Approved, Policies, Optional
<1> QED
  BY <1>4, <1>5

\* Denying a service changes nothing of what it allows.
LEMMA DeniedMismatches ==
    ASSUME NEW x, NEW s, NEW scopes
    PROVE  /\ Mismatches(x, Denied(s), scopes) = Mismatches(x, s, scopes)
           /\ RuntimeMismatches(x, Denied(s)) = RuntimeMismatches(x, s)
<1>1. /\ Denied(s).allows = s.allows
      /\ Denied(s).initiator = s.initiator
      /\ Denied(s).trigger = s.trigger
      /\ Denied(s).constraints = s.constraints
      /\ Denied(s).scenarios = s.scenarios
  BY DEF Denied
<1> QED
  BY <1>1 DEF Mismatches, RuntimeMismatches

\* Denying an approved service never turns a failed comparison into a passed
\* one (network_policy.py:797-829).
THEOREM DenyingHelpsNothing == Spec => DenyingNeverHelps
<1>1. TypeOK /\ [Next]_documents =>
          [\A id \in ServiceIds :
               Deny(id) /\ policy[id].status = "APPROVED" /\ Result = "FAIL" =>
                   Result' # "PASS"]_documents
  <2> SUFFICES ASSUME TypeOK, NEW id \in ServiceIds, Deny(id),
                      policy[id].status = "APPROVED", Result' = "PASS"
               PROVE  Result # "FAIL"
    OBVIOUS
  <2>1. /\ policy' = [policy EXCEPT ![id] = Denied(policy[id])]
        /\ policy \in Policies
        /\ UNCHANGED <<previous, current, observations>>
    BY DEF Deny, Review, TypeOK
  <2>2. \A x \in ServiceIds : x # id => policy'[x] = policy[x]
    BY <2>1 DEF Policies
  <2>3. policy'[id] = Denied(policy[id])
    BY <2>1 DEF Policies
  <2>4. Issues' = {}
    BY PassHasNoIssue DEF Result, Issues
  <2>5. \A c \in Capabilities, i \in CapabilityIds :
            CompareCapabilityToPolicy(policy', i, c) = CompareCapabilityToPolicy(policy, i, c)
    <3> SUFFICES ASSUME NEW c \in Capabilities, NEW i \in CapabilityIds
                 PROVE  CompareCapabilityToPolicy(policy', i, c) =
                            CompareCapabilityToPolicy(policy, i, c)
      OBVIOUS
    <3>1. c.service \in Optional(ServiceIds)
      BY DEF Capabilities
    <3>2. Approved(policy', c.service) <=> Approved(policy, c.service)
      BY <3>1, DenyingKeepsApproval
    <3>3. Approved(policy, c.service) =>
              Mismatches(c, policy'[c.service], Scopes) = Mismatches(c, policy[c.service], Scopes)
      BY <2>2, <2>3, <3>1, DeniedMismatches DEF Approved, Optional
    <3> QED
      BY <3>2, <3>3 DEF CompareCapabilityToPolicy
  <2>6. CompareInventories(policy, previous, current) =
            CompareInventories(policy', previous', current')
    <3>1. \A i \in Present(current) : i \in CapabilityIds /\ current[i] \in Capabilities
      BY DEF TypeOK, Inventories, Present, Optional
    <3>2. UNION {CompareCapabilityToPolicy(policy, i, current[i]) : i \in Present(current)} =
          UNION {CompareCapabilityToPolicy(policy', i, current[i]) : i \in Present(current)}
      BY <2>5, <3>1
    <3> QED
      BY <2>1, <3>2 DEF CompareInventories
  <2>7. CompareObservations(policy, observations) = {}
    <3> SUFFICES ASSUME NEW c \in Captures
                 PROVE  CompareObservation(policy, observations[c]) = {}
      BY DEF CompareObservations
    <3> DEFINE o == observations[c]
    <3>1. CompareObservation(policy', o) = {}
      BY <2>1, <2>4 DEF Issues, ComparePolicyEvidence, CompareObservations
    <3>2. ExpectationIssues(policy', o) = ExpectationIssues(policy, o)
      <4>1. Present(policy') = Present(policy)
        <5>1. policy[id] \in Services
          BY <2>1 DEF Deny, Policies, Optional
        <5>2. policy'[id] # Null /\ policy[id] # Null
          BY <2>3, <5>1, DeniedIsService, NullAssumption DEF Deny
        <5>3. DOMAIN policy = ServiceIds /\ DOMAIN policy' = ServiceIds
          BY <2>1 DEF Policies
        <5> QED
          BY <2>2, <5>2, <5>3 DEF Present
      <4>2. \A i \in Present(policy) : policy'[i].scenarios = policy[i].scenarios
        BY <2>1, <2>2, <2>3 DEF Denied, Present, Policies
      <4> QED
        BY <4>1, <4>2 DEF ExpectationIssues
    <3>3. ASSUME NEW i \in Present(o.connections)
          PROVE  CompareConnectionToPolicy(policy, o, i, o.connections[i]) = {}
      <4> DEFINE k == o.connections[i]
      <4>1. k \in Connections
        BY DEF TypeOK, Observations, Present, Optional
      <4>2. CompareConnectionToPolicy(policy', o, i, k) = {}
        BY <3>1 DEF CompareObservation
      <4>3. CASE k.initiator = "USER_REQUESTED_WEB" \/ Undirected(k)
        BY <4>2, <4>3 DEF CompareConnectionToPolicy
      <4>4. CASE ~ (k.initiator = "USER_REQUESTED_WEB" \/ Undirected(k))
        <5>1. k.service # Null \/ k.initiator \in NativeInitiatorClasses
          BY <4>1, <4>4 DEF Undirected, Connections, InitiatorClasses, NativeInitiatorClasses
        <5>2. /\ Approved(policy', k.service)
              /\ StateIssues(policy'[k.service], o) = {}
              /\ RuntimeMismatches(k, policy'[k.service]) = {}
          BY <4>2, <4>4, <5>1, CleanConnection
        <5>3. k.service \in ServiceIds
          BY <4>1, <5>2 DEF Connections, Optional, Approved
        <5>4. k.service # id
          BY <2>3, <5>2 DEF StateIssues, Denied
        <5>5. policy'[k.service] = policy[k.service]
          BY <2>2, <5>3, <5>4
        <5>6. Approved(policy, k.service)
          BY <5>2, <5>5 DEF Approved
        <5> QED
          BY <4>4, <5>2, <5>5, <5>6 DEF CompareConnectionToPolicy
      <4> QED
        BY <4>3, <4>4
    <3> QED
      BY <3>1, <3>2, <3>3 DEF CompareObservation
  <2>8. Issues = {}
    BY <2>4, <2>6, <2>7 DEF Issues, ComparePolicyEvidence
  <2> QED
    BY <2>8 DEF Result, Issues, CompareResult
<1> QED
  BY <1>1, TypeCorrect, PTL DEF Spec, DenyingNeverHelps

\* What a connection is held against depends only on the circumstances of its
\* capture, not on the other connections.
LEMMA ConnectionsApart ==
    ASSUME NEW p, NEW o, NEW o2, NEW id, NEW k,
           o2.conditions = o.conditions, o2.actions = o.actions
    PROVE  CompareConnectionToPolicy(p, o2, id, k) = CompareConnectionToPolicy(p, o, id, k)
<1>1. \A s : StateIssues(s, o2) = StateIssues(s, o)
  BY DEF StateIssues
<1> QED
  BY <1>1 DEF CompareConnectionToPolicy

\* Recording one more connection removes no issue but that its own service was
\* expected and not observed (network_policy.py:860-896).
THEOREM MoreTrafficHidesNothing == Spec => TrafficHidesNothing
<1>1. TypeOK /\ [Next]_documents =>
          [\A c \in Captures, id \in ConnectionIds :
               \A k \in ConnectionVariants[id] :
                   observations[c].connections[id] = Null /\ Connect(c, id, k) =>
                       Issues \ Issues' \subseteq {Expected(c, k.service)}]_documents
  <2> SUFFICES ASSUME TypeOK, NEW c \in Captures, NEW id \in ConnectionIds,
                      NEW k \in ConnectionVariants[id],
                      observations[c].connections[id] = Null, Connect(c, id, k),
                      NEW i \in Issues, i \notin Issues'
               PROVE  i = Expected(c, k.service)
    OBVIOUS
  <2> DEFINE o == observations[c]
  <2> DEFINE o2 == observations'[c]
  <2>1. o \in Observations
    BY DEF TypeOK
  <2>2. /\ o2.scenario = o.scenario
        /\ o2.conditions = o.conditions
        /\ o2.actions = o.actions
        /\ o2.connections = [o.connections EXCEPT ![id] = k]
        /\ \A x \in Captures : x # c => observations'[x] = observations[x]
        /\ UNCHANGED <<policy, previous, current>>
    BY DEF Connect, Capture, TypeOK
  <2>3. i \in CompareObservations(policy, observations)
    BY <2>2 DEF Issues, ComparePolicyEvidence
  <2>4. i \notin CompareObservations(policy, observations')
    BY <2>2 DEF Issues, ComparePolicyEvidence
  <2>5. PICK x \in Captures : i \in CompareObservation(policy, observations[x])
    BY <2>3 DEF CompareObservations
  <2>6. i \in CompareObservation(policy, o) /\ i \notin CompareObservation(policy, o2)
    BY <2>2, <2>4, <2>5 DEF CompareObservations
  <2>7. \A n \in Present(o.connections) :
            n \in Present(o2.connections) /\ o2.connections[n] = o.connections[n]
    BY <2>1, <2>2 DEF Present, Observations
  <2>8. i \in ExpectationIssues(policy, o) /\ i \notin ExpectationIssues(policy, o2)
    <3>1. \A n \in Present(o.connections) :
              CompareConnectionToPolicy(policy, o, n, o.connections[n]) =
                  CompareConnectionToPolicy(policy, o2, n, o2.connections[n])
      BY <2>2, <2>7, ConnectionsApart
    <3> QED
      BY <2>6, <2>7, <3>1 DEF CompareObservation
  <2>9. ObservedServices(o) \subseteq ObservedServices(o2)
    BY <2>7 DEF ObservedServices
  <2>10. ObservedServices(o2) \subseteq ObservedServices(o) \cup {k.service}
    BY <2>1, <2>2 DEF ObservedServices, Present, Observations
  <2>11. PICK s \in Present(policy) :
            /\ policy[s].scenarios[o.scenario] = "MUST_OBSERVE"
            /\ s \notin ObservedServices(o)
            /\ s \in ObservedServices(o2)
            /\ i = Issue("EXPECTED_SERVICE_NOT_OBSERVED", o.scenario, s, Null)
    BY <2>2, <2>8, <2>9 DEF ExpectationIssues
  <2>12. s = k.service
    BY <2>10, <2>11
  <2> QED
    BY <2>11, <2>12 DEF Expected
<1> QED
  BY <1>1, TypeCorrect, PTL DEF Spec, TrafficHidesNothing

\* A capability is held against what its semantic fields say.
LEMMA SemanticsDecide ==
    ASSUME NEW p, NEW id, NEW c, NEW d, Semantics(c) = Semantics(d)
    PROVE  CompareCapabilityToPolicy(p, id, c) = CompareCapabilityToPolicy(p, id, d)
<1>1. /\ c.service = d.service
      /\ c.initiator = d.initiator
      /\ c.trigger = d.trigger
      /\ c.uses = d.uses
  BY DEF Semantics
<1>2. \A s : Mismatches(c, s, Scopes) = Mismatches(d, s, Scopes)
  BY <1>1 DEF Mismatches
<1> QED
  BY <1>1, <1>2 DEF CompareCapabilityToPolicy

\* An inventory that only loses capabilities or moves their sources gets no
\* new issue (network_policy.py:731-757).
THEOREM LosingCapabilitiesNeverFails == Spec => RemovalNeverFails
<1>1. [Next]_documents =>
          [(/\ UNCHANGED <<policy, previous, observations>>
            /\ InventoryDelta(current, current').added = {}
            /\ InventoryDelta(current, current').changed = {})
           => Issues' \subseteq Issues]_documents
  <2> SUFFICES ASSUME UNCHANGED <<policy, previous, observations>>,
                      InventoryDelta(current, current').added = {},
                      InventoryDelta(current, current').changed = {}
               PROVE  Issues' \subseteq Issues
    OBVIOUS
  <2>1. Present(current') \subseteq Present(current)
    BY DEF InventoryDelta
  <2>2. \A id \in Present(current') : Semantics(current[id]) = Semantics(current'[id])
    BY <2>1 DEF InventoryDelta
  <2>3. InventoryDelta(previous, current').changed \subseteq
            InventoryDelta(previous, current).changed
    BY <2>1, <2>2 DEF InventoryDelta
  <2>4. \A id \in Present(current') :
            CompareCapabilityToPolicy(policy, id, current'[id]) =
                CompareCapabilityToPolicy(policy, id, current[id])
    BY <2>2, SemanticsDecide
  <2>5. CompareInventories(policy, previous, current') \subseteq
            CompareInventories(policy, previous, current)
    BY <2>1, <2>3, <2>4 DEF CompareInventories
  <2> QED
    BY <2>5 DEF Issues, ComparePolicyEvidence
<1> QED
  BY <1>1, PTL DEF Spec, RemovalNeverFails

\* Only a change of the inventory is a material change.
LEMMA OtherIssues ==
    ASSUME NEW p, NEW obs
    PROVE  /\ \A id, c : \A i \in CompareCapabilityToPolicy(p, id, c) :
                  i.code # "MATERIAL_CAPABILITY_CHANGE"
           /\ \A i \in CompareObservations(p, obs) : i.code # "MATERIAL_CAPABILITY_CHANGE"
<1>1. \A id, c : \A i \in CompareCapabilityToPolicy(p, id, c) :
          i.code # "MATERIAL_CAPABILITY_CHANGE"
  BY DEF CompareCapabilityToPolicy, Issue
<1>2. \A s, o : "MATERIAL_CAPABILITY_CHANGE" \notin StateIssues(s, o)
  BY DEF StateIssues
<1>3. \A o, id, k : \A i \in CompareConnectionToPolicy(p, o, id, k) :
          i.code # "MATERIAL_CAPABILITY_CHANGE"
  BY <1>2 DEF CompareConnectionToPolicy, Issue
<1>4. \A o : \A i \in ExpectationIssues(p, o) : i.code # "MATERIAL_CAPABILITY_CHANGE"
  BY DEF ExpectationIssues, Issue
<1>5. \A i \in CompareObservations(p, obs) : i.code # "MATERIAL_CAPABILITY_CHANGE"
  BY <1>3, <1>4 DEF CompareObservations, CompareObservation
<1> QED
  BY <1>1, <1>5

\* Adopting the inventory clears the material changes and nothing else
\* (network_policy.py:734-750).
THEOREM AdoptionClassifiesNothing == Spec => AdoptingClassifiesNothing
<1>1. [Next]_documents =>
          [Adopt => Issues' = {i \in Issues : i.code # "MATERIAL_CAPABILITY_CHANGE"}]_documents
  <2> SUFFICES ASSUME Adopt
               PROVE  Issues' = {i \in Issues : i.code # "MATERIAL_CAPABILITY_CHANGE"}
    OBVIOUS
  <2> DEFINE material(before) ==
                 {Issue("MATERIAL_CAPABILITY_CHANGE", id, Null, Null) :
                      id \in InventoryDelta(before, current).changed}
  <2> DEFINE misfits ==
                 UNION {CompareCapabilityToPolicy(policy, id, current[id]) :
                            id \in Present(current)}
  <2> DEFINE observed == CompareObservations(policy, observations)
  <2>1. Issues = material(previous) \cup misfits \cup observed
    BY DEF Issues, ComparePolicyEvidence, CompareInventories
  <2>2. Issues' = material(current) \cup misfits \cup observed
    BY DEF Issues, ComparePolicyEvidence, CompareInventories, Adopt
  <2>3. material(current) = {}
    BY DEF InventoryDelta
  <2>4. \A i \in material(previous) : i.code = "MATERIAL_CAPABILITY_CHANGE"
    BY DEF Issue
  <2>5. \A i \in misfits \cup observed : i.code # "MATERIAL_CAPABILITY_CHANGE"
    BY OtherIssues
  <2> HIDE DEF material, misfits, observed
  <2> QED
    BY <2>1, <2>2, <2>3, <2>4, <2>5
<1> QED
  BY <1>1, PTL DEF Spec, AdoptingClassifiesNothing
=============================================================================
