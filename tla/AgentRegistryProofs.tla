------------------------ MODULE AgentRegistryProofs ------------------------
(***************************************************************************)
(* Proofs that the registry of agents keeps its types and that max_agents  *)
(* is exceeded by no more than one agent for each other administrator at   *)
(* work, for any number of administrators, agents and plans.               *)
(***************************************************************************)
EXTENDS AgentRegistry, FiniteSetTheorems, TLAPS

-----------------------------------------------------------------------------
(* Types.                                                                  *)

AdminState ==
    [pc : {"idle", "get_plan", "count", "load", "commit"}, agent : Agents \cup {NoAgent},
     wanted : {"inactive", "active"}, plan : Plans \cup {"none"},
     max_agents : LimitChoices \cup {0}, loaded : AgentStates]

LEMMA IdleType == IdleAdmin \in AdminState /\ IdleAdmin.pc = "idle"
  BY DEF IdleAdmin, AdminState, AgentStates

\* A step of upsert_tenant_agent that writes nothing but its own locals.
LEMMA AdminMoves ==
  ASSUME TypeOK, NEW m \in Admins, NEW state \in AdminState,
         state.pc # "idle" => state.agent \in Agents /\ state.plan \in Plans,
         admin' = [admin EXCEPT ![m] = state],
         UNCHANGED <<tenantPlan, plans>>, agents' \in [Agents -> AgentStates]
  PROVE  TypeOK'
<1>1. admin' \in [Admins -> AdminState]
  BY DEF TypeOK, AdminState
<1> QED
  BY <1>1 DEF TypeOK, AdminState

LEMMA WrittenType ==
  ASSUME NEW row \in AgentStates, NEW loaded \in AgentStates, NEW wanted \in {"inactive", "active"}
  PROVE  Written(row, loaded, wanted) \in AgentStates
  BY DEF Written, AgentStates

LEMMA UpsertTenantAgentTypeOK ==
  ASSUME TypeOK, NEW m \in Admins, UpsertTenantAgent(m)
  PROVE  TypeOK'
<1>0. admin[m] \in AdminState
  BY DEF TypeOK, AdminState
<1>1. ASSUME NEW a \in Agents, NEW s \in {"inactive", "active"}, GetTenant(m, a, s)
      PROVE  TypeOK'
  <2> DEFINE next == [IdleAdmin EXCEPT !.pc = "get_plan", !.agent = a, !.wanted = s,
                                       !.plan = tenantPlan]
  <2>1. tenantPlan \in Plans
    BY DEF TypeOK
  <2>2. next \in AdminState /\ next.agent = a /\ next.plan = tenantPlan
    BY <2>1, IdleType DEF AdminState
  <2>3. admin' = [admin EXCEPT ![m] = next] /\ UNCHANGED <<tenantPlan, plans, agents>>
    BY <1>1 DEF GetTenant
  <2>4. agents' \in [Agents -> AgentStates]
    BY <2>3 DEF TypeOK
  <2> HIDE DEF next
  <2> QED
    BY <2>1, <2>2, <2>3, <2>4, AdminMoves
<1>2. CASE GetPlan(m)
  <2> DEFINE plan == plans[admin[m].plan]
             next == [admin[m] EXCEPT !.pc = IF admin[m].wanted = "active" THEN "count" ELSE "load",
                                      !.max_agents = plan.max_agents]
  <2>1. admin[m].agent \in Agents /\ admin[m].plan \in Plans
    BY <1>2 DEF GetPlan, Gate, TypeOK
  <2>2. plan.max_agents \in LimitChoices
    BY <2>1 DEF TypeOK
  <2>3. next \in AdminState /\ next.agent = admin[m].agent /\ next.plan = admin[m].plan
    BY <1>0, <2>2 DEF AdminState
  <2> QED
    BY ZenonT(60), <1>2, <2>1, <2>3, IdleType, AdminMoves DEF GetPlan, Gate, TypeOK
<1>3. CASE CountAgents(m)
  <2>1. [admin[m] EXCEPT !.pc = "load"] \in AdminState
    BY <1>0 DEF AdminState
  <2>2. admin[m].agent \in Agents /\ admin[m].plan \in Plans
    BY <1>3 DEF CountAgents, Gate, TypeOK
  <2>3. /\ [admin[m] EXCEPT !.pc = "load"].agent = admin[m].agent
        /\ [admin[m] EXCEPT !.pc = "load"].plan = admin[m].plan
    BY <1>0 DEF AdminState
  <2> QED
    BY <1>3, <2>1, <2>2, <2>3, IdleType, AdminMoves DEF CountAgents, Gate, TypeOK
<1>4. CASE LoadAgent(m)
  <2> DEFINE next == [admin[m] EXCEPT !.pc = "commit", !.loaded = agents[admin[m].agent]]
  <2>1. admin[m].agent \in Agents /\ admin[m].plan \in Plans
    BY <1>4 DEF LoadAgent, Gate, TypeOK
  <2>2. next \in AdminState /\ next.agent = admin[m].agent /\ next.plan = admin[m].plan
    BY <1>0, <2>1 DEF AdminState, TypeOK
  <2> QED
    BY <1>4, <2>1, <2>2, AdminMoves DEF LoadAgent, Gate, TypeOK
<1>5. CASE CommitAgent(m)
  <2>1. admin[m].agent \in Agents
    BY <1>5 DEF CommitAgent, TypeOK
  <2>2. Written(agents[admin[m].agent], admin[m].loaded, admin[m].wanted) \in AgentStates
    BY <1>0, <2>1, WrittenType DEF TypeOK, AdminState
  <2>3. agents' \in [Agents -> AgentStates]
    BY <1>5, <2>2 DEF CommitAgent, TypeOK
  <2> QED
    BY <1>5, <2>3, IdleType, AdminMoves DEF CommitAgent
<1>6. CASE Fail(m)
  BY <1>6, IdleType, AdminMoves DEF Fail, TypeOK
<1> QED
  BY <1>1, <1>2, <1>3, <1>4, <1>5, <1>6 DEF UpsertTenantAgent

LEMMA StepTypeOK ==
  ASSUME TypeOK, [Next]_vars
  PROVE  TypeOK'
<1>1. ASSUME NEW p \in Plans, UpdateTenantPlan(p) PROVE TypeOK'
  BY <1>1 DEF TypeOK, UpdateTenantPlan
<1>2. ASSUME NEW p \in Plans, NEW l \in LimitChoices, NEW b \in BOOLEAN, UpsertPlan(p, l, b)
      PROVE  TypeOK'
  <2>1. plans' \in [Plans -> [max_agents : LimitChoices, active : BOOLEAN]]
    BY <1>2 DEF TypeOK, UpsertPlan
  <2> QED
    BY <1>2, <2>1 DEF TypeOK, UpsertPlan
<1>3. CASE UNCHANGED vars
  BY <1>3 DEF vars, TypeOK
<1> QED
  BY <1>1, <1>2, <1>3, UpsertTenantAgentTypeOK DEF Next

\* The tables and the locals of upsert_tenant_agent keep their types, for any
\* number of administrators, agents and plans.
THEOREM TypeCorrect == Spec => []TypeOK
<1>1. Init => TypeOK
  <2> SUFFICES ASSUME Init PROVE TypeOK
    OBVIOUS
  <2>1. admin \in [Admins -> AdminState] /\ \A m \in Admins : admin[m].pc = "idle"
    BY IdleType DEF Init
  <2>2. agents \in [Agents -> AgentStates]
    BY DEF Init, AgentStates
  <2>3. plans \in [Plans -> [max_agents : LimitChoices, active : BOOLEAN]]
    BY DEF Init
  <2>4. tenantPlan \in Plans
    BY DEF Init
  <2> QED
    BY <2>1, <2>2, <2>3, <2>4 DEF TypeOK, AdminState
<1> QED
  BY <1>1, StepTypeOK, PTL DEF Spec

-----------------------------------------------------------------------------
(* How many agents are active.                                             *)

\* The requests that have passed the check of max_agents and have yet to write.
Activating == {m \in Admins : admin[m].pc \in {"load", "commit"} /\ admin[m].wanted = "active"}

\* The agents that are active or may become so without being counted again.
Planned == Active \cup {admin[m].agent : m \in Activating}

PlannedBound == Cardinality(Planned) <= MaxAgents - 1 + Cardinality(Admins)

RegistryInv == TypeOK /\ PlannedBound

LEMMA Counts ==
  ASSUME TypeOK
  PROVE  /\ Planned \subseteq Agents
         /\ IsFiniteSet(Planned) /\ Cardinality(Planned) \in Nat
         /\ IsFiniteSet(Active) /\ Cardinality(Active) \in Nat
         /\ Cardinality(Admins) \in Nat
<1>1. Planned \subseteq Agents /\ Active \subseteq Agents
  BY DEF TypeOK, Planned, Active, Activating
<1> QED
  BY <1>1, RegistryAssumption, FS_Subset, FS_CardinalityType

\* The agents of a set of requests are no more than the requests.
LEMMA AgentsOfRequests ==
  ASSUME TypeOK, NEW S \in SUBSET Admins
  PROVE  LET T == {admin[m].agent : m \in S}
         IN  IsFiniteSet(T) /\ Cardinality(T) <= Cardinality(S)
<1> DEFINE T == {admin[m].agent : m \in S}
           f == [m \in S |-> admin[m].agent]
<1>1. IsFiniteSet(S)
  BY RegistryAssumption, FS_Subset
<1>2. f \in Surjection(S, T)
  BY DEF Surjection
<1> QED
  BY <1>1, <1>2, FS_Surjection

\* Nothing but the count can add to the planned agents.
LEMMA FewerPlanned ==
  ASSUME RegistryInv, TypeOK', Planned' \subseteq Planned
  PROVE  PlannedBound'
<1>1. Cardinality(Planned') <= Cardinality(Planned) /\ Cardinality(Planned') \in Nat
  BY Counts, FS_Subset, FS_CardinalityType DEF RegistryInv
<1> QED
  BY <1>1, Counts, RegistryAssumption DEF RegistryInv, PlannedBound

\* The count itself: the other active agents are below the limit, this request
\* adds one, and every other request at work at most one more.
LEMMA CountBounds ==
  ASSUME RegistryInv, TypeOK', NEW m \in Admins, CountAgents(m)
  PROVE  PlannedBound'
<1> DEFINE a == admin[m].agent
           others == Active \ {a}
           S == Activating \ {m}
           T == {admin[k].agent : k \in S}
<1>0. TypeOK /\ admin[m].pc = "count" /\ agents' = agents
  BY DEF RegistryInv, CountAgents, Gate
<1>1. CASE ~BelowLimit(Cardinality(others), admin[m].max_agents)
  <2>1. admin' = [admin EXCEPT ![m] = IdleAdmin]
    BY <1>1 DEF CountAgents, Gate
  <2>2. Planned' \subseteq Planned
    BY <1>0, <2>1, IdleType DEF Planned, Active, Activating, TypeOK
  <2> QED
    BY <2>2, FewerPlanned
<1>2. CASE BelowLimit(Cardinality(others), admin[m].max_agents)
  <2>1. admin' = [admin EXCEPT ![m] = [admin[m] EXCEPT !.pc = "load"]]
    BY <1>2 DEF CountAgents, Gate
  <2>2. /\ admin'[m].agent = a
        /\ \A k \in Admins : k # m => admin'[k] = admin[k]
    BY <1>0, <2>1 DEF TypeOK
  <2>3. Planned' \subseteq (others \cup {a}) \cup T
    BY <1>0, <2>2 DEF Planned, Active, Activating
  <2>4. /\ IsFiniteSet(others) /\ Cardinality(others) \in Nat
        /\ IsFiniteSet(others \cup {a})
        /\ Cardinality(others \cup {a}) = Cardinality(others) + 1
    <3>1. IsFiniteSet(others) /\ a \notin others
      BY <1>0, Counts, FS_RemoveElement
    <3> HIDE DEF others
    <3> QED
      BY <3>1, FS_AddElement, FS_CardinalityType
  <2>5. Cardinality(others) <= MaxAgents - 1
    <3>1. admin[m].max_agents \in LimitChoices \cup {0}
      <4>1. admin[m] \in AdminState
        BY <1>0 DEF TypeOK, AdminState
      <4> QED
        BY <4>1 DEF AdminState
    <3>2. admin[m].max_agents \in Int /\ admin[m].max_agents <= MaxAgents
      <4>1. \A l \in LimitChoices : l \in Int /\ l <= MaxAgents
        BY RegistryAssumption
      <4>2. 0 \in Int /\ 0 <= MaxAgents
        BY RegistryAssumption
      <4> QED
        BY <3>1, <4>1, <4>2
    <3>3. Cardinality(others) < admin[m].max_agents
      BY <1>2 DEF BelowLimit
    <3> HIDE DEF others
    <3> QED
      BY <2>4, <3>2, <3>3, RegistryAssumption
  <2>6. S \in SUBSET Admins /\ S \subseteq Admins \ {m}
    BY DEF Activating
  <2>7. /\ IsFiniteSet(Admins \ {m}) /\ Cardinality(Admins \ {m}) = Cardinality(Admins) - 1
        /\ IsFiniteSet(S) /\ Cardinality(S) <= Cardinality(Admins) - 1
        /\ Cardinality(S) \in Nat
    BY <2>6, RegistryAssumption, FS_RemoveElement, FS_Subset, FS_CardinalityType
  <2>8. IsFiniteSet(T) /\ Cardinality(T) <= Cardinality(S) /\ Cardinality(T) \in Nat
    BY <1>0, <2>6, AgentsOfRequests, FS_CardinalityType
  <2>9. /\ IsFiniteSet((others \cup {a}) \cup T)
        /\ Cardinality((others \cup {a}) \cup T) <= Cardinality(others) + 1 + Cardinality(T)
    <3>1. /\ IsFiniteSet((others \cup {a}) \cup T)
          /\ Cardinality((others \cup {a}) \cup T)
               = Cardinality(others \cup {a}) + Cardinality(T) - Cardinality((others \cup {a}) \cap T)
      BY <2>4, <2>8, FS_Union
    <3>2. Cardinality((others \cup {a}) \cap T) \in Nat
      BY <2>8, FS_Subset, FS_CardinalityType
    <3> QED
      BY <2>4, <2>8, <3>1, <3>2
  <2>10. Cardinality(Planned') <= Cardinality((others \cup {a}) \cup T) /\ Cardinality(Planned') \in Nat
    BY <2>3, <2>9, FS_Subset, FS_CardinalityType
  <2>11. Cardinality((others \cup {a}) \cup T) \in Nat
    BY <2>9, FS_CardinalityType
  <2> QED
    BY <1>0, <2>4, <2>5, <2>7, <2>8, <2>9, <2>10, <2>11, Counts, RegistryAssumption DEF PlannedBound
<1> QED
  BY <1>1, <1>2

LEMMA UpsertTenantAgentBound ==
  ASSUME RegistryInv, TypeOK', NEW m \in Admins, UpsertTenantAgent(m)
  PROVE  PlannedBound'
<1>0. TypeOK
  BY DEF RegistryInv
<1>1. ASSUME NEW a \in Agents, NEW s \in {"inactive", "active"}, GetTenant(m, a, s)
      PROVE  Planned' \subseteq Planned
  <2>1. \A k \in Admins : k # m => admin'[k] = admin[k]
    BY <1>0, <1>1 DEF TypeOK, GetTenant
  <2>2. admin'[m].pc = "get_plan" /\ agents' = agents
    BY <1>0, <1>1 DEF TypeOK, GetTenant, IdleAdmin
  <2> QED
    BY <2>1, <2>2 DEF Planned, Active, Activating
<1>2. ASSUME GetPlan(m) PROVE Planned' \subseteq Planned
  <2>1. \A k \in Admins : k # m => admin'[k] = admin[k]
    BY <1>0, <1>2 DEF TypeOK, GetPlan, Gate
  <2>2. /\ admin'[m].pc \in {"load", "commit"} => admin'[m].wanted # "active"
        /\ agents' = agents
    BY <1>0, <1>2, IdleType DEF TypeOK, GetPlan, Gate
  <2> QED
    BY <2>1, <2>2 DEF Planned, Active, Activating
<1>3. ASSUME LoadAgent(m) PROVE Planned' \subseteq Planned
  <2>1. /\ \A k \in Admins : k # m => admin'[k] = admin[k]
        /\ agents' = agents /\ admin[m].pc = "load"
        /\ admin'[m].agent = admin[m].agent /\ admin'[m].wanted = admin[m].wanted
    BY <1>0, <1>3 DEF TypeOK, LoadAgent, Gate
  <2> QED
    BY <2>1 DEF Planned, Active, Activating
<1>4. ASSUME CommitAgent(m) PROVE Planned' \subseteq Planned
  <2>1. /\ admin' = [admin EXCEPT ![m] = IdleAdmin]
        /\ admin[m].pc = "commit" /\ admin[m].agent \in Agents
    BY <1>0, <1>4 DEF TypeOK, CommitAgent
  <2>2. \A x \in Agents : agents'[x] = "active" => agents[x] = "active" \/ x = admin[m].agent
    BY <1>0, <1>4 DEF TypeOK, CommitAgent
  <2>3. agents'[admin[m].agent] = "active" /\ agents[admin[m].agent] # "active"
          => admin[m].wanted = "active"
    BY <1>0, <1>4, <2>1 DEF TypeOK, CommitAgent, Written
  <2>4. Active' \subseteq Planned
    BY <2>1, <2>2, <2>3 DEF Planned, Active, Activating
  <2>5. {admin'[k].agent : k \in Activating'} \subseteq Planned
    BY <1>0, <2>1, IdleType DEF Planned, Activating, TypeOK
  <2> QED
    BY <2>4, <2>5 DEF Planned
<1>5. ASSUME Fail(m) PROVE Planned' \subseteq Planned
  BY <1>0, <1>5, IdleType DEF Planned, Active, Activating, TypeOK, Fail
<1> QED
  BY <1>1, <1>2, <1>3, <1>4, <1>5, CountBounds, FewerPlanned DEF UpsertTenantAgent

\* A tenant has at most as many active agents as the largest max_agents and one
\* more for each other administrator in upsert_tenant_agent, however their
\* counts, writes and plan changes interleave.
THEOREM ActiveAgentsAreBounded == Spec => []ActiveBound
<1>1. Init => PlannedBound
  <2> SUFFICES ASSUME Init PROVE PlannedBound
    OBVIOUS
  <2>1. Planned = {}
    BY IdleType DEF Init, Planned, Active, Activating
  <2>2. Cardinality(Admins) \in Nat
    BY RegistryAssumption, FS_CardinalityType
  <2> QED
    BY <2>1, <2>2, FS_EmptySet, RegistryAssumption DEF PlannedBound
<1>2. RegistryInv /\ TypeOK' /\ [Next]_vars => PlannedBound'
  <2> SUFFICES ASSUME RegistryInv, TypeOK', [Next]_vars PROVE PlannedBound'
    OBVIOUS
  <2>1. ASSUME UNCHANGED <<agents, admin>> PROVE PlannedBound'
    BY <2>1 DEF RegistryInv, PlannedBound, Planned, Active, Activating
  <2>2. ASSUME NEW p \in Plans, UpdateTenantPlan(p) PROVE PlannedBound'
    BY <2>1, <2>2 DEF UpdateTenantPlan
  <2>3. ASSUME NEW p \in Plans, NEW l \in LimitChoices, NEW b \in BOOLEAN, UpsertPlan(p, l, b)
        PROVE  PlannedBound'
    BY <2>1, <2>3 DEF UpsertPlan
  <2>4. CASE UNCHANGED vars
    BY <2>1, <2>4 DEF vars
  <2> QED
    BY <2>2, <2>3, <2>4, UpsertTenantAgentBound DEF Next
<1>3. TypeOK /\ PlannedBound => ActiveBound
  <2> SUFFICES ASSUME TypeOK, PlannedBound PROVE ActiveBound
    OBVIOUS
  <2>1. Active \subseteq Planned
    BY DEF Planned
  <2>2. Cardinality(Active) <= Cardinality(Planned)
    BY <2>1, Counts, FS_Subset
  <2> QED
    BY <2>2, Counts, RegistryAssumption DEF PlannedBound, ActiveBound
<1> QED
  BY <1>1, <1>2, <1>3, TypeCorrect, PTL DEF Spec, RegistryInv

=============================================================================
