--------------------------- MODULE AgentRegistry ---------------------------
(***************************************************************************)
(* POST /v1/admin/tenants/{tenant_id}/agents for one tenant: the handler   *)
(* reads the tenant, its plan and the agents in separate transactions,     *)
(* compares the number of active agents with the plan's max_agents and     *)
(* then writes, while other administrators do the same and plans change.   *)
(***************************************************************************)
EXTENDS Integers, FiniteSets

CONSTANTS
    Admins,         \* threads that serve the request
    Agents,         \* agent ids
    NoAgent,        \* an admin's agent when it has none
    Plans,          \* plan ids
    LimitChoices,   \* the max_agents that a plan may be given
    MaxAgents       \* a bound on them

ASSUME RegistryAssumption ==
    /\ IsFiniteSet(Admins)
    /\ IsFiniteSet(Agents)
    /\ NoAgent \notin Agents
    /\ LimitChoices \subseteq Int
    /\ MaxAgents \in Nat \ {0}
    /\ \A l \in LimitChoices : l <= MaxAgents

VARIABLES
    tenantPlan,   \* the plan column of the tenant's row
    plans,        \* the plans table: max_agents and active
    agents,       \* tenant_agents: "absent", "inactive" or "active"
    admin         \* each admin's place in upsert_tenant_agent and its locals

vars == <<tenantPlan, plans, agents, admin>>

AgentStates == {"absent", "inactive", "active"}

IdleAdmin ==
    [pc |-> "idle", agent |-> NoAgent, wanted |-> "inactive", plan |-> "none",
     max_agents |-> 0, loaded |-> "absent"]

Init ==
    /\ tenantPlan \in Plans
    /\ plans \in [Plans -> [max_agents : LimitChoices, active : {TRUE}]]
    /\ agents = [a \in Agents |-> "absent"]
    /\ admin = [m \in Admins |-> IdleAdmin]

Active == {a \in Agents : agents[a] = "active"}

-----------------------------------------------------------------------------
(* Plan changes.                                                           *)

\* A plan made inactive between the check and the write leaves the tables as
\* one that is made inactive after both.
UpdateTenantPlan(p) ==
    /\ plans[p].active
    /\ tenantPlan' = p
    /\ UNCHANGED <<plans, agents, admin>>

UpsertPlan(p, limit, active) ==
    /\ plans' = [plans EXCEPT ![p] = [max_agents |-> limit, active |-> active]]
    /\ UNCHANGED <<tenantPlan, agents, admin>>

-----------------------------------------------------------------------------
(* upsert_tenant_agent, one transaction per step.                          *)

GetTenant(m, a, wanted) ==
    /\ admin[m].pc = "idle"
    /\ admin' = [admin EXCEPT ![m] =
                    [IdleAdmin EXCEPT !.pc = "get_plan", !.agent = a, !.wanted = wanted,
                                      !.plan = tenantPlan]]
    /\ UNCHANGED <<tenantPlan, plans, agents>>

\* The request goes on to state or, refused, ends in an HTTPException.
Gate(m, call, passes, state) ==
    /\ admin[m].pc = call
    /\ admin' = [admin EXCEPT ![m] = IF passes THEN state ELSE IdleAdmin]
    /\ UNCHANGED <<tenantPlan, plans, agents>>

\* Only a request that activates the agent counts the others.
GetPlan(m) ==
    LET plan == plans[admin[m].plan]
    IN  Gate(m, "get_plan", plan.active,
             [admin[m] EXCEPT !.pc = IF admin[m].wanted = "active" THEN "count" ELSE "load",
                              !.max_agents = plan.max_agents])

BelowLimitOneLate(others, max_agents) == others <= max_agents

BelowLimit(others, max_agents) == others < max_agents

CountAgents(m) ==
    Gate(m, "count",
         BelowLimit(Cardinality(Active \ {admin[m].agent}), admin[m].max_agents),
         [admin[m] EXCEPT !.pc = "load"])

\* session.get in the catalog's upsert.
LoadAgent(m) ==
    Gate(m, "load", TRUE, [admin[m] EXCEPT !.pc = "commit", !.loaded = agents[admin[m].agent]])

\* A plausible slip: a state that no reader knows.
WrittenDisabled(row, loaded, wanted) == IF wanted = "inactive" THEN "disabled" ELSE wanted

\* The columns written: all of a new row, those that differ of a loaded one.
Written(row, loaded, wanted) == IF wanted # loaded THEN wanted ELSE row

\* INSERT of an agent that another request has inserted since violates the
\* primary key: 500, and nothing is written.
CommitAgent(m) ==
    LET a == admin[m].agent
        row == agents[a]
    IN  /\ admin[m].pc = "commit"
        /\ agents' = IF admin[m].loaded = "absent" /\ row # "absent"
                     THEN agents
                     ELSE [agents EXCEPT ![a] = Written(row, admin[m].loaded, admin[m].wanted)]
        /\ admin' = [admin EXCEPT ![m] = IdleAdmin]
        /\ UNCHANGED <<tenantPlan, plans>>

\* A call raises or the process dies.
Fail(m) ==
    /\ admin[m].pc # "idle"
    /\ admin' = [admin EXCEPT ![m] = IdleAdmin]
    /\ UNCHANGED <<tenantPlan, plans, agents>>

UpsertTenantAgent(m) ==
    \/ \E a \in Agents, s \in {"inactive", "active"} : GetTenant(m, a, s)
    \/ GetPlan(m) \/ CountAgents(m) \/ LoadAgent(m) \/ CommitAgent(m) \/ Fail(m)

Next ==
    \/ \E p \in Plans : UpdateTenantPlan(p)
    \/ \E p \in Plans, l \in LimitChoices, b \in BOOLEAN : UpsertPlan(p, l, b)
    \/ \E m \in Admins : UpsertTenantAgent(m)

Spec == Init /\ [][Next]_vars

-----------------------------------------------------------------------------

\* The values that the tables and the requests' locals have.
TypeOK ==
    /\ tenantPlan \in Plans
    /\ plans \in [Plans -> [max_agents : LimitChoices, active : BOOLEAN]]
    /\ agents \in [Agents -> AgentStates]
    /\ admin \in [Admins ->
          [pc : {"idle", "get_plan", "count", "load", "commit"}, agent : Agents \cup {NoAgent},
           wanted : {"inactive", "active"}, plan : Plans \cup {"none"},
           max_agents : LimitChoices \cup {0}, loaded : AgentStates]]
    /\ \A m \in Admins : admin[m].pc # "idle" => admin[m].agent \in Agents /\ admin[m].plan \in Plans

\* Counting the agents and activating one are two transactions, so a tenant may
\* come to have more active agents than any plan allowed, but never more than
\* one for each other administrator at work, however plans change meanwhile.
ActiveBound == Cardinality(Active) <= MaxAgents - 1 + Cardinality(Admins)

=============================================================================
