---------------------------- MODULE RunExecution ----------------------------
(***************************************************************************)
(* POST /v1/tenants/{tenant_id}/runs for one tenant: the request threads   *)
(* of the API processes pass the tenant, plan, entitlement, rate and quota *)
(* gates one database read at a time, call the agent gateway and record    *)
(* the usage, while administrators change plans, agents and grants and the *)
(* month turns.                                                            *)
(*                                                                         *)
(* A request is described by the call it makes next; everything it has     *)
(* read stays in its locals and may be stale by the time it is used.       *)
(***************************************************************************)
EXTENDS Integers, FiniteSets

CONSTANTS
    Requests,         \* threads that serve runs
    Customers,        \* customer_user_ids; "*" stands for every customer
    Agents,           \* agent ids
    Plans,            \* plan ids
    LimitChoices,     \* the limits that an administrator may give a plan
    MaxMessages,      \* a bound on their monthly_messages
    MaxTokenCap,      \* a bound on their monthly_token_cap
    MessageLengths,   \* lengths of request.message
    OutputLengths,    \* lengths of the gateway's output_text
    MaxMonth          \* bound: the last month of a run

VARIABLES
    tenant,      \* the tenant's row: plan and status
    plans,       \* the plans table
    agents,      \* the tenant's agents: "absent", "inactive" or "active"
    grants,      \* customer_agent_entitlements: <<customer, agent>> pairs
    usage,       \* usage_events, summed per month
    month,       \* the current month
    request,     \* each thread's next call and locals
    sawActive,   \* history: requests whose agent was active since they arrived
    sawGrant     \* history: requests whose customer had a grant since then

adminVars == <<tenant, plans, agents, grants>>
vars == <<tenant, plans, agents, grants, usage, month, request, sawActive, sawGrant>>

\* Each month begins where the one before it ends.
Months == 0..MaxMonth

\* The keys of customer_agent_entitlements.
Entitlements == (Customers \cup {"*"}) \X Agents

Limits == [monthly_messages : Int, monthly_token_cap : Int]

ASSUME LimitsAssumption ==
    /\ LimitChoices \subseteq Limits
    /\ MaxMessages \in Nat \ {0}
    /\ MaxTokenCap \in Nat \ {0, 1}
    /\ \A l \in LimitChoices : /\ l.monthly_messages <= MaxMessages
                              /\ l.monthly_token_cap <= MaxTokenCap

ASSUME RequestsAssumption == IsFiniteSet(Requests) /\ MaxMonth \in Nat

\* There is a longest message and a longest output: texts fit in memory.
ASSUME LengthsAssumption ==
    /\ MessageLengths \subseteq Nat /\ OutputLengths \subseteq Nat
    /\ \E longest \in MessageLengths : \A l \in MessageLengths : l <= longest
    /\ \E longest \in OutputLengths : \A l \in OutputLengths : l <= longest

\* The summary of a month without usage events.
NoUsage == [messages |-> 0, tokens |-> 0]

NoLimits == [monthly_messages |-> 0, monthly_token_cap |-> 0]

\* max(len(text) // 4, 1)
Tokens(length) == IF length \div 4 >= 1 THEN length \div 4 ELSE 1

IdleRequest ==
    [pc |-> "idle", customer |-> "", agent |-> "", length |-> 0,
     plan |-> "", limits |-> NoLimits, month |-> 0, output |-> 0, stamp |-> 0]

\* A tenant as create_tenant leaves it, before its bootstrap job is run.
Init ==
    /\ tenant \in [plan : Plans, status : {"pending"}]
    /\ plans \in [Plans -> [limits : LimitChoices, active : {TRUE}]]
    /\ agents = [a \in Agents |-> "absent"]
    /\ grants = {}
    /\ usage = [m \in Months |-> NoUsage]
    /\ month = 0
    /\ request = [r \in Requests |-> IdleRequest]
    /\ sawActive = {}
    /\ sawGrant = {}

Granted(customer, agent) == {<<customer, agent>>, <<"*", agent>>} \cap grants # {}

-----------------------------------------------------------------------------
(* Writes by administrators and by the provisioning worker: each is one    *)
(* commit of a catalog operation.                                          *)

UpsertTenant(plan, status) ==
    /\ tenant' = [plan |-> plan, status |-> status]
    /\ UNCHANGED <<plans, agents, grants, usage, month, request, sawActive, sawGrant>>

UpsertPlan(p, limits, active) ==
    /\ plans' = [plans EXCEPT ![p] = [limits |-> limits, active |-> active]]
    /\ UNCHANGED <<tenant, agents, grants, usage, month, request, sawActive, sawGrant>>

UpsertTenantAgent(a, state) ==
    /\ agents' = [agents EXCEPT ![a] = state]
    /\ sawActive' = sawActive \cup
          {r \in Requests : request[r].agent = a /\ state = "active"}
    /\ UNCHANGED <<tenant, plans, grants, usage, month, request, sawGrant>>

\* A plausible slip: the two columns of the key are swapped.
GrantSwapped(customer, a) ==
    /\ agents[a] # "absent"
    /\ grants' = grants \cup {<<a, customer>>}
    /\ UNCHANGED <<tenant, plans, agents, usage, month, request, sawActive, sawGrant>>

GrantCustomerAgent(customer, a) ==
    /\ agents[a] # "absent"
    /\ grants' = grants \cup {<<customer, a>>}
    /\ sawGrant' = sawGrant \cup
          {r \in Requests : request[r].agent = a /\ customer \in {request[r].customer, "*"}}
    /\ UNCHANGED <<tenant, plans, agents, usage, month, request, sawActive>>

RevokeCustomerAgent(customer, a) ==
    /\ grants' = grants \ {<<customer, a>>}
    /\ UNCHANGED <<tenant, plans, agents, usage, month, request, sawActive, sawGrant>>

\* entitlement_rollout apply, one transaction: explicit grants are added and,
\* with --drop-wildcards, those to "*" for the same agents removed.  The agent
\* need not exist; a mapping file that names "*" is refused.
ApplyMapping(mapping, drop_wildcards) ==
    LET wildcards == {<<"*", pair[2]>> : pair \in mapping}
    IN  /\ grants' = (grants \cup mapping) \ (IF drop_wildcards THEN wildcards ELSE {})
        /\ sawGrant' = sawGrant \cup
              {r \in Requests : <<request[r].customer, request[r].agent>> \in mapping}
        /\ UNCHANGED <<tenant, plans, agents, usage, month, request, sawActive>>

-----------------------------------------------------------------------------
(* execute_run, one call per step.                                         *)

\* An authenticated request; which customer it is for comes from its token.
Arrive(r, customer, a, length) ==
    /\ request[r].pc = "idle"
    /\ request' = [request EXCEPT ![r] =
                      [IdleRequest EXCEPT !.pc = "get_tenant", !.customer = customer,
                                          !.agent = a, !.length = length]]
    /\ sawActive' = IF agents[a] = "active" THEN sawActive \cup {r} ELSE sawActive \ {r}
    /\ sawGrant' = IF Granted(customer, a) THEN sawGrant \cup {r} ELSE sawGrant \ {r}
    /\ UNCHANGED <<adminVars, usage, month>>

\* A gate: the request goes on to the call in state, or is answered with an
\* HTTPException and nothing is recorded.
Gate(r, call, passes, state) ==
    /\ request[r].pc = call
    /\ request' = [request EXCEPT ![r] = IF passes THEN state ELSE IdleRequest]
    /\ UNCHANGED <<adminVars, usage, month, sawActive, sawGrant>>

GetTenant(r) ==
    Gate(r, "get_tenant", tenant.status = "active",
         [request[r] EXCEPT !.pc = "get_plan", !.plan = tenant.plan])

GetPlan(r) ==
    LET plan == plans[request[r].plan]
    IN  Gate(r, "get_plan", plan.active,
             [request[r] EXCEPT !.pc = "get_agent", !.limits = plan.limits])

AgentNotChecked(r) ==
    Gate(r, "get_agent", agents[request[r].agent] # "absent", [request[r] EXCEPT !.pc = "get_grant"])

\* is_customer_entitled reads the agent and the grants in two statements.
CheckAgent(r) ==
    Gate(r, "get_agent", agents[request[r].agent] = "active", [request[r] EXCEPT !.pc = "get_grant"])

CheckGrant(r) ==
    Gate(r, "get_grant", Granted(request[r].customer, request[r].agent),
         [request[r] EXCEPT !.pc = "limiter"])

\* The rate limiter is a model of its own; here it may answer either way.
\* The month whose quota counts is read next.
RateLimit(r) ==
    \E allowed \in BOOLEAN :
        Gate(r, "limiter", allowed, [request[r] EXCEPT !.pc = "quota", !.month = month])

AllowRequestOneLate(limits, counter, estimated_tokens) ==
    /\ counter.messages <= limits.monthly_messages
    /\ counter.tokens + estimated_tokens <= limits.monthly_token_cap

MessagesOnly(limits, counter, estimated_tokens) ==
    counter.messages + 1 <= limits.monthly_messages

AllowRequest(limits, counter, estimated_tokens) ==
    /\ counter.messages + 1 <= limits.monthly_messages
    /\ counter.tokens + estimated_tokens <= limits.monthly_token_cap

\* The count of a month's usage events and the sum of their tokens.
SummarizeTenantMonth(m) == usage[m]

\* The usage of the month read earlier is summed and judged by the limits read
\* earlier still; the output is assumed to be as long as the message.
CheckQuota(r) ==
    Gate(r, "quota",
         AllowRequest(request[r].limits, SummarizeTenantMonth(request[r].month),
                      2 * Tokens(request[r].length)),
         [request[r] EXCEPT !.pc = "execute"])

\* The gateway answers.
Execute(r, length) ==
    Gate(r, "execute", TRUE, [request[r] EXCEPT !.pc = "record", !.output = length])

\* The UsageEvent is made and stamped with the month it is made in, which need
\* not be the month whose quota admitted the run.
Stamp(r) == Gate(r, "record", TRUE, [request[r] EXCEPT !.pc = "commit", !.stamp = month])

\* usage.record: one event per run, as request_id is a fresh uuid.
Record(r) ==
    LET m == request[r].stamp
        spent == Tokens(request[r].length) + Tokens(request[r].output)
    IN  /\ request[r].pc = "commit"
        /\ usage' = [usage EXCEPT ![m] =
                        [messages |-> usage[m].messages + 1,
                         tokens |-> usage[m].tokens + spent]]
        /\ request' = [request EXCEPT ![r] = IdleRequest]
        /\ UNCHANGED <<adminVars, month, sawActive, sawGrant>>

\* A call raises, the gateway times out, or the process dies: a run that was
\* executed and not yet recorded is never recorded.
Fail(r) ==
    /\ request[r].pc # "idle"
    /\ request' = [request EXCEPT ![r] = IdleRequest]
    /\ UNCHANGED <<adminVars, usage, month, sawActive, sawGrant>>

NextMonth ==
    /\ month < MaxMonth
    /\ month' = month + 1
    /\ UNCHANGED <<adminVars, usage, request, sawActive, sawGrant>>

-----------------------------------------------------------------------------

AdminWrite ==
    \/ \E p \in Plans, s \in {"pending", "active"} : UpsertTenant(p, s)
    \/ \E p \in Plans, l \in LimitChoices, b \in BOOLEAN : UpsertPlan(p, l, b)
    \/ \E a \in Agents, s \in {"inactive", "active"} : UpsertTenantAgent(a, s)
    \/ \E pair \in Entitlements :
          \/ GrantCustomerAgent(pair[1], pair[2])
          \/ RevokeCustomerAgent(pair[1], pair[2])
    \/ \E mapping \in SUBSET ((Customers \ {"*"}) \X Agents), b \in BOOLEAN : ApplyMapping(mapping, b)

ExecuteRun(r) ==
    \/ \E c \in Customers, a \in Agents, l \in MessageLengths : Arrive(r, c, a, l)
    \/ GetTenant(r) \/ GetPlan(r) \/ CheckAgent(r) \/ CheckGrant(r)
    \/ RateLimit(r) \/ CheckQuota(r)
    \/ \E l \in OutputLengths : Execute(r, l)
    \/ Stamp(r) \/ Record(r) \/ Fail(r)

Next ==
    \/ AdminWrite
    \/ \E r \in Requests : ExecuteRun(r)
    \/ NextMonth

Spec == Init /\ [][Next]_vars

-----------------------------------------------------------------------------
(* Properties.                                                             *)

Calls == {"idle", "get_tenant", "get_plan", "get_agent", "get_grant", "limiter", "quota",
          "execute", "record", "commit"}

\* The values that the tables, the requests' locals and the histories have.
TypeOK ==
    /\ tenant \in [plan : Plans, status : {"pending", "active"}]
    /\ plans \in [Plans -> [limits : LimitChoices, active : BOOLEAN]]
    /\ agents \in [Agents -> {"absent", "inactive", "active"}]
    /\ grants \subseteq Entitlements
    /\ usage \in [Months -> [messages : Nat, tokens : Nat]]
    /\ month \in Months
    /\ request \in [Requests ->
          [pc : Calls, customer : Customers \cup {""}, agent : Agents \cup {""},
           length : Nat, plan : Plans \cup {""}, limits : LimitChoices \cup {NoLimits},
           month : Months, output : Nat, stamp : Months]]
    /\ sawActive \subseteq Requests
    /\ sawGrant \subseteq Requests

\* The gap between reading the usage and recording the run lets a month take in
\* more runs than any limit allowed, but never more than one for each other
\* request thread, however plans change and wherever the month turns.
MessagesBound ==
    \A m \in Months : usage[m].messages <= MaxMessages - 1 + Cardinality(Requests)

LargestRun ==
    LET runs == {Tokens(l) + Tokens(o) : l \in MessageLengths, o \in OutputLengths}
    IN  CHOOSE n \in runs : \A k \in runs : k <= n

\* The tokens of a month exceed the highest cap by less than one run for each
\* request thread.
TokensBound ==
    \A m \in Months :
        usage[m].tokens <= MaxTokenCap - 2 + Cardinality(Requests) * LargestRun

\* The agent is run for a customer only if, since the request came in, the agent
\* was active and the customer, or every customer, had a grant for it: a request
\* that comes after the grant was revoked, or the agent switched off, is refused.
RunsAreEntitled ==
    \A r \in Requests :
        request[r].pc \in {"execute", "record", "commit"} => r \in sawActive \cap sawGrant

=============================================================================
