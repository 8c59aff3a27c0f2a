------------------------------ MODULE AdminApi ------------------------------
(***************************************************************************)
(* The endpoints under /v1/admin: who may call which, and the two that     *)
(* grant a customer access to an agent and revoke it, call by call.  What  *)
(* the other handlers write is modelled by Provisioning, RunExecution and  *)
(* AgentRegistry.  There is one agent, and every tenant has it.            *)
(***************************************************************************)
EXTENDS Authentication, FiniteSets

CONSTANTS
    Tenants,       \* tenant ids
    Customers,     \* customer user ids
    Admins,        \* threads that serve administrators
    AdminTokens    \* the bearer tokens that administrators may hold

\* A path parameter is never empty, and the value of a claim that lists names
\* is a list or a string of one kind.
ASSUME AdminAssumption ==
    /\ Absent \notin Tenants
    /\ \A token \in AdminTokens :
          \A value \in {token.claims.roles, token.claims.role, token.claims.scp,
                       token.claims.scope, token.claims.tenant_ids} :
              value.form \in {"list", "spaces", "commas"}

VARIABLES
    settings,   \* the settings of the process
    call,       \* each admin thread's request
    access      \* customer_agent_entitlements: pairs of a tenant and a customer

\* The arguments of _authorize_admin in a handler.
PolicyOf(scoped, roles, scopes) ==
    [tenant_scoped |-> scoped, roles |-> {"platform_admin"} \cup roles, scopes |-> scopes]

UnscopedAccessPolicy ==
    PolicyOf(FALSE, {"tenant_admin"}, {"tenant.agents.write", "tenant.agent_access.write"})

AccessPolicy ==
    PolicyOf(TRUE, {"tenant_admin"}, {"tenant.agents.write", "tenant.agent_access.write"})

IdentityPolicy == PolicyOf(FALSE, {}, {"admin.identity.read"})

PlansReadPolicy == PolicyOf(FALSE, {}, {"plans.read"})

PlansWritePolicy == PolicyOf(FALSE, {}, {"plans.write"})

TenantPlanPolicy == PolicyOf(TRUE, {"tenant_admin"}, {"tenant.plan.write"})

TenantUsagePolicy ==
    PolicyOf(TRUE, {"tenant_admin", "billing_reader"}, {"tenant.usage.read", "billing.read"})

AgentsReadPolicy == PolicyOf(TRUE, {"tenant_admin"}, {"tenant.agents.read"})

AgentsWritePolicy == PolicyOf(TRUE, {"tenant_admin"}, {"tenant.agents.write"})

AccessReadPolicy ==
    PolicyOf(TRUE, {"tenant_admin"}, {"tenant.agents.read", "tenant.agent_access.read"})

ExportPolicy == PolicyOf(FALSE, {"billing_reader"}, {"usage.export", "billing.read"})

Policy ==
    [debug_identity |-> IdentityPolicy,
     list_plans |-> PlansReadPolicy, get_plan |-> PlansReadPolicy, upsert_plan |-> PlansWritePolicy,
     update_tenant_plan |-> TenantPlanPolicy, tenant_usage |-> TenantUsagePolicy,
     list_tenant_agents |-> AgentsReadPolicy, upsert_tenant_agent |-> AgentsWritePolicy,
     grant_customer_agent_access |-> AccessPolicy, revoke_customer_agent_access |-> AccessPolicy,
     list_customer_agent_access |-> AccessReadPolicy, export_usage |-> ExportPolicy]

\* _authorize_admin for a path with the given tenant.
AuthorizesAdmin(s, endpoint, tenant, token) ==
    LET policy == Policy[endpoint]
    IN  /\ DecodesBearerJwt(s, token)
        /\ Authorizes(AdminPrincipal(token.claims), policy.roles, policy.scopes,
                      IF policy.tenant_scoped THEN tenant ELSE Absent)

NoCall == [endpoint |-> "none", tenant |-> Absent, token |-> [signed |-> "missing"]]

AdminInit ==
    /\ call = [m \in Admins |-> NoCall]
    /\ access = {}

AccessEndpoints == {"grant_customer_agent_access", "revoke_customer_agent_access"}

\* The caller is authorized, then the handler begins; refused, it is over.
AuthorizeCall(m, endpoint, tenant, token) ==
    /\ call[m] = NoCall
    /\ AuthorizesAdmin(settings, endpoint, tenant, token)
    /\ call' = [call EXCEPT ![m] = [endpoint |-> endpoint, tenant |-> tenant, token |-> token]]
    /\ UNCHANGED access

GrantCustomerAgent(m, customer) ==
    /\ call[m].endpoint = "grant_customer_agent_access"
    /\ access' = access \cup {<<call[m].tenant, customer>>}
    /\ call' = [call EXCEPT ![m] = NoCall]

RevokeCustomerAgent(m, customer) ==
    /\ call[m].endpoint = "revoke_customer_agent_access"
    /\ access' = access \ {<<call[m].tenant, customer>>}
    /\ call' = [call EXCEPT ![m] = NoCall]

\* The handler's call raises or its process dies before the commit; after it
\* the access is changed all the same.
CallFails(m) ==
    /\ call[m] # NoCall
    /\ UNCHANGED access
    /\ call' = [call EXCEPT ![m] = NoCall]

AdminNext(m) ==
    \/ \E endpoint \in AccessEndpoints, tenant \in Tenants, token \in AdminTokens :
          AuthorizeCall(m, endpoint, tenant, token)
    \/ \E customer \in Customers : GrantCustomerAgent(m, customer) \/ RevokeCustomerAgent(m, customer)
    \/ CallFails(m)

-----------------------------------------------------------------------------
(* What docs/ENTRA_ADMIN_RBAC_CONTRACT.md promises of a token's claims.    *)

Lists(value, separators) == IF value.form \in {"list"} \cup separators THEN value.names ELSE {}

HoldsRole(claims, roles) ==
    \E name \in roles : \E value \in {claims.roles, claims.role} : name \in Lists(value, {"spaces", "commas"})

HoldsScope(claims, scopes) ==
    \E name \in scopes : \E value \in {claims.scp, claims.scope} : name \in Lists(value, {"spaces"})

\* "`platform_admin` bypasses tenant scoping.  Otherwise token must include
\* `tenant_ids` containing path tenant id (or `*`), or `tenant_id`/`tid` matching
\* it."
InTenant(claims, tenant) ==
    \/ HoldsRole(claims, {"platform_admin"})
    \/ {"*", tenant} \cap Lists(claims.tenant_ids, {"spaces", "commas"}) # {}
    \/ tenant \in {claims.tenant_id, claims.tid}

\* "Endpoint policy map": roles, scopes and whether tenant-scoped.
Contract ==
    [debug_identity |-> <<{"platform_admin"}, {"admin.identity.read"}, FALSE>>,
     list_plans |-> <<{"platform_admin"}, {"plans.read"}, FALSE>>,
     get_plan |-> <<{"platform_admin"}, {"plans.read"}, FALSE>>,
     upsert_plan |-> <<{"platform_admin"}, {"plans.write"}, FALSE>>,
     update_tenant_plan |-> <<{"platform_admin", "tenant_admin"}, {"tenant.plan.write"}, TRUE>>,
     tenant_usage |-> <<{"platform_admin", "tenant_admin", "billing_reader"},
                        {"tenant.usage.read", "billing.read"}, TRUE>>,
     export_usage |-> <<{"platform_admin", "billing_reader"}, {"usage.export", "billing.read"}, FALSE>>]

\* Where the code departs from the contract: it takes "*" in the claim for a
\* single tenant for all tenants, as it does in tenant_ids.
ClaimsEveryTenant(claims) == ClaimedTenant(claims) = "*"

\* Where the contract leaves open which claim counts: the code does not look at
\* a tid behind a tenant_id.
ShadowsTenant(claims, tenant) == claims.tid = tenant /\ claims.tenant_id \notin {Absent, tenant}

\* At the seven endpoints of the contract a thread that is free admits no token
\* without a role or a scope that the contract names, and at the tenant-scoped
\* ones none for another tenant, except, against the contract, a token with "*"
\* for its single tenant.  It admits all that the contract names, except at the
\* tenant-scoped ones a token whose tid names the tenant behind another
\* tenant_id.  Which claims carry the names, and in which form, is no matter.
AuthorizationFollowsContract ==
    \A m \in Admins, endpoint \in DOMAIN Contract, tenant \in Tenants, token \in AdminTokens :
        call[m] = NoCall /\ DecodesBearerJwt(settings, token) =>
            LET rule == Contract[endpoint]
                claims == token.claims
                admitted == AuthorizesAdmin(settings, endpoint, tenant, token)
                permitted == HoldsRole(claims, rule[1]) \/ HoldsScope(claims, rule[2])
            IN  /\ admitted => /\ permitted
                               /\ rule[3] => InTenant(claims, tenant) \/ ClaimsEveryTenant(claims)
                /\ permitted => \/ admitted
                                \/ rule[3] /\ ~InTenant(claims, tenant)
                                \/ rule[3] /\ ShadowsTenant(claims, tenant)

\* Whose access a token is good for: the arguments of the handlers that write
\* it, and the contract's rule for tenants with the exception made above.
MayWriteAccess(claims, tenant) ==
    /\ \/ HoldsRole(claims, {"platform_admin", "tenant_admin"})
       \/ HoldsScope(claims, {"tenant.agents.write", "tenant.agent_access.write"})
    /\ InTenant(claims, tenant) \/ ClaimsEveryTenant(claims)

\* The access of a tenant's customers changes only at the hand of a caller with
\* a role or a scope to write it and a token that is for that tenant, or has "*"
\* for its single tenant; and no change touches two tenants.
AccessIsWarranted ==
    [][access' # access =>
         \E m \in Admins, t \in Tenants :
            /\ call[m] # NoCall /\ call'[m] = NoCall
            /\ MayWriteAccess(call[m].token.claims, t)
            /\ \A u \in Tenants \ {t}, c \in Customers : <<u, c>> \in access' <=> <<u, c>> \in access]_access

=============================================================================
