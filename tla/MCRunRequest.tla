--------------------------- MODULE MCRunRequest ---------------------------
(* RunRequest for TLC: senders of two tenants, each with the credentials   *)
(* of its own tenant or a wrong key, and with any path and headers.        *)
EXTENDS RunRequest, TLC

ApiKeys == ("t1" :> "key1" @@ "t2" :> "key2")

NoClaims == [tenant_id |-> Absent, tid |-> Absent, oid |-> Absent, sub |-> Absent, upn |-> Absent]

\* The tokens that the user of a tenant may hold: the tenant in either claim,
\* the user in any of three, a tid and a sub that are shadowed by other claims.
TokensOf(sender) ==
    LET of(signed, claims) == [signed |-> signed, claims |-> claims]
        direct == [NoClaims EXCEPT !.tenant_id = sender.tenant, !.tid = "t1", !.oid = sender.user, !.sub = "u1"]
        entra == [NoClaims EXCEPT !.tid = sender.tenant, !.upn = sender.user]
    IN  {of("missing", NoClaims), of("shared_secret", direct), of("jwks", direct), of("jwks", entra)}

Senders == {[tenant |-> "t1", user |-> "u1"], [tenant |-> "t2", user |-> "u2"]}

MCInputs ==
    UNION {[sender : {s}, path_tenant_id : {"t1", "t2"}, x_tenant_id : {"t1", "t2", Absent},
            x_customer_user_id : {"u1", "u2"}, x_api_key : {Absent, "wrong", ApiKeys[s.tenant]},
            token : TokensOf(s)] : s \in Senders}

\* Values of the claims that list names.
List(names) == [form |-> "list", names |-> names]
Spaced(names) == [form |-> "spaces", names |-> names]
Commas(names) == [form |-> "commas", names |-> names]

NoAdminClaims ==
    [roles |-> List({}), role |-> List({}), scp |-> List({}), scope |-> List({}),
     tenant_ids |-> List({}), tenant_id |-> Absent, tid |-> Absent]

\* A platform administrator; administrators of one tenant, by either claim and
\* with a tid that is shadowed; a billing reader of all tenants; "*" for a single
\* tenant; scopes in each form.
MCAdminTokens ==
    LET of(claims) == [signed |-> "jwks", claims |-> claims]
    IN  {of([NoAdminClaims EXCEPT !.roles = List({"platform_admin"}), !.tid = "t2"]),
         of([NoAdminClaims EXCEPT !.role = Commas({"tenant_admin", "billing_reader"}),
                                  !.tenant_ids = Commas({"t1", "t3"})]),
         of([NoAdminClaims EXCEPT !.roles = Spaced({"tenant_admin"}), !.tenant_id = "t2", !.tid = "t1"]),
         of([NoAdminClaims EXCEPT !.roles = List({"billing_reader"}), !.tenant_ids = Spaced({"*"})]),
         of([NoAdminClaims EXCEPT !.scope = List({"tenant.usage.read", "tenant.agent_access.write"}),
                                  !.tenant_id = "*"]),
         of([NoAdminClaims EXCEPT !.scp = Spaced({"plans.read", "tenant.agents.write"}), !.tid = "t1"]),
         of([NoAdminClaims EXCEPT !.scope = Commas({"plans.write", "tenant.agents.write"}), !.tid = "t1"]),
         of([NoAdminClaims EXCEPT !.scope = List({"usage.export", "tenant.plan.write"})]),
         [signed |-> "shared_secret",
          claims |-> [NoAdminClaims EXCEPT !.roles = List({"platform_admin"})]]}

Production ==
    [app_env |-> "production", azure_use_managed_identity |-> TRUE, allow_api_key_fallback |-> FALSE,
     azure_ai_project_api_key |-> FALSE, azure_ai_project_endpoint |-> TRUE,
     tenant_api_keys |-> ApiKeys, jwt_shared_secret |-> FALSE, jwks |-> JwksSettings]

\* Production as it should be, with half of its JWKS settings, and with nothing;
\* development with a shared secret and a project key, and with nothing.
MCDeployments ==
    {Production,
     [Production EXCEPT !.jwks = {"url"}, !.jwt_shared_secret = TRUE],
     [Production EXCEPT !.jwks = {}, !.tenant_api_keys = <<>>],
     [Production EXCEPT !.azure_use_managed_identity = FALSE],
     [Production EXCEPT !.app_env = "dev", !.jwks = {}, !.jwt_shared_secret = TRUE,
                        !.tenant_api_keys = <<>>, !.azure_use_managed_identity = FALSE,
                        !.allow_api_key_fallback = TRUE, !.azure_ai_project_api_key = TRUE],
     [Production EXCEPT !.app_env = "dev", !.jwks = {}, !.tenant_api_keys = <<>>,
                        !.azure_ai_project_endpoint = FALSE]}

Symmetry == Permutations(Requests)

=============================================================================
