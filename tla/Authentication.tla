--------------------------- MODULE Authentication ---------------------------
(***************************************************************************)
(* The decisions of policies/auth.py about one request, as operators over  *)
(* the settings s and what the request carries.  A token is a record: what *)
(* it was signed with, and its claims.                                     *)
(* Whether a signature, an issuer, an audience and an expiry are good is   *)
(* PyJWT's business and is all in token.signed; JwksCache models which     *)
(* keys a token is checked against.                                        *)
(***************************************************************************)

\* A header, a claim or an argument that is not there.
Absent == ""

JwksSettings == {"url", "issuer", "audience"}

IsJwksEnabled(s) == s.jwks # {}

\* With any setting of JWKS the shared secret is out of use, and with some but
\* not all of them every token is refused.
DecodesBearerJwt(s, token) ==
    /\ token.signed # "missing"
    /\ IF IsJwksEnabled(s)
       THEN s.jwks = JwksSettings /\ token.signed = "jwks"
       ELSE s.jwt_shared_secret /\ token.signed = "shared_secret"

\* a or b in Python.
Or(a, b) == IF a # Absent THEN a ELSE b

ClaimedTenant(claims) == Or(claims.tenant_id, claims.tid)

ClaimedSubject(claims) == Or(Or(claims.oid, claims.sub), claims.upn)

-----------------------------------------------------------------------------
(* TenantAuthService                                                       *)

AuthConfigured(s) ==
    \/ \E t \in DOMAIN s.tenant_api_keys : s.tenant_api_keys[t] # Absent
    \/ s.jwt_shared_secret
    \/ IsJwksEnabled(s)

IsValidApiKey(s, tenant_id, api_key) ==
    /\ tenant_id \in DOMAIN s.tenant_api_keys
    /\ api_key # Absent
    /\ api_key = s.tenant_api_keys[tenant_id]

AnyTenantsToken(s, tenant_id, token) ==
    IF DecodesBearerJwt(s, token)
    THEN ClaimedSubject(token.claims)
    ELSE Absent

GetValidJwtSubject(s, tenant_id, token) ==
    IF /\ DecodesBearerJwt(s, token)
       /\ ClaimedTenant(token.claims) = tenant_id
    THEN ClaimedSubject(token.claims)
    ELSE Absent

\* TRUE where authenticate returns a TenantContext: the header's tenant and the
\* header's customer.
Authenticates(s, request) ==
    /\ request.x_tenant_id # Absent /\ request.x_customer_user_id # Absent
    /\ request.path_tenant_id = request.x_tenant_id
    /\ IF AuthConfigured(s)
       THEN \/ IsValidApiKey(s, request.x_tenant_id, request.x_api_key)
            \/ GetValidJwtSubject(s, request.x_tenant_id, request.token)
                 = request.x_customer_user_id
       ELSE s.app_env # "production"

-----------------------------------------------------------------------------
(* AdminAuthService.  The value of a claim that lists names is a record:   *)
(* its form ("list", or the separator of a string of several names) and    *)
(* the names in it.                                                        *)

ExtractStringSet(value) == value.names

SplitAtCommas(value) == value.names

\* A string of scopes is split at spaces only: one with commas is one scope,
\* which no endpoint knows.
ExtractScopes(value) == IF value.form = "commas" THEN {} ELSE value.names

\* The principal of a token that decodes.
AdminPrincipal(claims) ==
    [roles |-> ExtractStringSet(claims.roles) \cup ExtractStringSet(claims.role),
     scopes |-> ExtractScopes(claims.scp) \cup ExtractScopes(claims.scope),
     tenant_ids |-> ExtractStringSet(claims.tenant_ids)
                      \cup ({ClaimedTenant(claims)} \ {Absent})]

CanAccessTenant(principal, tenant_id) ==
    \/ "platform_admin" \in principal.roles
    \/ "*" \in principal.tenant_ids
    \/ tenant_id \in principal.tenant_ids

AnyTenantsAdmin(principal, required_roles, required_scopes, tenant_id) ==
    \/ principal.roles \cap required_roles # {}
    \/ principal.scopes \cap required_scopes # {}

\* tenant_id is Absent at the endpoints that are not about one tenant.
Authorizes(principal, required_roles, required_scopes, tenant_id) ==
    /\ \/ principal.roles \cap required_roles # {}
       \/ principal.scopes \cap required_scopes # {}
    /\ tenant_id # Absent => CanAccessTenant(principal, tenant_id)

=============================================================================
