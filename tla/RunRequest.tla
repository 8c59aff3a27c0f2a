---------------------------- MODULE RunRequest ----------------------------
(***************************************************************************)
(* One request to run an agent, from its credentials to its charge: the    *)
(* authentication, the calls of FoundryAgentGateway.execute at the         *)
(* provider, each of which may fail before or after it takes effect, the   *)
(* deletion of the provider's thread and the recording of the usage.       *)
(* Administrators grant and revoke access meanwhile.  The checks of the    *)
(* tenant, its plan, rate and quota in between are RunExecution's.         *)
(***************************************************************************)
EXTENDS AdminApi, Integers

CONSTANTS
    Requests,      \* requests
    Inputs,        \* what a request may carry, with the tenant that sends it
    Deployments,   \* the settings that processes are started with
    NoInput,       \* the input of a request that has not come in
    MaxFaults      \* bound: calls that fail and processes that die

VARIABLES
    request,     \* each request's place in execute_run and its locals
    threads,     \* provider: the requests whose thread exists
    completed,   \* provider: the requests whose run completed
    charged,     \* usage_events: the requests that are recorded
    faults       \* how often each call has failed, and processes have died

vars == <<settings, call, access, request, threads, completed, charged, faults>>

Calls == {"create", "message", "run", "text", "delete", "record", "die"}

\* resolve_foundry_auth_policy: "refused" is a RuntimeError, and the process
\* does not start.
ResolveFoundryAuthPolicy(s) ==
    IF s.azure_use_managed_identity THEN "managed_identity"
    ELSE IF s.app_env # "production" /\ s.allow_api_key_fallback /\ s.azure_ai_project_api_key
    THEN "api_key" ELSE "refused"

ASSUME RequestAssumption ==
    /\ IsFiniteSet(Requests)
    /\ MaxFaults \in Nat
    /\ \E s \in Deployments : ResolveFoundryAuthPolicy(s) # "refused"

\* What makes a sender the sender: the credentials it comes with, where they are
\* good, were issued to its tenant, and its token to the user.
ASSUME CredentialsAssumption ==
    \A s \in Deployments, input \in Inputs :
        /\ IsValidApiKey(s, input.x_tenant_id, input.x_api_key)
             => input.x_tenant_id = input.sender.tenant
        /\ DecodesBearerJwt(s, input.token)
             => /\ ClaimedTenant(input.token.claims) = input.sender.tenant
                /\ ClaimedSubject(input.token.claims) = input.sender.user

NewRequest == [pc |-> "new", acts |-> NoInput, outcome |-> "fails"]

Init ==
    /\ settings \in {s \in Deployments : ResolveFoundryAuthPolicy(s) # "refused"}
    /\ AdminInit
    /\ request = [r \in Requests |-> NewRequest]
    /\ threads = {}
    /\ completed = {}
    /\ charged = {}
    /\ faults = [c \in Calls |-> 0]

-----------------------------------------------------------------------------

At(r, pc) == request[r].pc = pc

Goto(r, pc) == request' = [request EXCEPT ![r].pc = pc]

Fault(step) ==
    /\ faults["create"] + faults["message"] + faults["run"] + faults["text"]
         + faults["delete"] + faults["record"] + faults["die"] < MaxFaults
    /\ faults' = [faults EXCEPT ![step] = @ + 1]

NoFinally(step) == "ended"

MisspeltFinally(step) == IF step = "create" THEN "end" ELSE "delete"

\* Where an exception leads: with a thread id, to the finally block.
AfterError(step) == IF step = "create" THEN "ended" ELSE "delete"

\* What is kept of the input is what the properties compare: its sender, whom
\* it acts for, and whether it came with the tenant's API key; a key that is not
\* the tenant's counts for nothing.
Kept(s, input) ==
    [sender |-> input.sender, tenant |-> input.path_tenant_id,
     customer |-> input.x_customer_user_id,
     keyed |-> IsValidApiKey(s, input.x_tenant_id, input.x_api_key)]

Acts == {Kept(s, input) : s \in Deployments, input \in Inputs}

Arrive(r, input) ==
    /\ At(r, "new")
    /\ request' = [request EXCEPT ![r] =
                     IF Authenticates(settings, input)
                     THEN [@ EXCEPT !.pc = "gates", !.acts = Kept(settings, input)]
                     ELSE [@ EXCEPT !.pc = "ended"]]
    /\ UNCHANGED <<settings, call, access, threads, completed, charged, faults>>

\* A customer who is not entitled is refused; so may be any other, by the
\* checks that RunExecution models.
PassGates(r) ==
    /\ At(r, "gates")
    /\ \/ /\ \E c \in {request[r].acts.customer, "*"} : <<request[r].acts.tenant, c>> \in access
          /\ Goto(r, "execute")
       \/ Goto(r, "ended")
    /\ UNCHANGED <<settings, call, access, threads, completed, charged, faults>>

\* The project client comes up, or the factory raises.
AgentsClient(r) == Goto(r, "create") \/ Goto(r, "ended")

\* execute before its first call: a placeholder without an endpoint, an error
\* without managed identity.
ExecuteStart(r) ==
    /\ At(r, "execute")
    /\ IF ~settings.azure_ai_project_endpoint THEN Goto(r, "record")
       ELSE IF ResolveFoundryAuthPolicy(settings) # "managed_identity" THEN Goto(r, "ended")
       ELSE AgentsClient(r)
    /\ UNCHANGED <<settings, call, access, threads, completed, charged, faults>>

\* An exception after the create took effect loses the thread's id.
CreateThread(r) ==
    /\ At(r, "create")
    /\ \/ threads' = threads \cup {r} /\ Goto(r, "message") /\ UNCHANGED faults
       \/ threads' \in {threads, threads \cup {r}} /\ Goto(r, AfterError("create")) /\ Fault("create")
    /\ UNCHANGED <<settings, call, access, completed, charged>>

CreateMessage(r) ==
    /\ At(r, "message")
    /\ \/ Goto(r, "run") /\ UNCHANGED faults
       \/ Goto(r, AfterError("message")) /\ Fault("message")
    /\ UNCHANGED <<settings, call, access, threads, completed, charged>>

StatusIgnored(r) ==
    /\ At(r, "run")
    /\ completed' \in {completed, completed \cup {r}} /\ Goto(r, "text") /\ UNCHANGED faults
    /\ UNCHANGED <<settings, call, access, threads, charged>>

\* The run completes, ends with another status, or the call raises.
CreateAndProcessRun(r) ==
    /\ At(r, "run")
    /\ \/ completed' = completed \cup {r} /\ Goto(r, "text") /\ UNCHANGED faults
       \/ Goto(r, AfterError("run")) /\ UNCHANGED <<completed, faults>>
       \/ completed' \in {completed, completed \cup {r}} /\ Goto(r, AfterError("run")) /\ Fault("run")
    /\ UNCHANGED <<settings, call, access, threads, charged>>

\* The agent's text, no message or an empty one, or an exception.
GetLastMessageText(r) ==
    /\ At(r, "text")
    /\ \/ /\ request' = [request EXCEPT ![r].pc = "delete", ![r].outcome = "text"]
          /\ UNCHANGED faults
       \/ /\ request' = [request EXCEPT ![r].pc = AfterError("text"), ![r].outcome = "unusable"]
          /\ UNCHANGED faults
       \/ Goto(r, AfterError("text")) /\ Fault("text")
    /\ UNCHANGED <<settings, call, access, threads, completed, charged>>

AfterFinally(r) == IF request[r].outcome = "text" THEN "record" ELSE "ended"

DeleteMayRaise(r) ==
    /\ At(r, "delete")
    /\ \/ threads' = threads \ {r} /\ Goto(r, AfterFinally(r)) /\ UNCHANGED faults
       \/ threads' \in {threads, threads \ {r}} /\ Goto(r, "ended") /\ Fault("delete")
    /\ UNCHANGED <<settings, call, access, completed, charged>>

\* The finally block swallows the exception of the deletion.
DeleteThread(r) ==
    /\ At(r, "delete")
    /\ Goto(r, AfterFinally(r))
    /\ \/ threads' = threads \ {r} /\ UNCHANGED faults
       \/ threads' \in {threads, threads \ {r}} /\ Fault("delete")
    /\ UNCHANGED <<settings, call, access, completed, charged>>

RecordUsage(r) ==
    /\ At(r, "record")
    /\ Goto(r, "ended")
    /\ \/ charged' = charged \cup {r} /\ UNCHANGED faults
       \/ charged' \in {charged, charged \cup {r}} /\ Fault("record")
    /\ UNCHANGED <<settings, call, access, threads, completed>>

\* The process that serves the request dies.
Die(r) ==
    /\ request[r].pc \notin {"new", "ended"}
    /\ Goto(r, "ended")
    /\ Fault("die")
    /\ UNCHANGED <<settings, call, access, threads, completed, charged>>

ExecuteRun(r) ==
    \/ \E input \in Inputs : Arrive(r, input)
    \/ PassGates(r) \/ ExecuteStart(r)
    \/ CreateThread(r) \/ CreateMessage(r) \/ CreateAndProcessRun(r)
    \/ GetLastMessageText(r) \/ DeleteThread(r) \/ RecordUsage(r) \/ Die(r)

Administer(m) == AdminNext(m) /\ UNCHANGED <<settings, request, threads, completed, charged, faults>>

Next ==
    \/ \E r \in Requests : ExecuteRun(r)
    \/ \E m \in Admins : Administer(m)

Spec == Init /\ [][Next]_vars

-----------------------------------------------------------------------------
(* Properties.                                                             *)

Over(r) == request[r].pc = "ended"

\* The values that the requests, the provider's sets and the counters have.
TypeOK ==
    /\ settings \in Deployments
    /\ request \in [Requests ->
          [pc : {"new", "gates", "execute", "ended"} \cup (Calls \ {"die"}),
           acts : Acts \cup {NoInput}, outcome : {"fails", "unusable", "text"}]]
    /\ call \in [Admins -> {NoCall} \cup [endpoint : AccessEndpoints, tenant : Tenants, token : AdminTokens]]
    /\ access \subseteq Tenants \X Customers
    /\ threads \subseteq Requests /\ completed \subseteq Requests /\ charged \subseteq Requests
    /\ faults \in [Calls -> 0..MaxFaults]

\* Threads left at the provider by requests that will not delete them: one for
\* each create whose answer was lost, each delete that failed and each process
\* that died, and none for a run, a message or a text that failed.
ThreadsBound ==
    Cardinality({r \in threads : Over(r) \/ At(r, "record")})
        <= faults["create"] + faults["delete"] + faults["die"]

\* A run that completed at the provider with a text and is over was charged,
\* but for the runs whose answer, text or recording failed or whose process
\* died; a thread that cannot be deleted costs no charge.
UnchargedBound ==
    Cardinality({r \in completed \ charged : Over(r) /\ request[r].outcome # "unusable"})
        <= faults["run"] + faults["text"] + faults["record"] + faults["die"]

\* With a provider configured nobody is charged for a run that did not complete.
ChargesAreForRuns == settings.azure_ai_project_endpoint => charged \subseteq completed

\* Where credentials are configured, a thread, a run or a charge of a tenant is
\* the work of a request sent by that tenant, and one sent without its API key,
\* or with a wrong one, runs as the token's own subject, whatever the path and
\* the headers say.
SendersActForThemselves ==
    AuthConfigured(settings) =>
        \A r \in threads \cup completed \cup charged :
            LET acts == request[r].acts
            IN  /\ acts.tenant = acts.sender.tenant
                /\ ~acts.keyed => acts.customer = acts.sender.user

=============================================================================
