-------------------------- MODULE RunRequestProofs --------------------------
(***************************************************************************)
(* Proofs about a request from its credentials to its charge, for any      *)
(* number of requests, tenants and administrators, any inputs and          *)
(* deployments and any number of failures.                                 *)
(***************************************************************************)
EXTENDS RunRequest, FiniteSetTheorems, TLAPS

-----------------------------------------------------------------------------
(* Types.                                                                  *)

Places == {"new", "gates", "execute", "ended"} \cup (Calls \ {"die"})

Outcomes == {"fails", "unusable", "text"}

RequestState == [pc : Places, acts : Acts \cup {NoInput}, outcome : Outcomes]

AdminCall == [endpoint : AccessEndpoints, tenant : Tenants, token : AdminTokens]

\* The state of the requests and that of the administrators' calls.
RequestTypes ==
    /\ settings \in Deployments
    /\ request \in [Requests -> RequestState]
    /\ threads \subseteq Requests /\ completed \subseteq Requests /\ charged \subseteq Requests
    /\ faults \in [Calls -> 0..MaxFaults]

AdminTypes ==
    /\ call \in [Admins -> {NoCall} \cup AdminCall]
    /\ access \subseteq Tenants \X Customers

LEMMA TypeParts == TypeOK <=> RequestTypes /\ AdminTypes
  BY DEF TypeOK, RequestTypes, AdminTypes, RequestState, Places, Outcomes, AdminCall

\* The other requests are where they were.
Others(r) == \A q \in Requests \ {r} : request'[q] = request[q]

\* What r's part of the request is after a step that leads to pc.
Moved(r, pc) ==
    /\ Others(r)
    /\ request' \in [Requests -> RequestState]
    /\ request'[r].pc = pc
    /\ request'[r].acts = request[r].acts

LEMMA GotoMoves ==
  ASSUME RequestTypes, NEW r \in Requests, NEW pc \in Places, Goto(r, pc)
  PROVE  Moved(r, pc) /\ request'[r].outcome = request[r].outcome
<1>1. request[r] \in RequestState
  BY DEF RequestTypes
<1>2. [request[r] EXCEPT !.pc = pc] \in RequestState
  BY <1>1 DEF RequestState
<1>3. request' = [request EXCEPT ![r] = [request[r] EXCEPT !.pc = pc]]
  BY DEF Goto
<1>4. request' \in [Requests -> RequestState]
  BY <1>2, <1>3 DEF RequestTypes
<1>5. request'[r] = [request[r] EXCEPT !.pc = pc] /\ Others(r)
  BY <1>3 DEF RequestTypes, Others
<1> QED
  BY <1>1, <1>4, <1>5 DEF Moved, RequestState

\* A failed call is counted, and the bound on failures is kept.
Counted(step) ==
    /\ faults' \in [Calls -> 0..MaxFaults]
    /\ faults'[step] = faults[step] + 1
    /\ \A c \in Calls \ {step} : faults'[c] = faults[c]

LEMMA FaultCounts ==
  ASSUME RequestTypes, NEW step \in Calls, Fault(step)
  PROVE  Counted(step)
<1>1. \A c \in Calls : faults[c] \in Nat
  BY RequestAssumption DEF RequestTypes
<1>2. /\ faults["create"] \in Nat /\ faults["message"] \in Nat /\ faults["run"] \in Nat
      /\ faults["text"] \in Nat /\ faults["delete"] \in Nat /\ faults["record"] \in Nat
      /\ faults["die"] \in Nat
  BY <1>1 DEF Calls
<1>3. /\ faults["create"] + faults["message"] + faults["run"] + faults["text"]
           + faults["delete"] + faults["record"] + faults["die"] < MaxFaults
      /\ faults' = [faults EXCEPT ![step] = faults[step] + 1]
  BY DEF Fault
<1>4. faults[step] < MaxFaults
  BY <1>2, <1>3, RequestAssumption DEF Calls
<1>5. faults[step] + 1 \in 0..MaxFaults
  BY <1>1, <1>4, RequestAssumption
<1> QED
  BY <1>3, <1>5 DEF RequestTypes, Counted

LEMMA PlacesOf ==
  /\ {"new", "gates", "execute", "ended", "create", "message", "run", "text", "delete", "record"} = Places
  /\ {"create", "message", "run", "text", "delete", "record", "die"} \subseteq Calls
  /\ AfterError("create") = "ended" /\ AfterError("message") = "delete"
  /\ AfterError("run") = "delete" /\ AfterError("text") = "delete"
  BY DEF Places, Calls, AfterError

\* What is the same in every step of a request.
Frame(r) ==
    /\ Others(r)
    /\ request' \in [Requests -> RequestState]
    /\ UNCHANGED <<settings, call, access>>
    /\ threads' \in {threads, threads \cup {r}, threads \ {r}}
    /\ completed' \in {completed, completed \cup {r}}
    /\ charged' \in {charged, charged \cup {r}}

\* What each step does to the request itself and to the counters of failures.
ArriveEffect(r, input) ==
    /\ request[r].pc = "new"
    /\ request'[r].outcome = request[r].outcome
    /\ \/ Authenticates(settings, input) /\ request'[r].pc = "gates" /\ request'[r].acts = Kept(settings, input)
       \/ request'[r].pc = "ended" /\ request'[r].acts = request[r].acts
    /\ UNCHANGED <<threads, completed, charged, faults>>

QuietEffect(r) ==
    /\ Moved(r, request'[r].pc) /\ request'[r].outcome = request[r].outcome
    /\ UNCHANGED <<threads, completed, charged, faults>>
    /\ \/ request[r].pc = "gates" /\ request'[r].pc \in {"execute", "ended"}
       \/ request[r].pc = "execute" /\ request'[r].pc \in {"create", "ended"}
       \/ request[r].pc = "execute" /\ request'[r].pc = "record" /\ ~settings.azure_ai_project_endpoint
       \/ request[r].pc = "message" /\ request'[r].pc = "run"
       \/ request[r].pc = "run" /\ request'[r].pc = "delete"

FaultEffect(r) ==
    /\ Moved(r, request'[r].pc) /\ request'[r].outcome = request[r].outcome
    /\ \/ /\ request[r].pc = "create" /\ request'[r].pc = "ended" /\ Counted("create")
          /\ threads' \in {threads, threads \cup {r}} /\ UNCHANGED <<completed, charged>>
       \/ /\ request[r].pc = "message" /\ request'[r].pc = "delete" /\ Counted("message")
          /\ UNCHANGED <<threads, completed, charged>>
       \/ /\ request[r].pc = "run" /\ request'[r].pc = "delete" /\ Counted("run")
          /\ completed' \in {completed, completed \cup {r}} /\ UNCHANGED <<threads, charged>>
       \/ /\ request[r].pc = "text" /\ request'[r].pc = "delete" /\ Counted("text")
          /\ UNCHANGED <<threads, completed, charged>>
       \/ /\ request[r].pc = "delete" /\ request'[r].pc = AfterFinally(r) /\ Counted("delete")
          /\ threads' \in {threads, threads \ {r}} /\ UNCHANGED <<completed, charged>>
       \/ /\ request[r].pc = "record" /\ request'[r].pc = "ended" /\ Counted("record")
          /\ charged' \in {charged, charged \cup {r}} /\ UNCHANGED <<threads, completed>>
       \/ /\ request[r].pc \notin {"new", "ended"} /\ request'[r].pc = "ended" /\ Counted("die")
          /\ UNCHANGED <<threads, completed, charged>>

DoneEffect(r) ==
    /\ Moved(r, request'[r].pc) /\ UNCHANGED faults
    /\ \/ /\ request[r].pc = "create" /\ request'[r].pc = "message"
          /\ request'[r].outcome = request[r].outcome
          /\ threads' = threads \cup {r} /\ UNCHANGED <<completed, charged>>
       \/ /\ request[r].pc = "run" /\ request'[r].pc = "text"
          /\ request'[r].outcome = request[r].outcome
          /\ completed' = completed \cup {r} /\ UNCHANGED <<threads, charged>>
       \/ /\ request[r].pc = "text" /\ request'[r].pc = "delete"
          /\ request'[r].outcome \in {"text", "unusable"}
          /\ UNCHANGED <<threads, completed, charged>>
       \/ /\ request[r].pc = "delete" /\ request'[r].pc = AfterFinally(r)
          /\ request'[r].outcome = request[r].outcome
          /\ threads' = threads \ {r} /\ UNCHANGED <<completed, charged>>
       \/ /\ request[r].pc = "record" /\ request'[r].pc = "ended"
          /\ request'[r].outcome = request[r].outcome
          /\ charged' = charged \cup {r} /\ UNCHANGED <<threads, completed>>

LEMMA ArriveStep ==
  ASSUME RequestTypes, NEW r \in Requests, NEW input \in Inputs, Arrive(r, input)
  PROVE  Frame(r) /\ ArriveEffect(r, input)
<1>1. request[r] \in RequestState /\ request[r].pc = "new"
  BY DEF RequestTypes, Arrive, At
<1>2. CASE Authenticates(settings, input)
  <2> DEFINE next == [request[r] EXCEPT !.pc = "gates", !.acts = Kept(settings, input)]
  <2>0. Kept(settings, input) \in Acts
    BY DEF RequestTypes, Acts
  <2>1. /\ next \in RequestState /\ next.pc = "gates" /\ next.acts = Kept(settings, input)
        /\ next.outcome = request[r].outcome
    BY <1>1, <2>0, PlacesOf DEF RequestState
  <2>2. request' = [request EXCEPT ![r] = next]
    BY <1>2 DEF Arrive
  <2> HIDE DEF next
  <2>3. request'[r] = next /\ Others(r) /\ request' \in [Requests -> RequestState]
    BY <2>1, <2>2 DEF RequestTypes, Others
  <2> QED
    BY <1>1, <1>2, <2>1, <2>3 DEF Arrive, Frame, ArriveEffect
<1>3. CASE ~Authenticates(settings, input)
  <2> DEFINE next == [request[r] EXCEPT !.pc = "ended"]
  <2>1. /\ next \in RequestState /\ next.pc = "ended" /\ next.acts = request[r].acts
        /\ next.outcome = request[r].outcome
    BY <1>1, PlacesOf DEF RequestState
  <2>2. request' = [request EXCEPT ![r] = next]
    BY <1>3 DEF Arrive
  <2> HIDE DEF next
  <2>3. request'[r] = next /\ Others(r) /\ request' \in [Requests -> RequestState]
    BY <2>1, <2>2 DEF RequestTypes, Others
  <2> QED
    BY <1>1, <1>3, <2>1, <2>3 DEF Arrive, Frame, ArriveEffect
<1> QED
  BY <1>2, <1>3

\* The text is there or not: the step that sets the outcome too.
LEMMA OutcomeMoves ==
  ASSUME RequestTypes, NEW r \in Requests, NEW outcome \in Outcomes,
         request' = [request EXCEPT ![r].pc = "delete", ![r].outcome = outcome]
  PROVE  Moved(r, "delete") /\ request'[r].outcome = outcome
<1>1. request[r] \in RequestState
  BY DEF RequestTypes
<1> DEFINE next == [request[r] EXCEPT !.pc = "delete", !.outcome = outcome]
<1>2. /\ next \in RequestState /\ next.pc = "delete" /\ next.acts = request[r].acts
      /\ next.outcome = outcome
  BY <1>1, PlacesOf DEF RequestState
<1>3. request' = [request EXCEPT ![r] = next]
  BY <1>1 DEF RequestTypes
<1> HIDE DEF next
<1>4. request'[r] = next /\ Others(r) /\ request' \in [Requests -> RequestState]
  BY <1>2, <1>3 DEF RequestTypes, Others
<1> QED
  BY <1>2, <1>4 DEF Moved

LEMMA CallStep ==
  ASSUME RequestTypes, NEW r \in Requests, ExecuteRun(r),
         ~\E input \in Inputs : Arrive(r, input)
  PROVE  Frame(r) /\ (QuietEffect(r) \/ FaultEffect(r) \/ DoneEffect(r))
<1>0. AfterFinally(r) \in Places
  BY PlacesOf DEF AfterFinally
<1>1. CASE PassGates(r)
  BY <1>1, GotoMoves, PlacesOf DEF PassGates, At, Frame, QuietEffect, Moved
<1>2. CASE ExecuteStart(r)
  BY <1>2, GotoMoves, PlacesOf DEF ExecuteStart, AgentsClient, At, Frame, QuietEffect, Moved
<1>3. CASE CreateThread(r)
  BY <1>3, GotoMoves, FaultCounts, PlacesOf DEF CreateThread, At, Frame, FaultEffect, DoneEffect, Moved
<1>4. CASE CreateMessage(r)
  BY <1>4, GotoMoves, FaultCounts, PlacesOf DEF CreateMessage, At, Frame, FaultEffect, QuietEffect, Moved
<1>5. CASE CreateAndProcessRun(r)
  BY <1>5, GotoMoves, FaultCounts, PlacesOf
     DEF CreateAndProcessRun, At, Frame, QuietEffect, FaultEffect, DoneEffect, Moved
<1>6. CASE GetLastMessageText(r)
  BY <1>6, GotoMoves, OutcomeMoves, FaultCounts, PlacesOf
     DEF GetLastMessageText, At, Frame, FaultEffect, DoneEffect, Moved, Outcomes
<1>7. CASE DeleteThread(r)
  BY <1>0, <1>7, GotoMoves, FaultCounts, PlacesOf DEF DeleteThread, At, Frame, FaultEffect, DoneEffect, Moved
<1>8. CASE RecordUsage(r)
  BY <1>8, GotoMoves, FaultCounts, PlacesOf DEF RecordUsage, At, Frame, FaultEffect, DoneEffect, Moved
<1>9. CASE Die(r)
  BY <1>9, GotoMoves, FaultCounts, PlacesOf DEF Die, At, Frame, FaultEffect, Moved
<1> QED
  BY <1>1, <1>2, <1>3, <1>4, <1>5, <1>6, <1>7, <1>8, <1>9 DEF ExecuteRun

LEMMA RequestStepTypes ==
  ASSUME RequestTypes, NEW r \in Requests, ExecuteRun(r)
  PROVE  RequestTypes' /\ UNCHANGED <<settings, call, access>>
<1>1. Frame(r) /\ faults' \in [Calls -> 0..MaxFaults]
  <2>1. ASSUME NEW input \in Inputs, Arrive(r, input)
        PROVE  Frame(r) /\ faults' \in [Calls -> 0..MaxFaults]
    BY <2>1, ArriveStep DEF ArriveEffect, RequestTypes
  <2>2. ASSUME ~\E input \in Inputs : Arrive(r, input)
        PROVE  Frame(r) /\ faults' \in [Calls -> 0..MaxFaults]
    BY <2>2, CallStep DEF QuietEffect, FaultEffect, DoneEffect, RequestTypes, Counted
  <2> QED
    BY <2>1, <2>2
<1> QED
  BY <1>1 DEF RequestTypes, Frame

LEMMA NoCallEndpoint == NoCall.endpoint = "none"
  BY DEF NoCall

\* A call in a handler is one that was authorized.
LEMMA CallInHandler ==
  ASSUME AdminTypes, NEW m \in Admins, call[m].endpoint \in AccessEndpoints
  PROVE  call[m] \in AdminCall /\ call[m] # NoCall
  BY NoCallEndpoint DEF AdminTypes, AccessEndpoints

LEMMA AdminStepTypes ==
  ASSUME AdminTypes, NEW m \in Admins, AdminNext(m)
  PROVE  AdminTypes'
<1>1. ASSUME NEW endpoint \in AccessEndpoints, NEW tenant \in Tenants, NEW token \in AdminTokens,
             AuthorizeCall(m, endpoint, tenant, token)
      PROVE  AdminTypes'
  <2>1. [endpoint |-> endpoint, tenant |-> tenant, token |-> token] \in AdminCall
    BY DEF AdminCall
  <2> QED
    BY <1>1, <2>1 DEF AuthorizeCall, AdminTypes
<1>2. ASSUME NEW customer \in Customers, GrantCustomerAgent(m, customer)
      PROVE  AdminTypes'
  <2>1. call[m].tenant \in Tenants
    BY <1>2, CallInHandler DEF GrantCustomerAgent, AccessEndpoints, AdminCall
  <2> QED
    BY <1>2, <2>1 DEF GrantCustomerAgent, AdminTypes
<1>3. ASSUME NEW customer \in Customers, RevokeCustomerAgent(m, customer)
      PROVE  AdminTypes'
  BY <1>3 DEF RevokeCustomerAgent, AdminTypes
<1>4. CASE CallFails(m)
  BY <1>4 DEF CallFails, AdminTypes
<1> QED
  BY <1>1, <1>2, <1>3, <1>4 DEF AdminNext

\* The requests, the provider's sets, the administrators' calls and the
\* counters of failures keep their types; in particular the failures stay
\* within their bound.
THEOREM TypeCorrect == Spec => []TypeOK
<1>1. Init => TypeOK
  <2> SUFFICES ASSUME Init PROVE TypeOK
    OBVIOUS
  <2>1. NewRequest \in RequestState
    BY PlacesOf DEF NewRequest, RequestState, Outcomes
  <2>2. request \in [Requests -> RequestState]
    BY <2>1 DEF Init
  <2>3. settings \in Deployments /\ threads = {} /\ completed = {} /\ charged = {}
    BY DEF Init
  <2>4. faults \in [Calls -> 0..MaxFaults]
    BY RequestAssumption DEF Init
  <2>5. AdminTypes
    BY DEF Init, AdminInit, AdminTypes
  <2> QED
    BY <2>2, <2>3, <2>4, <2>5, TypeParts DEF RequestTypes
<1>2. TypeOK /\ [Next]_vars => TypeOK'
  <2> SUFFICES ASSUME TypeOK, [Next]_vars PROVE RequestTypes' /\ AdminTypes'
    BY TypeParts DEF TypeOK, RequestTypes, AdminTypes, RequestState, Places, Outcomes, AdminCall
  <2>0. RequestTypes /\ AdminTypes
    BY TypeParts
  <2>1. ASSUME NEW r \in Requests, ExecuteRun(r) PROVE RequestTypes' /\ AdminTypes'
    BY <2>0, <2>1, RequestStepTypes DEF AdminTypes
  <2>2. ASSUME NEW m \in Admins, Administer(m) PROVE RequestTypes' /\ AdminTypes'
    BY <2>0, <2>2, AdminStepTypes DEF Administer, RequestTypes
  <2>3. CASE UNCHANGED vars
    BY <2>0, <2>3 DEF vars, RequestTypes, AdminTypes
  <2> QED
    BY <2>1, <2>2, <2>3 DEF Next
<1> QED
  BY <1>1, <1>2, PTL DEF Spec

-----------------------------------------------------------------------------
(* Charges, threads and runs.                                              *)

\* The sender of a request acts for itself.
Own(acts) ==
    /\ acts.tenant = acts.sender.tenant
    /\ ~acts.keyed => acts.customer = acts.sender.user

\* What a request's place tells of its thread, its run and its charge.
Consistent(r) ==
    /\ request[r].pc \in {"new", "gates", "execute", "create"} => r \notin threads
    /\ request[r].pc \in {"new", "gates", "execute", "create", "message", "run"} => r \notin completed
    /\ request[r].pc # "ended" => r \notin charged
    /\ settings.azure_ai_project_endpoint =>
          /\ request[r].pc \in {"text", "record"} \/ request[r].outcome = "text" => r \in completed
          /\ r \in charged => r \in completed
    /\ /\ AuthConfigured(settings)
       /\ request[r].pc \notin {"new", "ended"} \/ r \in threads \cup completed \cup charged
       => Own(request[r].acts)

\* Whoever passes the authentication with credentials of its own acts for itself.
LEMMA AuthenticatedIsOwn ==
  ASSUME NEW s \in Deployments, NEW input \in Inputs, Authenticates(s, input), AuthConfigured(s)
  PROVE  Own(Kept(s, input))
<1>1. /\ input.path_tenant_id = input.x_tenant_id /\ input.x_customer_user_id # Absent
      /\ \/ IsValidApiKey(s, input.x_tenant_id, input.x_api_key)
         \/ GetValidJwtSubject(s, input.x_tenant_id, input.token) = input.x_customer_user_id
  BY DEF Authenticates
<1>2. /\ Kept(s, input).tenant = input.x_tenant_id /\ Kept(s, input).sender = input.sender
      /\ Kept(s, input).customer = input.x_customer_user_id
      /\ Kept(s, input).keyed = IsValidApiKey(s, input.x_tenant_id, input.x_api_key)
  BY <1>1 DEF Kept
<1>3. CASE IsValidApiKey(s, input.x_tenant_id, input.x_api_key)
  BY <1>2, <1>3, CredentialsAssumption DEF Own
<1>4. CASE GetValidJwtSubject(s, input.x_tenant_id, input.token) = input.x_customer_user_id
  <2>1. /\ DecodesBearerJwt(s, input.token)
        /\ ClaimedTenant(input.token.claims) = input.x_tenant_id
        /\ ClaimedSubject(input.token.claims) = input.x_customer_user_id
    BY <1>1, <1>4 DEF GetValidJwtSubject
  <2> QED
    BY <1>2, <2>1, CredentialsAssumption DEF Own
<1> QED
  BY <1>1, <1>3, <1>4

LEMMA RequestConsistent ==
  ASSUME RequestTypes, NEW r \in Requests, ExecuteRun(r), Consistent(r)
  PROVE  Consistent(r)'
<1>1. ASSUME NEW input \in Inputs, Arrive(r, input)
      PROVE  Consistent(r)'
  <2>1. Frame(r) /\ ArriveEffect(r, input)
    BY <1>1, ArriveStep
  <2>2. CASE Authenticates(settings, input) /\ request'[r].pc = "gates" /\ request'[r].acts = Kept(settings, input)
    <3>1. AuthConfigured(settings) => Own(Kept(settings, input))
      BY <2>2, AuthenticatedIsOwn DEF RequestTypes
    <3> QED
      BY <2>1, <2>2, <3>1 DEF Frame, ArriveEffect, Consistent
  <2>3. CASE request'[r].pc = "ended" /\ request'[r].acts = request[r].acts
    BY <2>1, <2>3 DEF Frame, ArriveEffect, Consistent
  <2> QED
    BY <2>1, <2>2, <2>3 DEF ArriveEffect
<1>2. ASSUME ~\E input \in Inputs : Arrive(r, input)
      PROVE  Consistent(r)'
  <2>1. Frame(r) /\ (QuietEffect(r) \/ FaultEffect(r) \/ DoneEffect(r))
    BY <1>2, CallStep
  <2>2. CASE QuietEffect(r)
    BY <2>1, <2>2 DEF Frame, QuietEffect, Moved, Consistent
  <2>3. CASE FaultEffect(r)
    BY <2>1, <2>3 DEF Frame, FaultEffect, Moved, Consistent, AfterFinally
  <2>4. CASE DoneEffect(r)
    BY <2>1, <2>4 DEF Frame, DoneEffect, Moved, Consistent, AfterFinally
  <2> QED
    BY <2>1, <2>2, <2>3, <2>4
<1> QED
  BY <1>1, <1>2

AllConsistent == \A r \in Requests : Consistent(r)

LEMMA StepConsistent ==
  ASSUME TypeOK, AllConsistent, [Next]_vars
  PROVE  AllConsistent'
<1>0. RequestTypes /\ AdminTypes
  BY TypeParts
<1>1. ASSUME NEW r \in Requests, ExecuteRun(r), NEW q \in Requests
      PROVE  Consistent(q)'
  <2>1. CASE q = r
    BY <1>0, <1>1, <2>1, RequestConsistent DEF AllConsistent
  <2>2. CASE q # r
    <3>1. Frame(r)
      BY <1>0, <1>1, ArriveStep, CallStep
    <3>2. request'[q] = request[q] /\ settings' = settings
      BY <2>2, <3>1 DEF Frame, Others
    <3>3. /\ q \in threads' <=> q \in threads
          /\ q \in completed' <=> q \in completed
          /\ q \in charged' <=> q \in charged
      BY <2>2, <3>1 DEF Frame
    <3> QED
      BY <3>2, <3>3 DEF AllConsistent, Consistent
  <2> QED
    BY <2>1, <2>2
<1>2. ASSUME UNCHANGED <<settings, request, threads, completed, charged>>
      PROVE  AllConsistent'
  BY <1>2 DEF AllConsistent, Consistent
<1> QED
  BY <1>1, <1>2 DEF Next, Administer, vars, AllConsistent

LEMMA InitConsistent == Init => AllConsistent
  BY DEF Init, AllConsistent, Consistent, NewRequest

LEMMA ConsistentInvariant == Spec => []AllConsistent
  BY InitConsistent, StepConsistent, TypeCorrect, PTL DEF Spec

\* With an endpoint configured every request in usage_events is one whose run
\* completed at the provider, whatever calls of execute fail and whenever
\* processes die.
THEOREM ChargesAreWarranted == Spec => []ChargesAreForRuns
<1>1. TypeOK /\ AllConsistent => ChargesAreForRuns
  BY DEF TypeOK, AllConsistent, Consistent, ChargesAreForRuns
<1> QED
  BY <1>1, ConsistentInvariant, TypeCorrect, PTL

\* Where credentials are configured, every thread, run and charge belongs to the
\* tenant of the request's sender, and without an API key to the user of its
\* token, for all deployments and for all credentials that were issued to their
\* senders.
THEOREM SendersAreThemselves == Spec => []SendersActForThemselves
<1>1. TypeOK /\ AllConsistent => SendersActForThemselves
  <2> SUFFICES ASSUME TypeOK, AllConsistent, AuthConfigured(settings),
                      NEW r \in threads \cup completed \cup charged
               PROVE  Own(request[r].acts)
    BY DEF SendersActForThemselves, Own
  <2>1. r \in Requests
    BY DEF TypeOK
  <2> QED
    BY <2>1 DEF AllConsistent, Consistent
<1> QED
  BY <1>1, ConsistentInvariant, TypeCorrect, PTL

-----------------------------------------------------------------------------
(* How many threads and charges are lost.                                  *)

LostThreads == {r \in threads : Over(r) \/ At(r, "record")}

\* A run whose answer or text was lost is lost while its thread is deleted.
LostCharges ==
    {r \in completed \ charged :
        \/ Over(r) /\ request[r].outcome # "unusable"
        \/ At(r, "delete") /\ request[r].outcome = "fails"}

ThreadFaults == faults["create"] + faults["delete"] + faults["die"]

ChargeFaults == faults["run"] + faults["text"] + faults["record"] + faults["die"]

LossBound ==
    /\ Cardinality(LostThreads) <= ThreadFaults
    /\ Cardinality(LostCharges) <= ChargeFaults

LEMMA FaultsAreNumbers ==
  ASSUME RequestTypes
  PROVE  /\ faults["create"] \in Nat /\ faults["message"] \in Nat /\ faults["run"] \in Nat
         /\ faults["text"] \in Nat /\ faults["delete"] \in Nat /\ faults["record"] \in Nat
         /\ faults["die"] \in Nat
         /\ ThreadFaults \in Nat /\ ChargeFaults \in Nat
<1>1. \A c \in Calls : faults[c] \in Nat
  BY RequestAssumption DEF RequestTypes
<1>2. /\ faults["create"] \in Nat /\ faults["message"] \in Nat /\ faults["run"] \in Nat
      /\ faults["text"] \in Nat /\ faults["delete"] \in Nat /\ faults["record"] \in Nat
      /\ faults["die"] \in Nat
  BY <1>1 DEF Calls
<1> QED
  BY <1>2 DEF ThreadFaults, ChargeFaults

LEMMA CountedSums ==
  ASSUME RequestTypes, NEW step \in Calls, Counted(step)
  PROVE  /\ ThreadFaults' = IF step \in {"create", "delete", "die"} THEN ThreadFaults + 1 ELSE ThreadFaults
         /\ ChargeFaults' = IF step \in {"run", "text", "record", "die"} THEN ChargeFaults + 1
                            ELSE ChargeFaults
  BY FaultsAreNumbers DEF Counted, ThreadFaults, ChargeFaults, Calls

\* A set of requests that grows by no more than one member when its counter
\* grows, and not at all otherwise, stays within the counter.
LEMMA LossKept ==
  ASSUME NEW S, NEW T, NEW r, NEW n \in Nat, NEW k \in Nat,
         IsFiniteSet(S), Cardinality(S) <= n,
         \/ T \subseteq S /\ n <= k
         \/ T \subseteq S \cup {r} /\ n + 1 <= k
  PROVE  Cardinality(T) <= k
<1>1. IsFiniteSet(S \cup {r}) /\ Cardinality(S \cup {r}) <= Cardinality(S) + 1
  BY FS_AddElement, FS_CardinalityType
<1>2. Cardinality(S) \in Nat /\ Cardinality(S \cup {r}) \in Nat
  BY <1>1, FS_CardinalityType
<1>3. CASE T \subseteq S /\ n <= k
  <2>1. Cardinality(T) <= Cardinality(S) /\ Cardinality(T) \in Nat
    BY <1>3, FS_Subset, FS_CardinalityType
  <2> QED
    BY <1>2, <1>3, <2>1
<1>4. CASE T \subseteq S \cup {r} /\ n + 1 <= k
  <2>1. Cardinality(T) <= Cardinality(S \cup {r}) /\ Cardinality(T) \in Nat
    BY <1>1, <1>4, FS_Subset, FS_CardinalityType
  <2> QED
    BY <1>1, <1>2, <1>4, <2>1
<1> QED
  BY <1>3, <1>4

LEMMA RequestLoses ==
  ASSUME RequestTypes, AllConsistent, NEW r \in Requests, ExecuteRun(r)
  PROVE  /\ \/ LostThreads' \subseteq LostThreads /\ ThreadFaults <= ThreadFaults'
            \/ LostThreads' \subseteq LostThreads \cup {r} /\ ThreadFaults + 1 <= ThreadFaults'
         /\ \/ LostCharges' \subseteq LostCharges /\ ChargeFaults <= ChargeFaults'
            \/ LostCharges' \subseteq LostCharges \cup {r} /\ ChargeFaults + 1 <= ChargeFaults'
<1>0. Consistent(r)
  BY DEF AllConsistent
<1>1. Frame(r)
  BY ArriveStep, CallStep
<1>2. LostThreads' \subseteq LostThreads \cup {r} /\ LostCharges' \subseteq LostCharges \cup {r}
  <2>1. \A q \in threads' : q \in Requests /\ (q # r => q \in threads /\ request'[q] = request[q])
    BY <1>1 DEF Frame, Others, RequestTypes
  <2>2. \A q \in completed' \ charged' :
           q \in Requests /\ (q # r => q \in completed \ charged /\ request'[q] = request[q])
    BY <1>1 DEF Frame, Others, RequestTypes
  <2> QED
    BY <2>1, <2>2 DEF LostThreads, LostCharges, Over, At
<1>3. \/ ThreadFaults + 1 <= ThreadFaults'
      \/ ThreadFaults <= ThreadFaults' /\ (r \in LostThreads' => r \in LostThreads)
  <2>1. ASSUME NEW input \in Inputs, Arrive(r, input)
        PROVE  ThreadFaults <= ThreadFaults' /\ (r \in LostThreads' => r \in LostThreads)
    <3>1. ThreadFaults' = ThreadFaults /\ r \notin threads'
      BY <1>0, <2>1, ArriveStep DEF ArriveEffect, Consistent, ThreadFaults
    <3> QED
      BY <3>1, FaultsAreNumbers DEF LostThreads
  <2>2. ASSUME QuietEffect(r)
        PROVE  ThreadFaults <= ThreadFaults' /\ (r \in LostThreads' => r \in LostThreads)
    <3>1. ThreadFaults' = ThreadFaults
      BY <2>2 DEF QuietEffect, ThreadFaults
    <3>2. r \in LostThreads' => r \in LostThreads
      BY <1>0, <2>2 DEF QuietEffect, Consistent, LostThreads, Over, At
    <3> QED
      BY <3>1, <3>2, FaultsAreNumbers
  <2>3. ASSUME DoneEffect(r)
        PROVE  ThreadFaults <= ThreadFaults' /\ (r \in LostThreads' => r \in LostThreads)
    <3>1. ThreadFaults' = ThreadFaults
      BY <2>3 DEF DoneEffect, ThreadFaults
    <3>2. r \in LostThreads' => r \in LostThreads
      BY <1>0, <2>3 DEF DoneEffect, Consistent, LostThreads, Over, At
    <3> QED
      BY <3>1, <3>2, FaultsAreNumbers
  <2>4. ASSUME FaultEffect(r)
        PROVE  \/ ThreadFaults + 1 <= ThreadFaults'
               \/ ThreadFaults <= ThreadFaults' /\ (r \in LostThreads' => r \in LostThreads)
    <3>1. CASE Counted("create") \/ Counted("delete") \/ Counted("die")
      BY <3>1, CountedSums, FaultsAreNumbers, PlacesOf
    <3>2. CASE ~(Counted("create") \/ Counted("delete") \/ Counted("die"))
      <4>1. Counted("message") \/ Counted("run") \/ Counted("text") \/ Counted("record")
        BY <2>4, <3>2 DEF FaultEffect
      <4>2. r \in LostThreads' => r \in LostThreads
        BY <2>4, <3>2 DEF FaultEffect, LostThreads, Over, At
      <4> QED
        BY <4>1, <4>2, CountedSums, FaultsAreNumbers, PlacesOf
    <3> QED
      BY <3>1, <3>2
  <2> QED
    BY <2>1, <2>2, <2>3, <2>4, CallStep
<1>4. \/ ChargeFaults + 1 <= ChargeFaults'
      \/ ChargeFaults <= ChargeFaults' /\ (r \in LostCharges' => r \in LostCharges)
  <2>1. ASSUME NEW input \in Inputs, Arrive(r, input)
        PROVE  ChargeFaults <= ChargeFaults' /\ (r \in LostCharges' => r \in LostCharges)
    <3>1. ChargeFaults' = ChargeFaults /\ r \notin completed'
      BY <1>0, <2>1, ArriveStep DEF ArriveEffect, Consistent, ChargeFaults
    <3> QED
      BY <3>1, FaultsAreNumbers DEF LostCharges
  <2>2. ASSUME QuietEffect(r)
        PROVE  ChargeFaults <= ChargeFaults' /\ (r \in LostCharges' => r \in LostCharges)
    <3>1. ChargeFaults' = ChargeFaults
      BY <2>2 DEF QuietEffect, ChargeFaults
    <3>2. r \notin completed'
      BY <1>0, <2>2 DEF QuietEffect, Consistent
    <3> QED
      BY <3>1, <3>2, FaultsAreNumbers DEF LostCharges
  <2>3. ASSUME DoneEffect(r)
        PROVE  ChargeFaults <= ChargeFaults' /\ (r \in LostCharges' => r \in LostCharges)
    <3>1. ChargeFaults' = ChargeFaults
      BY <2>3 DEF DoneEffect, ChargeFaults
    <3>2. request[r].outcome \in Outcomes
      BY DEF RequestTypes, RequestState
    <3>3. r \in LostCharges' => r \in LostCharges
      BY <1>0, <2>3, <3>2 DEF DoneEffect, Consistent, LostCharges, Over, At, AfterFinally, Outcomes
    <3> QED
      BY <3>1, <3>3, FaultsAreNumbers
  <2>4. ASSUME FaultEffect(r)
        PROVE  \/ ChargeFaults + 1 <= ChargeFaults'
               \/ ChargeFaults <= ChargeFaults' /\ (r \in LostCharges' => r \in LostCharges)
    <3>1. CASE Counted("run") \/ Counted("text") \/ Counted("record") \/ Counted("die")
      BY <3>1, CountedSums, FaultsAreNumbers, PlacesOf
    <3>2. CASE ~(Counted("run") \/ Counted("text") \/ Counted("record") \/ Counted("die"))
      <4>1. Counted("create") \/ Counted("message") \/ Counted("delete")
        BY <2>4, <3>2 DEF FaultEffect
      <4>2. request[r].outcome \in Outcomes
        BY DEF RequestTypes, RequestState
      <4>3. r \in LostCharges' => r \in LostCharges
        BY <1>0, <2>4, <3>2, <4>2
           DEF FaultEffect, Consistent, LostCharges, Over, At, AfterFinally, Outcomes
      <4> QED
        BY <4>1, <4>3, CountedSums, FaultsAreNumbers, PlacesOf
    <3> QED
      BY <3>1, <3>2
  <2> QED
    BY <2>1, <2>2, <2>3, <2>4, CallStep
<1> QED
  BY <1>2, <1>3, <1>4

LEMMA StepLoses ==
  ASSUME TypeOK, AllConsistent, LossBound, TypeOK', [Next]_vars
  PROVE  LossBound'
<1>0. RequestTypes /\ ThreadFaults \in Nat /\ ChargeFaults \in Nat
  BY TypeParts, FaultsAreNumbers
<1>1. ThreadFaults' \in Nat /\ ChargeFaults' \in Nat
  <2>1. \A c \in Calls : faults'[c] \in Nat
    BY RequestAssumption DEF TypeOK
  <2> QED
    BY <2>1 DEF Calls, ThreadFaults, ChargeFaults
<1>2. IsFiniteSet(LostThreads) /\ IsFiniteSet(LostCharges)
  BY RequestAssumption, FS_Subset DEF TypeOK, LostThreads, LostCharges
<1>3. ASSUME NEW r \in Requests, ExecuteRun(r) PROVE LossBound'
  BY <1>0, <1>1, <1>2, <1>3, RequestLoses, LossKept DEF LossBound
<1>4. ASSUME UNCHANGED <<request, threads, completed, charged, faults>> PROVE LossBound'
  BY <1>4 DEF LossBound, LostThreads, LostCharges, ThreadFaults, ChargeFaults, Over, At
<1> QED
  BY <1>3, <1>4 DEF Next, Administer, vars

LEMMA InitLoses == Init => LossBound
<1> SUFFICES ASSUME Init PROVE LossBound
  OBVIOUS
<1>1. LostThreads = {} /\ LostCharges = {}
  BY DEF Init, LostThreads, LostCharges
<1>2. ThreadFaults = 0 /\ ChargeFaults = 0
  BY DEF Init, ThreadFaults, ChargeFaults, Calls
<1> QED
  BY <1>1, <1>2, FS_EmptySet DEF LossBound

LEMMA LossInvariant == Spec => []LossBound
  BY InitLoses, StepLoses, ConsistentInvariant, TypeCorrect, PTL DEF Spec

\* The threads that no request will delete are at most one for each create
\* whose answer was lost, each deletion that failed and each process that died:
\* the finally block deletes those of failed messages, runs and texts.
THEOREM ThreadsAreBounded == Spec => []ThreadsBound
<1>1. LossBound => ThreadsBound
  BY DEF LossBound, LostThreads, ThreadFaults, ThreadsBound
<1> QED
  BY <1>1, LossInvariant, PTL

\* The completed runs that end without a charge are at most one for each run,
\* text or recording that failed and each process that died; a deletion that
\* fails costs none.
THEOREM UnchargedRunsAreBounded == Spec => []UnchargedBound
<1>1. TypeOK /\ LossBound => UnchargedBound
  <2> SUFFICES ASSUME TypeOK, LossBound PROVE UnchargedBound
    OBVIOUS
  <2> DEFINE S == {r \in completed \ charged : Over(r) /\ request[r].outcome # "unusable"}
  <2>1. RequestTypes /\ ChargeFaults \in Nat
    BY TypeParts, FaultsAreNumbers
  <2>2. S \subseteq LostCharges /\ IsFiniteSet(LostCharges)
    BY RequestAssumption, FS_Subset DEF TypeOK, LostCharges
  <2> HIDE DEF S
  <2>3. Cardinality(LostCharges) <= ChargeFaults /\ ChargeFaults <= ChargeFaults
    BY <2>1 DEF LossBound
  <2>4. Cardinality(S) <= ChargeFaults
    BY <2>1, <2>2, <2>3, LossKept
  <2> QED
    BY <2>4 DEF S, UnchargedBound, ChargeFaults
<1> QED
  BY <1>1, LossInvariant, TypeCorrect, PTL

-----------------------------------------------------------------------------
(* Administrators.                                                         *)

\* What the code extracts from a token's claims and what the contract reads in
\* them.
LEMMA ClaimsAreRead ==
  ASSUME NEW token \in AdminTokens, NEW names
  PROVE  LET principal == AdminPrincipal(token.claims)
         IN  /\ principal.roles \cap names # {} <=> HoldsRole(token.claims, names)
             /\ principal.scopes \cap names # {} <=> HoldsScope(token.claims, names)
<1> DEFINE claims == token.claims
<1>1. /\ claims.roles.form \in {"list", "spaces", "commas"}
      /\ claims.role.form \in {"list", "spaces", "commas"}
      /\ claims.scp.form \in {"list", "spaces", "commas"}
      /\ claims.scope.form \in {"list", "spaces", "commas"}
  BY AdminAssumption
<1> HIDE DEF claims
<1>2. AdminPrincipal(claims).roles = claims.roles.names \cup claims.role.names
  BY DEF AdminPrincipal, ExtractStringSet
<1>3. AdminPrincipal(claims).scopes = ExtractScopes(claims.scp) \cup ExtractScopes(claims.scope)
  BY DEF AdminPrincipal
<1>4. AdminPrincipal(claims).roles \cap names # {} <=> HoldsRole(claims, names)
  BY <1>1, <1>2 DEF HoldsRole, Lists
<1>5. AdminPrincipal(claims).scopes \cap names # {} <=> HoldsScope(claims, names)
  BY <1>1, <1>3 DEF HoldsScope, Lists, ExtractScopes
<1> QED
  BY <1>4, <1>5 DEF claims

LEMMA TenantIsRead ==
  ASSUME NEW token \in AdminTokens, NEW tenant \in Tenants
  PROVE  LET granted == CanAccessTenant(AdminPrincipal(token.claims), tenant)
         IN  /\ granted => InTenant(token.claims, tenant) \/ ClaimsEveryTenant(token.claims)
             /\ InTenant(token.claims, tenant) => granted \/ ShadowsTenant(token.claims, tenant)
<1> DEFINE claims == token.claims
           principal == AdminPrincipal(claims)
<1>1. claims.tenant_ids.form \in {"list", "spaces", "commas"}
  BY AdminAssumption
<1>2. "platform_admin" \in principal.roles <=> HoldsRole(claims, {"platform_admin"})
  BY ClaimsAreRead
<1>3. principal.tenant_ids = claims.tenant_ids.names \cup ({ClaimedTenant(claims)} \ {Absent})
  BY DEF AdminPrincipal, ExtractStringSet
<1>4. Lists(claims.tenant_ids, {"spaces", "commas"}) = claims.tenant_ids.names
  BY <1>1 DEF Lists
<1>5. tenant # Absent /\ "*" # Absent
  BY AdminAssumption DEF Absent
<1> HIDE DEF principal
<1>6. CanAccessTenant(principal, tenant) => InTenant(claims, tenant) \/ ClaimsEveryTenant(claims)
  BY <1>2, <1>3, <1>4 DEF CanAccessTenant, InTenant, ClaimsEveryTenant, ClaimedTenant, Or
<1>7. InTenant(claims, tenant) => CanAccessTenant(principal, tenant) \/ ShadowsTenant(claims, tenant)
  BY <1>2, <1>3, <1>4, <1>5 DEF CanAccessTenant, InTenant, ShadowsTenant, ClaimedTenant, Or
<1> QED
  BY <1>6, <1>7 DEF principal

\* The code's arguments of _authorize_admin are the contract's policy map.
LEMMA PoliciesFollowContract ==
  ASSUME NEW endpoint \in DOMAIN Contract
  PROVE  /\ Policy[endpoint].roles = Contract[endpoint][1]
         /\ Policy[endpoint].scopes = Contract[endpoint][2]
         /\ Policy[endpoint].tenant_scoped = Contract[endpoint][3]
<1>1. endpoint \in {"debug_identity", "list_plans", "get_plan", "upsert_plan", "update_tenant_plan",
                   "tenant_usage", "export_usage"}
  BY DEF Contract
<1>2. CASE endpoint = "debug_identity"
  BY <1>2 DEF Contract, Policy, PolicyOf, IdentityPolicy
<1>3. CASE endpoint = "list_plans"
  BY <1>3 DEF Contract, Policy, PolicyOf, PlansReadPolicy
<1>4. CASE endpoint = "get_plan"
  BY <1>4 DEF Contract, Policy, PolicyOf, PlansReadPolicy
<1>5. CASE endpoint = "upsert_plan"
  BY <1>5 DEF Contract, Policy, PolicyOf, PlansWritePolicy
<1>6. CASE endpoint = "update_tenant_plan"
  BY <1>6 DEF Contract, Policy, PolicyOf, TenantPlanPolicy
<1>7. CASE endpoint = "tenant_usage"
  BY <1>7 DEF Contract, Policy, PolicyOf, TenantUsagePolicy
<1>8. CASE endpoint = "export_usage"
  BY <1>8 DEF Contract, Policy, PolicyOf, ExportPolicy
<1> QED
  BY <1>1, <1>2, <1>3, <1>4, <1>5, <1>6, <1>7, <1>8

\* _authorize_admin admits to the endpoints of the RBAC contract the tokens that
\* the contract names and no others, for all tokens and all settings, but for
\* the two kinds that AuthorizationFollowsContract sets apart: a token with "*"
\* for its single tenant is admitted, and one with its tenant in a tid behind
\* another tenant_id is not.
THEOREM ContractIsFollowed == Spec => []AuthorizationFollowsContract
<1>1. AuthorizationFollowsContract
  <2> SUFFICES ASSUME NEW endpoint \in DOMAIN Contract, NEW tenant \in Tenants,
                      NEW token \in AdminTokens, DecodesBearerJwt(settings, token)
               PROVE  LET rule == Contract[endpoint]
                          claims == token.claims
                          admitted == AuthorizesAdmin(settings, endpoint, tenant, token)
                          permitted == HoldsRole(claims, rule[1]) \/ HoldsScope(claims, rule[2])
                      IN  /\ admitted => /\ permitted
                                         /\ rule[3] => InTenant(claims, tenant) \/ ClaimsEveryTenant(claims)
                          /\ permitted => \/ admitted
                                          \/ rule[3] /\ ~InTenant(claims, tenant)
                                          \/ rule[3] /\ ShadowsTenant(claims, tenant)
    BY DEF AuthorizationFollowsContract
  <2> DEFINE policy == Policy[endpoint]
             principal == AdminPrincipal(token.claims)
  <2>1. AuthorizesAdmin(settings, endpoint, tenant, token)
          <=> Authorizes(principal, policy.roles, policy.scopes,
                         IF policy.tenant_scoped THEN tenant ELSE Absent)
    BY DEF AuthorizesAdmin
  <2>2. tenant # Absent
    BY AdminAssumption
  <2>3. Authorizes(principal, policy.roles, policy.scopes,
                   IF policy.tenant_scoped THEN tenant ELSE Absent)
          <=> /\ principal.roles \cap policy.roles # {} \/ principal.scopes \cap policy.scopes # {}
              /\ policy.tenant_scoped => CanAccessTenant(principal, tenant)
    BY <2>2 DEF Authorizes
  <2> QED
    BY <2>1, <2>3, ClaimsAreRead, TenantIsRead, PoliciesFollowContract
<1> QED
  BY <1>1, PTL

\* A handler runs for a caller who may change the access of its path's tenant.
CallsAreWarranted ==
    \A m \in Admins : call[m] # NoCall => MayWriteAccess(call[m].token.claims, call[m].tenant)

LEMMA AuthorizedIsWarranted ==
  ASSUME NEW endpoint \in AccessEndpoints, NEW tenant \in Tenants, NEW token \in AdminTokens,
         AuthorizesAdmin(settings, endpoint, tenant, token)
  PROVE  MayWriteAccess(token.claims, tenant)
<1>1. Policy[endpoint] = AccessPolicy
  BY DEF Policy, AccessEndpoints
<1>2. /\ AccessPolicy.tenant_scoped = TRUE
      /\ AccessPolicy.roles = {"platform_admin", "tenant_admin"}
      /\ AccessPolicy.scopes = {"tenant.agents.write", "tenant.agent_access.write"}
  BY DEF AccessPolicy, PolicyOf
<1>3. tenant # Absent
  BY AdminAssumption
<1> DEFINE principal == AdminPrincipal(token.claims)
<1> HIDE DEF principal
<1>4. /\ \/ principal.roles \cap AccessPolicy.roles # {}
         \/ principal.scopes \cap AccessPolicy.scopes # {}
      /\ CanAccessTenant(principal, tenant)
  BY <1>1, <1>2, <1>3 DEF AuthorizesAdmin, Authorizes, principal
<1>5. \/ HoldsRole(token.claims, AccessPolicy.roles)
      \/ HoldsScope(token.claims, AccessPolicy.scopes)
  BY <1>4, ClaimsAreRead DEF principal
<1>6. InTenant(token.claims, tenant) \/ ClaimsEveryTenant(token.claims)
  BY <1>4, TenantIsRead DEF principal
<1> QED
  BY <1>2, <1>5, <1>6 DEF MayWriteAccess

LEMMA StepWarranted ==
  ASSUME TypeOK, CallsAreWarranted, [Next]_vars
  PROVE  CallsAreWarranted'
<1>0. AdminTypes
  BY TypeParts
<1>1. ASSUME UNCHANGED call PROVE CallsAreWarranted'
  BY <1>1 DEF CallsAreWarranted
<1>2. ASSUME NEW r \in Requests, ExecuteRun(r) PROVE CallsAreWarranted'
  BY <1>1, <1>2, RequestStepTypes, TypeParts
<1>3. ASSUME NEW m \in Admins, AdminNext(m) PROVE CallsAreWarranted'
  <2>1. ASSUME NEW endpoint \in AccessEndpoints, NEW tenant \in Tenants, NEW token \in AdminTokens,
               AuthorizeCall(m, endpoint, tenant, token)
        PROVE  CallsAreWarranted'
    <3> DEFINE new == [endpoint |-> endpoint, tenant |-> tenant, token |-> token]
    <3>1. MayWriteAccess(new.token.claims, new.tenant)
      BY <2>1, AuthorizedIsWarranted DEF AuthorizeCall
    <3>2. call' = [call EXCEPT ![m] = new]
      BY <2>1 DEF AuthorizeCall
    <3> HIDE DEF new
    <3> QED
      BY <1>0, <3>1, <3>2 DEF CallsAreWarranted, AdminTypes
  <2>2. ASSUME call' = [call EXCEPT ![m] = NoCall] PROVE CallsAreWarranted'
    BY <1>0, <2>2 DEF CallsAreWarranted, AdminTypes
  <2> QED
    BY <1>3, <2>1, <2>2 DEF AdminNext, GrantCustomerAgent, RevokeCustomerAgent, CallFails
<1> QED
  BY <1>1, <1>2, <1>3 DEF Next, Administer, vars

\* A handler that changes the access of a tenant's customers runs for a caller
\* who had a role or a scope for it when it was authorized and a token for that
\* tenant, or one with "*" for its single tenant, and changes the access of no
\* other tenant, however calls interleave.
THEOREM AccessChangesAreWarranted == Spec => AccessIsWarranted
<1> DEFINE Warranted ==
      access' # access =>
         \E m \in Admins, t \in Tenants :
            /\ call[m] # NoCall /\ call'[m] = NoCall
            /\ MayWriteAccess(call[m].token.claims, t)
            /\ \A u \in Tenants \ {t}, c \in Customers : <<u, c>> \in access' <=> <<u, c>> \in access
<1>1. Init => CallsAreWarranted
  BY DEF Init, AdminInit, CallsAreWarranted
<1>2. TypeOK /\ CallsAreWarranted /\ [Next]_vars => [Warranted]_access
  <2> SUFFICES ASSUME TypeOK, CallsAreWarranted, [Next]_vars, access' # access PROVE Warranted
    OBVIOUS
  <2>0. AdminTypes
    BY TypeParts
  <2>1. \E m \in Admins : AdminNext(m)
    BY RequestStepTypes, TypeParts DEF Next, Administer, vars
  <2>2. PICK m \in Admins : AdminNext(m)
    BY <2>1
  <2>3. PICK customer \in Customers : GrantCustomerAgent(m, customer) \/ RevokeCustomerAgent(m, customer)
    BY <2>2 DEF AdminNext, AuthorizeCall, CallFails
  <2>4. call[m] \in AdminCall /\ call[m] # NoCall
    BY <2>0, <2>3, CallInHandler DEF GrantCustomerAgent, RevokeCustomerAgent, AccessEndpoints
  <2>5. call[m].tenant \in Tenants /\ call'[m] = NoCall
    BY <2>0, <2>3, <2>4 DEF GrantCustomerAgent, RevokeCustomerAgent, AdminCall, AdminTypes
  <2>6. MayWriteAccess(call[m].token.claims, call[m].tenant)
    BY <2>4 DEF CallsAreWarranted
  <2>7. \A u \in Tenants \ {call[m].tenant}, c \in Customers : <<u, c>> \in access' <=> <<u, c>> \in access
    BY <2>3 DEF GrantCustomerAgent, RevokeCustomerAgent
  <2> QED
    BY <2>4, <2>5, <2>6, <2>7
<1> QED
  BY <1>1, <1>2, StepWarranted, TypeCorrect, PTL DEF Spec, AccessIsWarranted

=============================================================================
