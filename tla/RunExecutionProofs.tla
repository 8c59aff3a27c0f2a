------------------------- MODULE RunExecutionProofs -------------------------
(***************************************************************************)
(* Proofs about RunExecution for every number of request threads,          *)
(* customers, agents, plans and months, and every choice of limits.        *)
(***************************************************************************)
EXTENDS RunExecution, FiniteSetTheorems, TLAPS

-----------------------------------------------------------------------------
(* The inductive invariant.                                                *)

\* What a request carries and has read by the time it makes each call.
Placed(state) ==
    /\ state.pc # "idle" => /\ state.customer \in Customers /\ state.agent \in Agents
                            /\ state.length \in MessageLengths
    /\ state.pc = "get_plan" => state.plan \in Plans
    /\ state.pc \in {"record", "commit"} => state.output \in OutputLengths

Located == \A r \in Requests : Placed(request[r])

AfterAgent == {"get_grant", "limiter", "quota", "execute", "record", "commit"}

AfterGrant == AfterAgent \ {"get_grant"}

\* The histories are complete, and a request gets past a gate only with what the
\* gate asks for in its history.
Tracked ==
    \A r \in Requests : request[r].pc # "idle" =>
        /\ agents[request[r].agent] = "active" => r \in sawActive
        /\ Granted(request[r].customer, request[r].agent) => r \in sawGrant
        /\ request[r].pc \in AfterAgent => r \in sawActive
        /\ request[r].pc \in AfterGrant => r \in sawGrant

\* A request that may still add a run to month m without being judged by its
\* usage: its run is stamped with m or, while m is the current month, admitted
\* already or about to be judged by the usage of an earlier month.
MayAdd(state, m) ==
    \/ state.pc = "commit" /\ state.stamp = m
    \/ state.pc \in {"execute", "record"} /\ m = month
    \/ state.pc = "quota" /\ m = month /\ state.month # m

Unjudged(m) == {r \in Requests : MayAdd(request[r], m)}

\* Each of them has room for a run in the bounds; months to come are empty.
MessagesReserved ==
    \A m \in Months :
        IF m <= month
        THEN usage[m].messages + Cardinality(Unjudged(m)) <= MaxMessages - 1 + Cardinality(Requests)
        ELSE usage[m].messages = 0

TokensReserved ==
    \A m \in Months :
        IF m <= month
        THEN usage[m].tokens + Cardinality(Unjudged(m)) * LargestRun
               <= MaxTokenCap - 2 + Cardinality(Requests) * LargestRun
        ELSE usage[m].tokens = 0

Reserved == MessagesReserved /\ TokensReserved

\* No run is stamped with a month to come.
Stamped == \A r \in Requests : request[r].pc = "commit" => request[r].stamp <= month

-----------------------------------------------------------------------------
(* Type correctness.                                                       *)

RequestState ==
    [pc : Calls, customer : Customers \cup {""}, agent : Agents \cup {""},
     length : Nat, plan : Plans \cup {""}, limits : LimitChoices \cup {NoLimits},
     month : Months, output : Nat, stamp : Months]

LEMMA FirstMonth == 0 \in Months
  BY RequestsAssumption DEF Months

LEMMA MonthType ==
  ASSUME NEW m \in Months
  PROVE  m \in Nat
  BY RequestsAssumption DEF Months

LEMMA TokensType ==
  ASSUME NEW l \in Nat
  PROVE  Tokens(l) \in Nat /\ Tokens(l) >= 1
  BY DEF Tokens

LEMMA IdleType == IdleRequest \in RequestState /\ IdleRequest.pc = "idle" /\ Placed(IdleRequest)
  BY FirstMonth DEF IdleRequest, RequestState, Calls, Placed

LEMMA RequestType ==
  ASSUME TypeOK, NEW r \in Requests
  PROVE  request[r] \in RequestState
  BY DEF TypeOK, RequestState

\* A gate changes its own request and nothing else.
LEMMA GateTypes ==
  ASSUME TypeOK, Located, NEW r \in Requests, NEW call, NEW passes, NEW state,
         Gate(r, call, passes, state), state \in RequestState, Placed(state)
  PROVE  TypeOK' /\ Located'
<1>1. (IF passes THEN state ELSE IdleRequest) \in RequestState
  BY IdleType
<1>2. request' \in [Requests -> RequestState]
  BY <1>1 DEF TypeOK, Gate, RequestState
<1>3. TypeOK'
  BY <1>2 DEF TypeOK, Gate, adminVars, RequestState
<1>4. Located'
  BY IdleType DEF TypeOK, Gate, Located
<1> QED
  BY <1>3, <1>4

LEMMA InitTypes == Init => TypeOK /\ Located
<1> SUFFICES ASSUME Init PROVE TypeOK /\ Located
  OBVIOUS
<1>1. request \in [Requests -> RequestState]
  BY IdleType DEF Init
<1>2. TypeOK
  BY <1>1, FirstMonth DEF Init, TypeOK, RequestState, NoUsage, Entitlements
<1>3. Located
  BY IdleType DEF Init, Located
<1> QED
  BY <1>2, <1>3

LEMMA StepTypes ==
  ASSUME TypeOK, Located, [Next]_vars
  PROVE  TypeOK' /\ Located'
<1>1. ASSUME NEW p \in Plans, NEW s \in {"pending", "active"}, UpsertTenant(p, s)
      PROVE  TypeOK' /\ Located'
  BY <1>1 DEF TypeOK, Located, UpsertTenant
<1>2. ASSUME NEW p \in Plans, NEW l \in LimitChoices, NEW b \in BOOLEAN, UpsertPlan(p, l, b)
      PROVE  TypeOK' /\ Located'
  <2>1. plans' \in [Plans -> [limits : LimitChoices, active : BOOLEAN]]
    BY <1>2 DEF TypeOK, UpsertPlan
  <2> QED
    BY <1>2, <2>1 DEF TypeOK, Located, UpsertPlan
<1>3. ASSUME NEW a \in Agents, NEW s \in {"inactive", "active"}, UpsertTenantAgent(a, s)
      PROVE  TypeOK' /\ Located'
  BY <1>3 DEF TypeOK, Located, UpsertTenantAgent
<1>4. ASSUME NEW pair \in Entitlements, GrantCustomerAgent(pair[1], pair[2])
      PROVE  TypeOK' /\ Located'
  <2>1. <<pair[1], pair[2]>> \in Entitlements
    BY DEF Entitlements
  <2>2. grants' \subseteq Entitlements
    BY <1>4, <2>1 DEF TypeOK, GrantCustomerAgent
  <2>3. sawGrant' \subseteq Requests
    BY <1>4 DEF TypeOK, GrantCustomerAgent
  <2> QED
    BY <1>4, <2>2, <2>3 DEF TypeOK, Located, GrantCustomerAgent
<1>5. ASSUME NEW pair \in Entitlements, RevokeCustomerAgent(pair[1], pair[2])
      PROVE  TypeOK' /\ Located'
  BY <1>5 DEF TypeOK, Located, RevokeCustomerAgent, Entitlements
<1>6. ASSUME NEW mapping \in SUBSET ((Customers \ {"*"}) \X Agents), NEW b \in BOOLEAN,
             ApplyMapping(mapping, b)
      PROVE  TypeOK' /\ Located'
  BY <1>6 DEF TypeOK, Located, ApplyMapping, Entitlements
<1>7. ASSUME NEW r \in Requests, NEW c \in Customers, NEW a \in Agents,
             NEW l \in MessageLengths, Arrive(r, c, a, l)
      PROVE  TypeOK' /\ Located'
  <2> DEFINE state == [IdleRequest EXCEPT !.pc = "get_tenant", !.customer = c,
                                          !.agent = a, !.length = l]
  <2>1. state \in RequestState /\ Placed(state)
    BY LengthsAssumption, FirstMonth DEF RequestState, IdleRequest, Calls, Placed
  <2>2. request' = [request EXCEPT ![r] = state]
    BY <1>7 DEF Arrive
  <2> HIDE DEF state
  <2>3. request' \in [Requests -> RequestState]
    BY <2>1, <2>2 DEF TypeOK, RequestState
  <2>4. TypeOK'
    BY <1>7, <2>3 DEF TypeOK, Arrive, adminVars, RequestState
  <2>5. Located'
    BY <2>1, <2>2 DEF TypeOK, Located
  <2> QED
    BY <2>4, <2>5
<1>8. ASSUME NEW r \in Requests, GetTenant(r) PROVE TypeOK' /\ Located'
  <2> DEFINE state == [request[r] EXCEPT !.pc = "get_plan", !.plan = tenant.plan]
  <2>1. state \in RequestState /\ Placed(state)
    <3>1. request[r] \in RequestState /\ Placed(request[r]) /\ request[r].pc # "idle"
      BY <1>8, RequestType DEF Located, GetTenant, Gate
    <3>2. tenant.plan \in Plans
      BY DEF TypeOK
    <3> QED
      BY <3>1, <3>2 DEF RequestState, Calls, Placed
  <2> QED
    BY <1>8, <2>1, GateTypes DEF GetTenant
<1>9. ASSUME NEW r \in Requests, GetPlan(r) PROVE TypeOK' /\ Located'
  <2> DEFINE plan == plans[request[r].plan]
             state == [request[r] EXCEPT !.pc = "get_agent", !.limits = plan.limits]
  <2>1. state \in RequestState /\ Placed(state)
    <3>1. request[r] \in RequestState /\ Placed(request[r]) /\ request[r].pc # "idle"
      BY <1>9, RequestType DEF Located, GetPlan, Gate
    <3>2. plans[request[r].plan].limits \in LimitChoices
      BY <1>9, <3>1 DEF TypeOK, Placed, GetPlan, Gate
    <3> QED
      BY <3>1, <3>2 DEF RequestState, Calls, Placed
  <2> QED
    BY <1>9, <2>1, GateTypes DEF GetPlan
<1>10. ASSUME NEW r \in Requests, CheckAgent(r) PROVE TypeOK' /\ Located'
  <2> DEFINE state == [request[r] EXCEPT !.pc = "get_grant"]
  <2>1. state \in RequestState /\ Placed(state)
    <3>1. request[r] \in RequestState /\ Placed(request[r]) /\ request[r].pc # "idle"
      BY <1>10, RequestType DEF Located, CheckAgent, Gate
    <3> QED
      BY <3>1 DEF RequestState, Calls, Placed
  <2> QED
    BY <1>10, <2>1, GateTypes DEF CheckAgent
<1>11. ASSUME NEW r \in Requests, CheckGrant(r) PROVE TypeOK' /\ Located'
  <2> DEFINE state == [request[r] EXCEPT !.pc = "limiter"]
  <2>1. state \in RequestState /\ Placed(state)
    <3>1. request[r] \in RequestState /\ Placed(request[r]) /\ request[r].pc # "idle"
      BY <1>11, RequestType DEF Located, CheckGrant, Gate
    <3> QED
      BY <3>1 DEF RequestState, Calls, Placed
  <2> QED
    BY <1>11, <2>1, GateTypes DEF CheckGrant
<1>12. ASSUME NEW r \in Requests, RateLimit(r) PROVE TypeOK' /\ Located'
  <2> DEFINE state == [request[r] EXCEPT !.pc = "quota", !.month = month]
  <2>1. state \in RequestState /\ Placed(state)
    <3>1. request[r] \in RequestState /\ Placed(request[r]) /\ request[r].pc # "idle"
      BY <1>12, RequestType DEF Located, RateLimit, Gate
    <3>2. month \in Months
      BY DEF TypeOK
    <3> QED
      BY <3>1, <3>2 DEF RequestState, Calls, Placed
  <2>2. PICK allowed \in BOOLEAN : Gate(r, "limiter", allowed, state)
    BY <1>12 DEF RateLimit
  <2> QED
    BY <2>1, <2>2, GateTypes
<1>13. ASSUME NEW r \in Requests, CheckQuota(r) PROVE TypeOK' /\ Located'
  <2> DEFINE state == [request[r] EXCEPT !.pc = "execute"]
  <2>1. state \in RequestState /\ Placed(state)
    <3>1. request[r] \in RequestState /\ Placed(request[r]) /\ request[r].pc # "idle"
      BY <1>13, RequestType DEF Located, CheckQuota, Gate
    <3> QED
      BY <3>1 DEF RequestState, Calls, Placed
  <2> QED
    BY <1>13, <2>1, GateTypes DEF CheckQuota
<1>14. ASSUME NEW r \in Requests, NEW l \in OutputLengths, Execute(r, l) PROVE TypeOK' /\ Located'
  <2> DEFINE state == [request[r] EXCEPT !.pc = "record", !.output = l]
  <2>1. state \in RequestState /\ Placed(state)
    <3>1. request[r] \in RequestState /\ Placed(request[r]) /\ request[r].pc # "idle"
      BY <1>14, RequestType DEF Located, Execute, Gate
    <3>2. l \in Nat /\ l \in OutputLengths
      BY LengthsAssumption
    <3> QED
      BY <3>1, <3>2 DEF RequestState, Calls, Placed
  <2> QED
    BY <1>14, <2>1, GateTypes DEF Execute
<1>15. ASSUME NEW r \in Requests, Stamp(r) PROVE TypeOK' /\ Located'
  <2> DEFINE state == [request[r] EXCEPT !.pc = "commit", !.stamp = month]
  <2>1. state \in RequestState /\ Placed(state)
    <3>1. request[r] \in RequestState /\ Placed(request[r]) /\ request[r].pc = "record"
      BY <1>15, RequestType DEF Located, Stamp, Gate
    <3>2. month \in Months
      BY DEF TypeOK
    <3> QED
      BY <3>1, <3>2 DEF RequestState, Calls, Placed
  <2> QED
    BY <1>15, <2>1, GateTypes DEF Stamp
<1>16. ASSUME NEW r \in Requests, Record(r) PROVE TypeOK' /\ Located'
  <2> DEFINE m == request[r].stamp
             spent == Tokens(request[r].length) + Tokens(request[r].output)
  <2>1. spent \in Nat /\ m \in Months
    <3>1. /\ request[r].length \in Nat /\ request[r].output \in Nat
          /\ request[r].stamp \in Months
      BY DEF TypeOK
    <3> QED
      BY <3>1, TokensType
  <2>2. usage' = [usage EXCEPT ![m] = [messages |-> usage[m].messages + 1,
                                      tokens |-> usage[m].tokens + spent]]
    BY <1>16 DEF Record
  <2> HIDE DEF spent, m
  <2>3. usage' \in [Months -> [messages : Nat, tokens : Nat]]
    <3>1. usage \in [Months -> [messages : Nat, tokens : Nat]]
      BY DEF TypeOK
    <3> QED
      BY <2>1, <2>2, <3>1
  <2>4. request' \in [Requests -> RequestState]
    BY <1>16, IdleType DEF TypeOK, Record, RequestState
  <2>5. TypeOK'
    BY <1>16, <2>3, <2>4 DEF TypeOK, Record, adminVars, RequestState
  <2>6. Located'
    BY <1>16, IdleType DEF TypeOK, Located, Record
  <2> QED
    BY <2>5, <2>6
<1>17. ASSUME NEW r \in Requests, Fail(r) PROVE TypeOK' /\ Located'
  <2>1. request' \in [Requests -> RequestState]
    BY <1>17, IdleType DEF TypeOK, Fail, RequestState
  <2>2. TypeOK'
    BY <1>17, <2>1 DEF TypeOK, Fail, adminVars, RequestState
  <2>3. Located'
    BY <1>17, IdleType DEF TypeOK, Located, Fail
  <2> QED
    BY <2>2, <2>3
<1>18. CASE NextMonth
  <2>1. month' \in Months
    <3>1. month \in 0..MaxMonth /\ MaxMonth \in Nat /\ month < MaxMonth /\ month' = month + 1
      BY <1>18, RequestsAssumption DEF TypeOK, NextMonth, Months
    <3> QED
      BY <3>1 DEF Months
  <2> QED
    BY <1>18, <2>1 DEF TypeOK, Located, NextMonth, adminVars
<1>19. CASE UNCHANGED vars
  BY <1>19 DEF TypeOK, Located, vars
<1> QED
  BY <1>1, <1>2, <1>3, <1>4, <1>5, <1>6, <1>7, <1>8, <1>9, <1>10, <1>11, <1>12, <1>13,
     <1>14, <1>15, <1>16, <1>17, <1>18, <1>19
  DEF Next, AdminWrite, ExecuteRun

\* The tables, the requests' locals and the histories always have their types,
\* whatever administrators write while requests are served.
THEOREM TypeCorrect == Spec => []TypeOK
<1>1. Init => TypeOK /\ Located
  BY InitTypes
<1>2. TypeOK /\ Located /\ [Next]_vars => TypeOK' /\ Located'
  BY StepTypes
<1> QED
  BY <1>1, <1>2, PTL DEF Spec

-----------------------------------------------------------------------------
(* Entitlement.                                                            *)

LEMMA GateTracked ==
  ASSUME TypeOK, Tracked, NEW r \in Requests, NEW call, NEW passes, NEW state,
         Gate(r, call, passes, state), call # "idle",
         state.customer = request[r].customer, state.agent = request[r].agent,
         passes /\ state.pc \in AfterAgent => r \in sawActive,
         passes /\ state.pc \in AfterGrant => r \in sawGrant
  PROVE  Tracked'
<1> SUFFICES ASSUME NEW q \in Requests, request'[q].pc # "idle"
             PROVE  /\ agents[request'[q].agent] = "active" => q \in sawActive
                    /\ Granted(request'[q].customer, request'[q].agent) => q \in sawGrant
                    /\ request'[q].pc \in AfterAgent => q \in sawActive
                    /\ request'[q].pc \in AfterGrant => q \in sawGrant
  BY DEF Tracked, Gate, adminVars, Granted
<1>1. CASE q = r
  <2>1. request'[q] = state /\ passes
    BY <1>1, IdleType DEF TypeOK, Gate
  <2>2. request[r].pc # "idle"
    BY DEF Gate
  <2> QED
    BY <1>1, <2>1, <2>2 DEF Tracked
<1>2. CASE q # r
  <2>1. request'[q] = request[q]
    BY <1>2 DEF TypeOK, Gate
  <2> QED
    BY <2>1 DEF Tracked
<1> QED
  BY <1>1, <1>2

LEMMA StepTracked ==
  ASSUME TypeOK, Located, Tracked, [Next]_vars
  PROVE  Tracked'
<1>1. ASSUME NEW p \in Plans, NEW s \in {"pending", "active"}, UpsertTenant(p, s)
      PROVE  Tracked'
  BY <1>1 DEF Tracked, UpsertTenant, Granted
<1>2. ASSUME NEW p \in Plans, NEW l \in LimitChoices, NEW b \in BOOLEAN, UpsertPlan(p, l, b)
      PROVE  Tracked'
  BY <1>2 DEF Tracked, UpsertPlan, Granted
<1>3. ASSUME NEW a \in Agents, NEW s \in {"inactive", "active"}, UpsertTenantAgent(a, s)
      PROVE  Tracked'
  BY <1>3 DEF TypeOK, Located, Placed, Tracked, UpsertTenantAgent, Granted
<1>4. ASSUME NEW pair \in Entitlements, GrantCustomerAgent(pair[1], pair[2])
      PROVE  Tracked'
  BY <1>4 DEF Tracked, GrantCustomerAgent, Granted
<1>5. ASSUME NEW pair \in Entitlements, RevokeCustomerAgent(pair[1], pair[2])
      PROVE  Tracked'
  BY <1>5 DEF Tracked, RevokeCustomerAgent, Granted
<1>6. ASSUME NEW mapping \in SUBSET ((Customers \ {"*"}) \X Agents), NEW b \in BOOLEAN,
             ApplyMapping(mapping, b)
      PROVE  Tracked'
  <2> SUFFICES ASSUME NEW r \in Requests, request[r].pc # "idle",
                      Granted(request[r].customer, request[r].agent)'
               PROVE  r \in sawGrant'
    BY <1>6 DEF Tracked, ApplyMapping
  <2> DEFINE own == <<request[r].customer, request[r].agent>>
             wildcard == <<"*", request[r].agent>>
  <2>1. own \in grants' \/ wildcard \in grants'
    BY <1>6 DEF Granted, ApplyMapping
  <2>2. own \in grants \cup mapping \/ wildcard \in grants \cup mapping
    BY <1>6, <2>1 DEF ApplyMapping
  <2>3. wildcard \notin mapping
    OBVIOUS
  <2>4. CASE own \in mapping
    BY <1>6, <2>4 DEF ApplyMapping
  <2>5. CASE own \in grants \/ wildcard \in grants
    BY <1>6, <2>5 DEF ApplyMapping, Tracked, Granted
  <2> QED
    BY <2>2, <2>3, <2>4, <2>5
<1>7. ASSUME NEW r \in Requests, NEW c \in Customers, NEW a \in Agents,
             NEW l \in MessageLengths, Arrive(r, c, a, l)
      PROVE  Tracked'
  BY <1>7 DEF TypeOK, Tracked, Arrive, adminVars, Granted, IdleRequest, AfterAgent, AfterGrant
<1>8. ASSUME NEW r \in Requests, GetTenant(r) PROVE Tracked'
  <2> DEFINE state == [request[r] EXCEPT !.pc = "get_plan", !.plan = tenant.plan]
  <2>1. /\ state.pc = "get_plan"
        /\ state.customer = request[r].customer /\ state.agent = request[r].agent
    BY RequestType DEF RequestState
  <2>2. {"get_plan"} \cap AfterAgent = {}
    BY DEF AfterAgent
  <2> QED
    BY <1>8, <2>1, <2>2, GateTracked DEF GetTenant, AfterGrant
<1>9. ASSUME NEW r \in Requests, GetPlan(r) PROVE Tracked'
  <2> DEFINE state == [request[r] EXCEPT !.pc = "get_agent", !.limits = plans[request[r].plan].limits]
  <2>1. /\ state.pc = "get_agent"
        /\ state.customer = request[r].customer /\ state.agent = request[r].agent
    BY RequestType DEF RequestState
  <2>2. {"get_agent"} \cap AfterAgent = {}
    BY DEF AfterAgent
  <2> QED
    BY <1>9, <2>1, <2>2, GateTracked DEF GetPlan, AfterGrant
<1>10. ASSUME NEW r \in Requests, CheckAgent(r) PROVE Tracked'
  <2> DEFINE state == [request[r] EXCEPT !.pc = "get_grant"]
  <2>1. /\ state.pc = "get_grant"
        /\ state.customer = request[r].customer /\ state.agent = request[r].agent
    BY RequestType DEF RequestState
  <2>2. agents[request[r].agent] = "active" => r \in sawActive
    BY <1>10 DEF Tracked, CheckAgent, Gate
  <2> QED
    BY <1>10, <2>1, <2>2, GateTracked DEF CheckAgent, AfterGrant
<1>11. ASSUME NEW r \in Requests, CheckGrant(r) PROVE Tracked'
  <2> DEFINE state == [request[r] EXCEPT !.pc = "limiter"]
  <2>1. /\ state.pc = "limiter"
        /\ state.customer = request[r].customer /\ state.agent = request[r].agent
    BY RequestType DEF RequestState
  <2>2. /\ r \in sawActive
        /\ Granted(request[r].customer, request[r].agent) => r \in sawGrant
    BY <1>11 DEF Tracked, CheckGrant, Gate, AfterAgent
  <2> QED
    BY <1>11, <2>1, <2>2, GateTracked DEF CheckGrant
<1>12. ASSUME NEW r \in Requests, RateLimit(r) PROVE Tracked'
  <2> DEFINE state == [request[r] EXCEPT !.pc = "quota", !.month = month]
  <2>1. /\ state.pc = "quota"
        /\ state.customer = request[r].customer /\ state.agent = request[r].agent
    BY RequestType DEF RequestState
  <2>2. PICK allowed \in BOOLEAN : Gate(r, "limiter", allowed, state)
    BY <1>12 DEF RateLimit
  <2>3. r \in sawActive \cap sawGrant
    BY <2>2 DEF Tracked, Gate, AfterAgent, AfterGrant
  <2> QED
    BY <2>1, <2>2, <2>3, GateTracked
<1>13. ASSUME NEW r \in Requests, CheckQuota(r) PROVE Tracked'
  <2> DEFINE state == [request[r] EXCEPT !.pc = "execute"]
  <2>1. /\ state.pc = "execute"
        /\ state.customer = request[r].customer /\ state.agent = request[r].agent
    BY RequestType DEF RequestState
  <2>2. r \in sawActive \cap sawGrant
    BY <1>13 DEF Tracked, CheckQuota, Gate, AfterAgent, AfterGrant
  <2> QED
    BY <1>13, <2>1, <2>2, GateTracked DEF CheckQuota
<1>14. ASSUME NEW r \in Requests, NEW l \in OutputLengths, Execute(r, l) PROVE Tracked'
  <2> DEFINE state == [request[r] EXCEPT !.pc = "record", !.output = l]
  <2>1. /\ state.pc = "record"
        /\ state.customer = request[r].customer /\ state.agent = request[r].agent
    BY RequestType DEF RequestState
  <2>2. r \in sawActive \cap sawGrant
    BY <1>14 DEF Tracked, Execute, Gate, AfterAgent, AfterGrant
  <2> QED
    BY <1>14, <2>1, <2>2, GateTracked DEF Execute
<1>15. ASSUME NEW r \in Requests, Stamp(r) PROVE Tracked'
  <2> DEFINE state == [request[r] EXCEPT !.pc = "commit", !.stamp = month]
  <2>1. /\ state.pc = "commit"
        /\ state.customer = request[r].customer /\ state.agent = request[r].agent
    BY RequestType DEF RequestState
  <2>2. r \in sawActive \cap sawGrant
    BY <1>15 DEF Tracked, Stamp, Gate, AfterAgent, AfterGrant
  <2> QED
    BY <1>15, <2>1, <2>2, GateTracked DEF Stamp
<1>16. ASSUME NEW r \in Requests, Record(r) PROVE Tracked'
  BY <1>16, IdleType DEF TypeOK, Tracked, Record, adminVars, Granted
<1>17. ASSUME NEW r \in Requests, Fail(r) PROVE Tracked'
  BY <1>17, IdleType DEF TypeOK, Tracked, Fail, adminVars, Granted
<1>18. CASE NextMonth
  BY <1>18 DEF Tracked, NextMonth, adminVars, Granted
<1>19. CASE UNCHANGED vars
  BY <1>19 DEF Tracked, vars, Granted
<1> QED
  BY <1>1, <1>2, <1>3, <1>4, <1>5, <1>6, <1>7, <1>8, <1>9, <1>10, <1>11, <1>12, <1>13,
     <1>14, <1>15, <1>16, <1>17, <1>18, <1>19
  DEF Next, AdminWrite, ExecuteRun

\* execute_run calls the gateway for a customer only if the agent was active and
\* the customer granted at some time since the request came in, however
\* administrators change agents and grants between its two reads.
THEOREM EntitledRunsOnly == Spec => []RunsAreEntitled
<1>1. Init => TypeOK /\ Located /\ Tracked
  BY InitTypes, IdleType DEF Init, Tracked
<1>2. TypeOK /\ Located /\ Tracked /\ [Next]_vars => TypeOK' /\ Located' /\ Tracked'
  BY StepTypes, StepTracked
<1>3. TypeOK /\ Tracked => RunsAreEntitled
  BY DEF Tracked, RunsAreEntitled, AfterAgent, AfterGrant
<1> QED
  BY <1>1, <1>2, <1>3, PTL DEF Spec

-----------------------------------------------------------------------------
(* Quota.                                                                  *)

LEMMA Counted ==
  ASSUME NEW S \in SUBSET Requests
  PROVE  /\ IsFiniteSet(S) /\ Cardinality(S) \in Nat
         /\ Cardinality(Requests) \in Nat
         /\ Cardinality(S) <= Cardinality(Requests)
  BY RequestsAssumption, FS_Subset, FS_CardinalityType

\* LargestRun is what its name says.
LEMMA LargestRunBounds ==
  /\ LargestRun \in Nat
  /\ \A l \in MessageLengths, o \in OutputLengths : Tokens(l) + Tokens(o) <= LargestRun
<1> DEFINE runs == {Tokens(l) + Tokens(o) : l \in MessageLengths, o \in OutputLengths}
<1>1. PICK message \in MessageLengths : \A l \in MessageLengths : l <= message
  BY LengthsAssumption
<1>2. PICK output \in OutputLengths : \A o \in OutputLengths : o <= output
  BY LengthsAssumption
<1>3. \A l \in MessageLengths : Tokens(l) \in Nat /\ Tokens(l) <= Tokens(message)
  <2>1. \A l \in MessageLengths : l \in Nat /\ l <= message
    BY <1>1, LengthsAssumption
  <2> QED
    BY <2>1 DEF Tokens
<1>4. \A o \in OutputLengths : Tokens(o) \in Nat /\ Tokens(o) <= Tokens(output)
  <2>1. \A o \in OutputLengths : o \in Nat /\ o <= output
    BY <1>2, LengthsAssumption
  <2> QED
    BY <2>1 DEF Tokens
<1>5. runs \subseteq Nat
  BY <1>3, <1>4
<1>6. \A l \in MessageLengths, o \in OutputLengths :
        Tokens(l) + Tokens(o) <= Tokens(message) + Tokens(output)
  BY <1>3, <1>4
<1>7. \E n \in runs : \A k \in runs : k <= n
  BY <1>6
<1>8. LargestRun \in runs /\ \A k \in runs : k <= LargestRun
  BY <1>7 DEF LargestRun
<1> QED
  BY <1>5, <1>8

\* Room for n runs is within room for k of them.
LEMMA RoomGrows ==
  ASSUME NEW n \in Nat, NEW k \in Nat, NEW size \in Nat, n <= k
  PROVE  n * size \in Nat /\ k * size \in Nat /\ n * size <= k * size
  OBVIOUS

\* A run that is no longer expected gives its room back.
LEMMA RoomReturns ==
  ASSUME NEW n \in Nat, NEW k \in Nat, NEW size \in Nat, n <= k - 1
  PROVE  n * size \in Nat /\ k * size \in Nat /\ n * size + size <= k * size
  OBVIOUS

\* The room that requests of a set take, in runs and in tokens.
LEMMA Room ==
  ASSUME NEW S \in SUBSET Requests
  PROVE  /\ Cardinality(S) * LargestRun \in Nat
         /\ Cardinality(Requests) * LargestRun \in Nat
         /\ Cardinality(S) * LargestRun <= Cardinality(Requests) * LargestRun
  BY Counted, LargestRunBounds, RoomGrows

\* Requests that leave the set give their room back.
LEMMA FewerUnjudged ==
  ASSUME NEW m \in Months, Unjudged(m)' \subseteq Unjudged(m)
  PROVE  /\ Cardinality(Unjudged(m)') \in Nat /\ Cardinality(Unjudged(m)) \in Nat
         /\ Cardinality(Unjudged(m)') <= Cardinality(Unjudged(m))
         /\ Cardinality(Unjudged(m)') * LargestRun \in Nat
         /\ Cardinality(Unjudged(m)) * LargestRun \in Nat
         /\ Cardinality(Unjudged(m)') * LargestRun <= Cardinality(Unjudged(m)) * LargestRun
<1>1. Unjudged(m) \in SUBSET Requests /\ Unjudged(m)' \in SUBSET Requests
  BY DEF Unjudged
<1>2. /\ Cardinality(Unjudged(m)') \in Nat /\ Cardinality(Unjudged(m)) \in Nat
      /\ Cardinality(Unjudged(m)') <= Cardinality(Unjudged(m))
  BY <1>1, Counted, FS_Subset
<1> QED
  BY <1>2, LargestRunBounds, RoomGrows

LEMMA Kept ==
  ASSUME TypeOK, Reserved, UNCHANGED <<usage, month>>,
         \A m \in Months : Unjudged(m)' \subseteq Unjudged(m)
  PROVE  Reserved'
<1>1. MessagesReserved'
  <2> SUFFICES ASSUME NEW m \in Months
               PROVE  IF m <= month
                      THEN usage[m].messages + Cardinality(Unjudged(m)')
                             <= MaxMessages - 1 + Cardinality(Requests)
                      ELSE usage[m].messages = 0
    BY DEF MessagesReserved
  <2>1. usage[m].messages \in Nat
    BY DEF TypeOK
  <2> QED
    BY <2>1, FewerUnjudged, Counted, LimitsAssumption DEF Reserved, MessagesReserved
<1>2. TokensReserved'
  <2> SUFFICES ASSUME NEW m \in Months
               PROVE  IF m <= month
                      THEN usage[m].tokens + Cardinality(Unjudged(m)') * LargestRun
                             <= MaxTokenCap - 2 + Cardinality(Requests) * LargestRun
                      ELSE usage[m].tokens = 0
    BY DEF TokensReserved
  <2>1. usage[m].tokens \in Nat
    BY DEF TypeOK
  <2> QED
    BY <2>1, FewerUnjudged, Room, LimitsAssumption DEF Reserved, TokensReserved
<1> QED
  BY <1>1, <1>2 DEF Reserved

\* A request that changes only its own state, and gains no right to add.
LEMMA Leaves ==
  ASSUME TypeOK, NEW r \in Requests, NEW state, request' = [request EXCEPT ![r] = state],
         month' = month, NEW m \in Months, MayAdd(state, m) => MayAdd(request[r], m)
  PROVE  Unjudged(m)' \subseteq Unjudged(m)
<1> SUFFICES ASSUME NEW q \in Requests, MayAdd(request'[q], m) PROVE MayAdd(request[q], m)
  BY DEF Unjudged, MayAdd
<1> QED
  BY DEF TypeOK

LEMMA GateKept ==
  ASSUME TypeOK, Reserved, Stamped, NEW r \in Requests, NEW call, NEW passes, NEW state,
         Gate(r, call, passes, state),
         passes => \A m \in Months : MayAdd(state, m) => MayAdd(request[r], m),
         state.pc = "commit" => state.stamp <= month
  PROVE  Reserved' /\ Stamped'
<1> DEFINE new == IF passes THEN state ELSE IdleRequest
<1>1. request' = [request EXCEPT ![r] = new] /\ UNCHANGED <<usage, month>>
  BY DEF Gate
<1>2. \A m \in Months : MayAdd(new, m) => MayAdd(request[r], m)
  BY IdleType DEF MayAdd
<1>3. new.pc = "commit" => new.stamp <= month
  BY IdleType
<1> HIDE DEF new
<1>4. \A m \in Months : Unjudged(m)' \subseteq Unjudged(m)
  BY <1>1, <1>2, Leaves
<1>5. Reserved'
  BY <1>1, <1>4, Kept
<1>6. Stamped'
  BY <1>1, <1>3 DEF TypeOK, Stamped
<1> QED
  BY <1>5, <1>6

\* A step that leaves the requests, the usage and the month alone.
LEMMA AdminKept ==
  ASSUME TypeOK, Reserved, Stamped, UNCHANGED <<usage, month, request>>
  PROVE  Reserved' /\ Stamped'
<1>1. \A m \in Months : Unjudged(m)' \subseteq Unjudged(m)
  BY DEF Unjudged, MayAdd
<1> QED
  BY <1>1, Kept DEF Stamped

LEMMA QuotaKept ==
  ASSUME TypeOK, Reserved, Stamped, NEW r \in Requests, CheckQuota(r)
  PROVE  Reserved' /\ Stamped'
<1> DEFINE state == [request[r] EXCEPT !.pc = "execute"]
           passes == AllowRequest(request[r].limits, SummarizeTenantMonth(request[r].month),
                                  2 * Tokens(request[r].length))
<1>1. state.pc = "execute" /\ request[r].pc = "quota" /\ Gate(r, "quota", passes, state)
  BY DEF TypeOK, CheckQuota, Gate
<1>2. CASE request[r].month # month \/ ~passes
  <2>1. passes => \A m \in Months : MayAdd(state, m) => MayAdd(request[r], m)
    BY <1>1, <1>2 DEF MayAdd
  <2> QED
    BY <1>1, <2>1, GateKept
<1>3. CASE request[r].month = month /\ passes
  <2>1. request' = [request EXCEPT ![r] = state] /\ UNCHANGED <<usage, month>>
    BY <1>1, <1>3 DEF Gate
  <2>2. usage[month].messages <= MaxMessages - 1 /\ usage[month].tokens <= MaxTokenCap - 2
    <3>1. /\ usage[month].messages + 1 <= request[r].limits.monthly_messages
          /\ usage[month].tokens + 2 * Tokens(request[r].length)
               <= request[r].limits.monthly_token_cap
      BY <1>3 DEF AllowRequest, SummarizeTenantMonth
    <3>2. /\ request[r].limits.monthly_messages \in Int
          /\ request[r].limits.monthly_messages <= MaxMessages
          /\ request[r].limits.monthly_token_cap \in Int
          /\ request[r].limits.monthly_token_cap <= MaxTokenCap
      <4>1. request[r].limits \in LimitChoices \cup {NoLimits}
        BY DEF TypeOK
      <4> QED
        BY <4>1, LimitsAssumption DEF NoLimits, Limits
    <3>3. /\ usage[month].messages \in Nat /\ usage[month].tokens \in Nat
          /\ request[r].length \in Nat
      BY DEF TypeOK
    <3>4. Tokens(request[r].length) \in Nat /\ Tokens(request[r].length) >= 1
      BY <3>3, TokensType
    <3> QED
      BY <3>1, <3>2, <3>3, <3>4, LimitsAssumption
  <2> HIDE DEF passes
  <2>3. ASSUME NEW m \in Months, m # month PROVE Unjudged(m)' \subseteq Unjudged(m)
    <3>1. ~MayAdd(state, m)
      BY <1>1, <2>3 DEF MayAdd
    <3> QED
      BY <2>1, <3>1, Leaves
  <2> HIDE DEF state
  <2>4. MessagesReserved'
    <3> SUFFICES ASSUME NEW m \in Months
                 PROVE  IF m <= month
                        THEN usage[m].messages + Cardinality(Unjudged(m)')
                               <= MaxMessages - 1 + Cardinality(Requests)
                        ELSE usage[m].messages = 0
      BY <2>1 DEF MessagesReserved
    <3>1. usage[m].messages \in Nat /\ Unjudged(m)' \in SUBSET Requests
      BY DEF TypeOK, Unjudged
    <3>2. CASE m = month
      <4>1. m <= month
        BY <3>2, MonthType
      <4> QED
        BY <2>2, <3>1, <3>2, <4>1, Counted, LimitsAssumption
    <3>3. CASE m # month
      BY <2>3, <3>1, <3>3, FewerUnjudged, Counted, LimitsAssumption DEF Reserved, MessagesReserved
    <3> QED
      BY <3>2, <3>3
  <2>5. TokensReserved'
    <3> SUFFICES ASSUME NEW m \in Months
                 PROVE  IF m <= month
                        THEN usage[m].tokens + Cardinality(Unjudged(m)') * LargestRun
                               <= MaxTokenCap - 2 + Cardinality(Requests) * LargestRun
                        ELSE usage[m].tokens = 0
      BY <2>1 DEF TokensReserved
    <3>1. usage[m].tokens \in Nat /\ Unjudged(m)' \in SUBSET Requests
      BY DEF TypeOK, Unjudged
    <3>2. CASE m = month
      <4>1. m <= month
        BY <3>2, MonthType
      <4> QED
        BY <2>2, <3>1, <3>2, <4>1, Room, LimitsAssumption
    <3>3. CASE m # month
      BY <2>3, <3>1, <3>3, FewerUnjudged, Room, LimitsAssumption DEF Reserved, TokensReserved
    <3> QED
      BY <3>2, <3>3
  <2>6. Stamped'
    BY <1>1, <2>1 DEF TypeOK, Stamped
  <2> QED
    BY <2>4, <2>5, <2>6 DEF Reserved
<1> QED
  BY <1>2, <1>3

LEMMA RecordKept ==
  ASSUME TypeOK, Located, Reserved, Stamped, NEW r \in Requests, Record(r)
  PROVE  Reserved' /\ Stamped'
<1>0. PICK s \in Months : s = request[r].stamp
  BY DEF TypeOK
<1>1. PICK spent \in Nat : spent = Tokens(request[r].length) + Tokens(request[r].output)
  <2>1. request[r].length \in Nat /\ request[r].output \in Nat
    BY DEF TypeOK
  <2> QED
    BY <2>1, TokensType
<1>2. spent <= LargestRun /\ LargestRun \in Nat
  BY <1>1, LargestRunBounds DEF Record, Located, Placed
<1>3. /\ s <= month /\ request[r].pc = "commit"
      /\ request' = [request EXCEPT ![r] = IdleRequest] /\ month' = month
      /\ usage'[s].messages = usage[s].messages + 1
      /\ usage'[s].tokens = usage[s].tokens + spent
      /\ \A m \in Months \ {s} : usage'[m] = usage[m]
  <2>1. request[r].pc = "commit" /\ s <= month
    BY <1>0 DEF TypeOK, Record, Stamped
  <2>2. usage \in [Months -> [messages : Nat, tokens : Nat]]
    BY DEF TypeOK
  <2> QED
    BY <1>0, <1>1, <2>1, <2>2 DEF Record
<1>4. \A m \in Months : Unjudged(m)' \subseteq Unjudged(m)
  BY <1>3, IdleType, Leaves DEF MayAdd
<1>5. /\ Cardinality(Unjudged(s)) \in Nat /\ Cardinality(Unjudged(s)') \in Nat
      /\ Cardinality(Unjudged(s)') <= Cardinality(Unjudged(s)) - 1
  <2>1. r \in Unjudged(s) /\ r \notin Unjudged(s)'
    BY <1>0, <1>3, IdleType DEF TypeOK, Unjudged, MayAdd
  <2>2. IsFiniteSet(Unjudged(s)) /\ Cardinality(Unjudged(s)) \in Nat
    BY Counted DEF Unjudged
  <2>3. /\ IsFiniteSet(Unjudged(s) \ {r})
        /\ Cardinality(Unjudged(s) \ {r}) = Cardinality(Unjudged(s)) - 1
    BY <2>1, <2>2, FS_RemoveElement
  <2>4. Unjudged(s)' \subseteq Unjudged(s) \ {r}
    BY <1>4, <2>1
  <2> QED
    BY <2>2, <2>3, <2>4, FS_Subset, FS_CardinalityType
<1>6. MessagesReserved'
  <2> SUFFICES ASSUME NEW m \in Months
               PROVE  IF m <= month
                      THEN usage'[m].messages + Cardinality(Unjudged(m)')
                             <= MaxMessages - 1 + Cardinality(Requests)
                      ELSE usage'[m].messages = 0
    BY <1>3 DEF MessagesReserved
  <2>1. usage[m].messages \in Nat
    BY DEF TypeOK
  <2>2. CASE m = s
    BY <1>3, <1>5, <2>1, <2>2, Counted, LimitsAssumption DEF Reserved, MessagesReserved
  <2>3. CASE m # s
    BY <1>3, <1>4, <2>1, <2>3, FewerUnjudged, Counted, LimitsAssumption DEF Reserved, MessagesReserved
  <2> QED
    BY <2>2, <2>3
<1>7. TokensReserved'
  <2> SUFFICES ASSUME NEW m \in Months
               PROVE  IF m <= month
                      THEN usage'[m].tokens + Cardinality(Unjudged(m)') * LargestRun
                             <= MaxTokenCap - 2 + Cardinality(Requests) * LargestRun
                      ELSE usage'[m].tokens = 0
    BY <1>3 DEF TokensReserved
  <2>1. usage[m].tokens \in Nat
    BY DEF TypeOK
  <2>2. CASE m = s
    <3>1. /\ Cardinality(Unjudged(s)') * LargestRun \in Nat
          /\ Cardinality(Unjudged(s)) * LargestRun \in Nat
          /\ Cardinality(Unjudged(s)') * LargestRun + LargestRun
               <= Cardinality(Unjudged(s)) * LargestRun
      BY <1>2, <1>5, RoomReturns
    <3>2. usage[s].tokens + Cardinality(Unjudged(s)) * LargestRun
            <= MaxTokenCap - 2 + Cardinality(Requests) * LargestRun
      BY <1>3 DEF Reserved, TokensReserved
    <3>3. Cardinality(Requests) * LargestRun \in Nat
      BY Room
    <3> QED
      BY <1>2, <1>3, <2>1, <2>2, <3>1, <3>2, <3>3, LimitsAssumption
  <2>3. CASE m # s
    BY <1>3, <1>4, <2>1, <2>3, FewerUnjudged, Room, LimitsAssumption DEF Reserved, TokensReserved
  <2> QED
    BY <2>2, <2>3
<1>8. Stamped'
  BY <1>3, IdleType DEF TypeOK, Stamped
<1> QED
  BY <1>6, <1>7, <1>8 DEF Reserved

LEMMA MonthKept ==
  ASSUME TypeOK, Reserved, Stamped, NextMonth
  PROVE  Reserved' /\ Stamped'
<1>1. UNCHANGED <<usage, request>> /\ month' = month + 1 /\ month \in Nat
  <2>1. month \in Months
    BY DEF TypeOK
  <2> QED
    BY <2>1, MonthType DEF NextMonth
<1>2. ASSUME NEW m \in Months PROVE Unjudged(m)' \in SUBSET Requests /\ m \in Nat
  BY MonthType DEF Unjudged
<1>3. ASSUME NEW m \in Months, m <= month PROVE Unjudged(m)' \subseteq Unjudged(m)
  BY <1>1, <1>2, <1>3 DEF Unjudged, MayAdd
<1>4. MessagesReserved'
  <2> SUFFICES ASSUME NEW m \in Months
               PROVE  IF m <= month + 1
                      THEN usage[m].messages + Cardinality(Unjudged(m)')
                             <= MaxMessages - 1 + Cardinality(Requests)
                      ELSE usage[m].messages = 0
    BY <1>1 DEF MessagesReserved
  <2>1. usage[m].messages \in Nat
    BY DEF TypeOK
  <2>2. CASE m <= month
    BY <1>1, <1>2, <1>3, <2>1, <2>2, FewerUnjudged, Counted, LimitsAssumption
    DEF Reserved, MessagesReserved
  <2>3. CASE ~(m <= month)
    BY <1>1, <1>2, <2>1, <2>3, Counted, LimitsAssumption DEF Reserved, MessagesReserved
  <2> QED
    BY <2>2, <2>3
<1>5. TokensReserved'
  <2> SUFFICES ASSUME NEW m \in Months
               PROVE  IF m <= month + 1
                      THEN usage[m].tokens + Cardinality(Unjudged(m)') * LargestRun
                             <= MaxTokenCap - 2 + Cardinality(Requests) * LargestRun
                      ELSE usage[m].tokens = 0
    BY <1>1 DEF TokensReserved
  <2>1. usage[m].tokens \in Nat
    BY DEF TypeOK
  <2>2. CASE m <= month
    BY <1>1, <1>2, <1>3, <2>1, <2>2, FewerUnjudged, Room, LimitsAssumption
    DEF Reserved, TokensReserved
  <2>3. CASE ~(m <= month)
    BY <1>1, <1>2, <2>1, <2>3, Room, LimitsAssumption DEF Reserved, TokensReserved
  <2> QED
    BY <2>2, <2>3
<1>6. Stamped'
  <2> SUFFICES ASSUME NEW r \in Requests, request[r].pc = "commit"
               PROVE  request[r].stamp <= month + 1
    BY <1>1 DEF Stamped
  <2>1. request[r].stamp \in Months /\ request[r].stamp <= month
    BY DEF TypeOK, Stamped
  <2> QED
    BY <1>1, <2>1, MonthType
<1> QED
  BY <1>4, <1>5, <1>6 DEF Reserved

LEMMA StepReserved ==
  ASSUME TypeOK, Located, Reserved, Stamped, [Next]_vars
  PROVE  Reserved' /\ Stamped'
<1>1. CASE AdminWrite
  BY <1>1, AdminKept
  DEF AdminWrite, UpsertTenant, UpsertPlan, UpsertTenantAgent, GrantCustomerAgent,
      RevokeCustomerAgent, ApplyMapping
<1>2. ASSUME NEW r \in Requests, NEW c \in Customers, NEW a \in Agents,
             NEW l \in MessageLengths, Arrive(r, c, a, l)
      PROVE  Reserved' /\ Stamped'
  <2> DEFINE state == [IdleRequest EXCEPT !.pc = "get_tenant", !.customer = c,
                                          !.agent = a, !.length = l]
  <2>1. state.pc = "get_tenant"
    BY DEF IdleRequest
  <2>2. request' = [request EXCEPT ![r] = state] /\ UNCHANGED <<usage, month>>
    BY <1>2 DEF Arrive
  <2> HIDE DEF state
  <2>3. \A m \in Months : Unjudged(m)' \subseteq Unjudged(m)
    BY <2>1, <2>2, Leaves DEF MayAdd
  <2>4. Stamped'
    BY <2>1, <2>2 DEF TypeOK, Stamped
  <2> QED
    BY <2>2, <2>3, <2>4, Kept
<1>3. ASSUME NEW r \in Requests, GetTenant(r) PROVE Reserved' /\ Stamped'
  <2> DEFINE state == [request[r] EXCEPT !.pc = "get_plan", !.plan = tenant.plan]
  <2>1. state.pc = "get_plan"
    BY DEF TypeOK
  <2>2. \A m \in Months : ~MayAdd(state, m)
    BY <2>1 DEF MayAdd
  <2> QED
    BY <1>3, <2>1, <2>2, GateKept DEF GetTenant
<1>4. ASSUME NEW r \in Requests, GetPlan(r) PROVE Reserved' /\ Stamped'
  <2> DEFINE state == [request[r] EXCEPT !.pc = "get_agent", !.limits = plans[request[r].plan].limits]
  <2>1. state.pc = "get_agent"
    BY DEF TypeOK
  <2>2. \A m \in Months : ~MayAdd(state, m)
    BY <2>1 DEF MayAdd
  <2> QED
    BY <1>4, <2>1, <2>2, GateKept DEF GetPlan
<1>5. ASSUME NEW r \in Requests, CheckAgent(r) PROVE Reserved' /\ Stamped'
  <2> DEFINE state == [request[r] EXCEPT !.pc = "get_grant"]
  <2>1. state.pc = "get_grant"
    BY DEF TypeOK
  <2>2. \A m \in Months : ~MayAdd(state, m)
    BY <2>1 DEF MayAdd
  <2> QED
    BY <1>5, <2>1, <2>2, GateKept DEF CheckAgent
<1>6. ASSUME NEW r \in Requests, CheckGrant(r) PROVE Reserved' /\ Stamped'
  <2> DEFINE state == [request[r] EXCEPT !.pc = "limiter"]
  <2>1. state.pc = "limiter"
    BY DEF TypeOK
  <2>2. \A m \in Months : ~MayAdd(state, m)
    BY <2>1 DEF MayAdd
  <2> QED
    BY <1>6, <2>1, <2>2, GateKept DEF CheckGrant
<1>7. ASSUME NEW r \in Requests, RateLimit(r) PROVE Reserved' /\ Stamped'
  <2> DEFINE state == [request[r] EXCEPT !.pc = "quota", !.month = month]
  <2>1. state.pc = "quota" /\ state.month = month
    BY DEF TypeOK
  <2>2. \A m \in Months : ~MayAdd(state, m)
    BY <2>1 DEF MayAdd
  <2>3. PICK allowed \in BOOLEAN : Gate(r, "limiter", allowed, state)
    BY <1>7 DEF RateLimit
  <2> QED
    BY <2>1, <2>2, <2>3, GateKept
<1>8. ASSUME NEW r \in Requests, CheckQuota(r) PROVE Reserved' /\ Stamped'
  BY <1>8, QuotaKept
<1>9. ASSUME NEW r \in Requests, NEW l \in OutputLengths, Execute(r, l)
      PROVE  Reserved' /\ Stamped'
  <2> DEFINE state == [request[r] EXCEPT !.pc = "record", !.output = l]
  <2>1. state.pc = "record" /\ request[r].pc = "execute"
    BY <1>9 DEF TypeOK, Execute, Gate
  <2>2. \A m \in Months : MayAdd(state, m) => MayAdd(request[r], m)
    BY <2>1 DEF MayAdd
  <2> QED
    BY <1>9, <2>1, <2>2, GateKept DEF Execute
<1>10. ASSUME NEW r \in Requests, Stamp(r) PROVE Reserved' /\ Stamped'
  <2> DEFINE state == [request[r] EXCEPT !.pc = "commit", !.stamp = month]
  <2>1. state.pc = "commit" /\ state.stamp = month /\ request[r].pc = "record"
    BY <1>10 DEF TypeOK, Stamp, Gate
  <2>2. \A m \in Months : MayAdd(state, m) => MayAdd(request[r], m)
    BY <2>1 DEF MayAdd
  <2>3. month \in Months
    BY DEF TypeOK
  <2>4. month <= month
    BY <2>3, MonthType
  <2> QED
    BY <1>10, <2>1, <2>2, <2>4, GateKept DEF Stamp
<1>11. ASSUME NEW r \in Requests, Record(r) PROVE Reserved' /\ Stamped'
  BY <1>11, RecordKept
<1>12. ASSUME NEW r \in Requests, Fail(r) PROVE Reserved' /\ Stamped'
  <2>1. request' = [request EXCEPT ![r] = IdleRequest] /\ UNCHANGED <<usage, month>>
    BY <1>12 DEF Fail
  <2>2. \A m \in Months : Unjudged(m)' \subseteq Unjudged(m)
    BY <2>1, IdleType, Leaves DEF MayAdd
  <2>3. Stamped'
    BY <2>1, IdleType DEF TypeOK, Stamped
  <2> QED
    BY <2>1, <2>2, <2>3, Kept
<1>13. CASE NextMonth
  BY <1>13, MonthKept
<1>14. CASE UNCHANGED vars
  BY <1>14, AdminKept DEF vars
<1> QED
  BY <1>1, <1>2, <1>3, <1>4, <1>5, <1>6, <1>7, <1>8, <1>9, <1>10, <1>11, <1>12, <1>13, <1>14
  DEF Next, ExecuteRun

LEMMA InitReserved == Init => Reserved /\ Stamped
<1> SUFFICES ASSUME Init PROVE Reserved /\ Stamped
  OBVIOUS
<1>1. \A m \in Months : usage[m] = NoUsage /\ Unjudged(m) \in SUBSET Requests
  BY DEF Init, Unjudged
<1>2. Reserved
  <2>1. MessagesReserved
    BY <1>1, Counted, LimitsAssumption DEF MessagesReserved, NoUsage
  <2>2. TokensReserved
    BY <1>1, Room, LimitsAssumption DEF TokensReserved, NoUsage
  <2> QED
    BY <2>1, <2>2 DEF Reserved
<1>3. Stamped
  BY IdleType DEF Init, Stamped
<1> QED
  BY <1>2, <1>3

LEMMA ReservedInvariant == Spec => [](TypeOK /\ Reserved)
<1>1. Init => TypeOK /\ Located /\ Reserved /\ Stamped
  BY InitTypes, InitReserved
<1>2. TypeOK /\ Located /\ Reserved /\ Stamped /\ [Next]_vars
        => TypeOK' /\ Located' /\ Reserved' /\ Stamped'
  BY StepTypes, StepReserved
<1> QED
  BY <1>1, <1>2, PTL DEF Spec

\* However requests overlap between summing the usage and recording the run,
\* however plans change and wherever the month turns in between, a month takes in
\* at most one run for each other request thread above the highest
\* monthly_messages.
THEOREM MessagesAreBounded == Spec => []MessagesBound
<1>1. TypeOK /\ Reserved => MessagesBound
  <2> SUFFICES ASSUME TypeOK, Reserved, NEW m \in Months
               PROVE  usage[m].messages <= MaxMessages - 1 + Cardinality(Requests)
    BY DEF MessagesBound
  <2>1. usage[m].messages \in Nat /\ Unjudged(m) \in SUBSET Requests
    BY DEF TypeOK, Unjudged
  <2> QED
    BY <2>1, Counted, LimitsAssumption DEF Reserved, MessagesReserved
<1> QED
  BY <1>1, ReservedInvariant, PTL

\* Under the same races, and although the estimate that execute_run judges a
\* request by knows nothing of the length of the answer, the tokens recorded for a
\* month exceed the highest monthly_token_cap by less than the largest run for
\* each request thread.
THEOREM TokensAreBounded == Spec => []TokensBound
<1>1. TypeOK /\ Reserved => TokensBound
  <2> SUFFICES ASSUME TypeOK, Reserved, NEW m \in Months
               PROVE  usage[m].tokens <= MaxTokenCap - 2 + Cardinality(Requests) * LargestRun
    BY DEF TokensBound
  <2>1. usage[m].tokens \in Nat /\ Unjudged(m) \in SUBSET Requests
    BY DEF TypeOK, Unjudged
  <2> QED
    BY <2>1, Room, LimitsAssumption DEF Reserved, TokensReserved
<1> QED
  BY <1>1, ReservedInvariant, PTL

=============================================================================
