------------------------------- MODULE Router -------------------------------
(***************************************************************************)
(* LLMRouter (core/router.py): the loop that serves one chat turn by       *)
(* trying model routes in order, shared by every turn of the API process.  *)
(*                                                                         *)
(* The process is one asyncio loop: a turn runs without interference from  *)
(* one await to the next, so every action below is the code between two    *)
(* suspension points.  Releasing a generation slot and handling the result *)
(* of the call are one step, because _finish_generation takes a lock that  *)
(* is never held across a suspension.                                      *)
(*                                                                         *)
(* Scores and the prefer_* strategies only order the eligible routes, so a *)
(* turn keeps the set of routes it has still to try and takes any of them  *)
(* next: every order the scoring can produce is among those explored.      *)
(***************************************************************************)
EXTENDS Naturals, FiniteSets

CONSTANTS
  Turns,          \* slots for concurrent chat turns
  Configured,     \* routes of llm/profiles.json
  Synth,          \* routes the lane resolver may build from the catalog
  Cloud,          \* routes with cost_tier # "local"
  FreeTier,       \* aggregator ":free" routes
  Retired,        \* routes with deployment_status "disabled"
  ToolRoutes,     \* routes with reliable_tool_calling
  Primary,        \* routes whose provider is the router's primary
  Gated,          \* routes whose provider_budget_id has a ProviderBudgetGate
  PoliciesOf,     \* route -> its allowed_response_policies
  Requests,       \* what the orchestrator may ask of a turn
  Strategies,     \* routing strategies the operator switches between
  ErrorThreshold, NormalLimit, HardLimit, MaxLocal, MaxCloud,
  None            \* no route

Routes == Configured \cup Synth

ASSUME RouterAssumption ==
  /\ IsFiniteSet(Turns)
  /\ Synth \subseteq Cloud /\ Cloud \subseteq Routes
  /\ Primary \subseteq Routes \ Cloud
  /\ None \notin Routes
  /\ ErrorThreshold \in Nat \ {0}
  /\ NormalLimit \in Nat /\ HardLimit \in Nat
  /\ MaxLocal \in Nat /\ MaxCloud \in Nat
  /\ Requests \subseteq [kind: {"chat", "stream"}, cloudAllowed: BOOLEAN,
                         policy: STRING, eligible: BOOLEAN,
                         force: BOOLEAN, tools: BOOLEAN]
  /\ Strategies \subseteq {"best_value", "prefer_local", "prefer_cloud_quality",
                           "local_only", "cloud_only"}
  /\ Requests # {} /\ Strategies # {}

VARIABLES
  pc,             \* where a turn is
  req,            \* its request
  todo,           \* routes it has still to try
  route,          \* the route it is trying
  sent,           \* the route whose text the caller has received, or None
  enabled,        \* routes the operator has enabled
  strategy,       \* routing_strategy
  routeErr,       \* _route_error_count, saturated at ErrorThreshold
  routeOpen,      \* _route_breaker_open
  errCount,       \* _error_count, saturated at ErrorThreshold
  breaker,        \* _breaker_open
  activeTotal, activeLocal, activeCloud

turnVars   == <<pc, req, todo, route, sent>>
adminVars  == <<enabled, strategy>>
errorVars  == <<routeErr, routeOpen, errCount, breaker>>
slotVars   == <<activeTotal, activeLocal, activeCloud>>
vars       == <<turnVars, adminVars, errorVars, slotVars>>

\* "local" and "cloud" are the points at which a turn holds a slot and waits
\* on a provider; "spend" holds a slot and waits on the budget gate.
PCs == {"idle", "start", "probe", "order", "next", "health", "slot",
        "local", "spend", "cloud", "answered", "degraded", "raised", "cancelled"}
Ended == {"answered", "degraded", "raised", "cancelled"}
Holding == {"local", "spend", "cloud"}

Min2(a, b) == IF a < b THEN a ELSE b
Saturate(n) == IF n < ErrorThreshold THEN n + 1 ELSE ErrorThreshold

Init ==
  /\ pc = [t \in Turns |-> "idle"]
  /\ req \in [Turns -> Requests]
  /\ todo = [t \in Turns |-> {}]
  /\ strategy \in Strategies
  /\ route = [t \in Turns |-> None]
  /\ sent = [t \in Turns |-> None]
  /\ enabled \in SUBSET Routes      \* enabled_by_default of each profile
  /\ routeErr = [r \in Routes |-> 0]
  /\ routeOpen = {}
  /\ errCount = 0
  /\ breaker = FALSE
  /\ activeTotal = 0 /\ activeLocal = 0 /\ activeCloud = 0
-----------------------------------------------------------------------------
(* Which routes a turn may use *)

TemporarilyBlocked(r) == r \in routeOpen \/ (breaker /\ r \in Primary)

RouteAllowed(r, q) ==
  /\ r \notin FreeTier
  /\ r \notin Retired
  /\ r \in enabled
  /\ r \in Cloud => q.cloudAllowed /\ q.policy \in PoliciesOf[r] \cup {"unset"}

\* Mutant: the selection gate forgets that the context must be cloud eligible.
SelectableMutant(r, q, s) ==
  /\ r \notin FreeTier
  /\ ~(s = "local_only" /\ r \in Cloud)
  /\ q.tools => r \in ToolRoutes
  /\ ~(s = "cloud_only" /\ r \notin Cloud)
  /\ q.force => r \in Cloud
  /\ ~TemporarilyBlocked(r)
  /\ RouteAllowed(r, q)

Selectable(r, q, s) ==
  /\ r \notin FreeTier
  /\ ~(s = "local_only" /\ r \in Cloud)
  /\ q.tools => r \in ToolRoutes
  /\ ~(s = "cloud_only" /\ r \notin Cloud)
  /\ q.force => r \in Cloud
  /\ r \in Cloud => q.eligible
  /\ ~TemporarilyBlocked(r)
  /\ RouteAllowed(r, q)

-----------------------------------------------------------------------------
(* Generation slots *)

\* Mutant: off by one in the cloud limit.
CanStartMutant(r) ==
  /\ activeTotal < Min2(NormalLimit, HardLimit)
  /\ IF r \in Cloud THEN activeCloud <= MaxCloud ELSE activeLocal < MaxLocal

CanStart(r) ==
  /\ activeTotal < Min2(NormalLimit, HardLimit)
  /\ IF r \in Cloud THEN activeCloud < MaxCloud ELSE activeLocal < MaxLocal

TakeSlot(r) ==
  /\ activeTotal' = activeTotal + 1
  /\ activeCloud' = IF r \in Cloud THEN activeCloud + 1 ELSE activeCloud
  /\ activeLocal' = IF r \in Cloud THEN activeLocal ELSE activeLocal + 1

Dec(n) == IF n = 0 THEN 0 ELSE n - 1

\* Mutant: the slot's class is forgotten when it is released.
FinishGenerationMutant(r) ==
  /\ activeTotal' = activeTotal - 1
  /\ activeCloud' = activeCloud - 1
  /\ UNCHANGED activeLocal

FinishGeneration(r) ==
  /\ activeTotal' = Dec(activeTotal)
  /\ activeCloud' = IF r \in Cloud THEN Dec(activeCloud) ELSE activeCloud
  /\ activeLocal' = IF r \in Cloud THEN activeLocal ELSE Dec(activeLocal)

RecordRouteFailure(r) ==
  LET n == Saturate(routeErr[r]) IN
  /\ errCount' = Saturate(errCount)
  /\ routeErr' = [routeErr EXCEPT ![r] = n]
  /\ routeOpen' = IF n >= ErrorThreshold THEN routeOpen \cup {r} ELSE routeOpen
  /\ breaker' = (breaker \/ (n >= ErrorThreshold /\ r \in Primary))

Goto(t, l) == pc' = [pc EXCEPT ![t] = l]

\* chat or stream_chat returns or raises: its locals are gone.
End(t, l) ==
  /\ pc' = [pc EXCEPT ![t] = l]
  /\ todo' = [todo EXCEPT ![t] = {}]
  /\ route' = [route EXCEPT ![t] = None]
-----------------------------------------------------------------------------
(* chat and stream_chat *)

\* A caller enters chat or stream_chat.
Begin(t) ==
  /\ pc[t] = "idle" \/ pc[t] \in Ended
  /\ \E q \in Requests : req' = [req EXCEPT ![t] = q]
  /\ Goto(t, "start")
  /\ sent' = [sent EXCEPT ![t] = None]
  /\ UNCHANGED <<todo, route, adminVars, errorVars, slotVars>>

\* _reset_breaker_if_healthy, up to its await: the probe runs only while the
\* breaker is open.
CheckBreaker(t) ==
  /\ pc[t] = "start"
  /\ Goto(t, IF breaker THEN "probe" ELSE "order")
  /\ UNCHANGED <<req, todo, route, sent, adminVars, errorVars, slotVars>>

\* Mutant: a healthy probe closes the breakers and keeps the error counts.
ProbeHealthyMutant(t) ==
  /\ pc[t] = "probe"
  /\ Goto(t, "order")
  /\ breaker' = FALSE
  /\ errCount' = 0
  /\ routeOpen' = routeOpen \ Primary
  /\ UNCHANGED <<req, todo, route, sent, routeErr, adminVars, slotVars>>

\* The primary's is_healthy() answers.
ProbeHealthy(t) ==
  /\ pc[t] = "probe"
  /\ Goto(t, "order")
  /\ breaker' = FALSE
  /\ errCount' = 0
  /\ routeOpen' = routeOpen \ Primary
  /\ routeErr' = [r \in Routes |-> IF r \in Primary THEN 0 ELSE routeErr[r]]
  /\ UNCHANGED <<req, todo, route, sent, adminVars, slotVars>>

ProbeUnhealthy(t) ==
  /\ pc[t] = "probe"
  /\ Goto(t, "order")
  /\ UNCHANGED <<req, todo, route, sent, adminVars, errorVars, slotVars>>

\* _ordered_routes: the configured routes and whatever the lane resolver adds,
\* all through one gate, less the local routes cached health says are cold.
OrderRoutes(t) ==
  /\ pc[t] = "order"
  /\ \E built \in SUBSET Synth, cold \in SUBSET (Routes \ Cloud) :
       todo' = [todo EXCEPT ![t] = {r \in (Configured \cup built) \ cold :
                                      Selectable(r, req[t], strategy)}]
  /\ Goto(t, "next")
  /\ UNCHANGED <<req, route, sent, adminVars, errorVars, slotVars>>

\* Mutant: a route that failed stays in the plan and is tried again.
NextRouteMutant(t) ==
  /\ pc[t] = "next"
  /\ todo[t] # {}
  /\ \E r \in todo[t] :
       /\ route' = [route EXCEPT ![t] = r]
       /\ Goto(t, IF r \in Cloud THEN "slot" ELSE "health")
  /\ UNCHANGED <<req, todo, sent, adminVars, errorVars, slotVars>>

\* The head of the for loop.
NextRoute(t) ==
  /\ pc[t] = "next"
  /\ todo[t] # {}
  /\ \E r \in todo[t] :
       /\ route' = [route EXCEPT ![t] = r]
       /\ todo' = [todo EXCEPT ![t] = @ \ {r}]
       /\ Goto(t, IF r \in Cloud THEN "slot" ELSE "health")
  /\ UNCHANGED <<req, sent, adminVars, errorVars, slotVars>>

\* No route served the turn.  Only stream_chat trips the breaker here.
Exhausted(t) ==
  /\ pc[t] = "next"
  /\ todo[t] = {}
  /\ End(t, "degraded")
  /\ breaker' = (breaker \/ (req[t].kind = "stream" /\ errCount >= ErrorThreshold))
  /\ UNCHANGED <<req, sent, routeErr, routeOpen, errCount,
                 adminVars, slotVars>>

\* _local_route_callable: the answer may come from the health cache, so it
\* tells nothing of the provider's state now.
LocalProbe(t) ==
  /\ pc[t] = "health"
  /\ \E up \in BOOLEAN : Goto(t, IF up THEN "slot" ELSE "next")
  /\ UNCHANGED <<req, todo, route, sent, adminVars, errorVars, slotVars>>

\* _try_start_generation admits the route; a cloud route's policy is checked
\* again before the turn waits on the budget gate.
StartGeneration(t) ==
  /\ pc[t] = "slot"
  /\ CanStart(route[t])
  /\ route[t] \in Cloud => RouteAllowed(route[t], req[t]) /\ route[t] \notin Gated
  /\ TakeSlot(route[t])
  /\ Goto(t, IF route[t] \in Cloud THEN "spend" ELSE "local")
  /\ UNCHANGED <<req, todo, route, sent, adminVars, errorVars>>

SlotRefused(t) ==
  /\ pc[t] = "slot"
  /\ ~CanStart(route[t])
  /\ Goto(t, "next")
  /\ UNCHANGED <<req, todo, route, sent, adminVars, errorVars, slotVars>>

\* The operator disabled the route since it was ordered: _cloud_spend_allowed
\* says no, and the slot just taken is given back.
SpendRefused(t) ==
  /\ pc[t] = "slot"
  /\ CanStart(route[t])
  /\ route[t] \in Cloud
  /\ ~RouteAllowed(route[t], req[t])
  /\ Goto(t, "next")
  /\ UNCHANGED <<req, todo, route, sent, adminVars, errorVars, slotVars>>

\* Mutant: a stream that already sent text falls back to the next route.
FailureMutant(t) ==
  /\ IF req[t].kind = "stream" /\ route[t] \in Cloud
     THEN End(t, "raised") /\ UNCHANGED errorVars
     ELSE /\ RecordRouteFailure(route[t])
          /\ Goto(t, "next") /\ UNCHANGED <<todo, route>>
  /\ UNCHANGED <<req, sent, adminVars>>

\* An exception reaches the loop.  chat records it and goes on; stream_chat
\* guards only its local branch, and there gives up once text has been sent.
Failure(t) ==
  /\ IF req[t].kind = "stream" /\ route[t] \in Cloud
     THEN End(t, "raised") /\ UNCHANGED errorVars
     ELSE /\ RecordRouteFailure(route[t])
          /\ IF sent[t] # None
             THEN End(t, "raised")
             ELSE Goto(t, "next") /\ UNCHANGED <<todo, route>>
  /\ UNCHANGED <<req, sent, adminVars>>

\* gate_for returns the provider's own gate, which has no reserve method: the
\* call raises AttributeError, and the slot just taken is given back.
SpendRaises(t) ==
  /\ pc[t] = "slot"
  /\ CanStart(route[t])
  /\ route[t] \in Cloud \cap Gated
  /\ RouteAllowed(route[t], req[t])
  /\ Failure(t)
  /\ UNCHANGED slotVars

\* A chunk of a local stream reaches the caller.
LocalChunk(t) ==
  /\ pc[t] = "local"
  /\ req[t].kind = "stream"
  /\ sent' = [sent EXCEPT ![t] = route[t]]
  /\ UNCHANGED <<pc, req, todo, route, adminVars, errorVars, slotVars>>

LocalDone(t) ==
  /\ pc[t] = "local"
  /\ FinishGeneration(route[t])
  /\ End(t, "answered")
  /\ sent' = IF req[t].kind = "chat" THEN [sent EXCEPT ![t] = route[t]] ELSE sent
  /\ UNCHANGED <<req, adminVars, errorVars>>

LocalFail(t) ==
  /\ pc[t] = "local"
  /\ FinishGeneration(route[t])
  /\ Failure(t)

\* The gate's reserve answers.
SpendDenied(t) ==
  /\ pc[t] = "spend"
  /\ FinishGeneration(route[t])
  /\ Goto(t, "next")
  /\ UNCHANGED <<req, todo, route, sent, adminVars, errorVars>>

SpendGranted(t) ==
  /\ pc[t] = "spend"
  /\ Goto(t, "cloud")
  /\ UNCHANGED <<req, todo, route, sent, adminVars, errorVars, slotVars>>

CloudDone(t) ==
  /\ pc[t] = "cloud"
  /\ FinishGeneration(route[t])
  /\ End(t, "answered")
  /\ sent' = [sent EXCEPT ![t] = route[t]]
  /\ UNCHANGED <<req, adminVars, errorVars>>

CloudFail(t) ==
  /\ pc[t] = "cloud"
  /\ FinishGeneration(route[t])
  /\ Failure(t)

\* Mutant: the slot is released after the call, not in a finally clause.
CancelMutant(t) ==
  /\ pc[t] \notin Ended \cup {"idle"}
  /\ End(t, "cancelled")
  /\ UNCHANGED <<req, sent, adminVars, errorVars, slotVars>>

\* The caller's task is cancelled (a client disconnect): CancelledError is not
\* an Exception, so only the slot's finally clause runs.
Cancel(t) ==
  /\ pc[t] \notin Ended \cup {"idle"}
  /\ IF pc[t] \in Holding THEN FinishGeneration(route[t]) ELSE UNCHANGED slotVars
  /\ End(t, "cancelled")
  /\ UNCHANGED <<req, sent, adminVars, errorVars>>

SetRouteEnabled(r) ==
  /\ enabled' = IF r \in enabled THEN enabled \ {r} ELSE enabled \cup {r}
  /\ UNCHANGED <<turnVars, strategy, errorVars, slotVars>>

SetRoutingStrategy(s) ==
  /\ strategy' = s
  /\ UNCHANGED <<turnVars, enabled, errorVars, slotVars>>
-----------------------------------------------------------------------------
Step(t) ==
  \/ CheckBreaker(t) \/ ProbeHealthy(t) \/ ProbeUnhealthy(t)
  \/ OrderRoutes(t) \/ NextRoute(t) \/ Exhausted(t)
  \/ LocalProbe(t) \/ StartGeneration(t) \/ SlotRefused(t)
  \/ SpendRefused(t) \/ SpendRaises(t)
  \/ LocalDone(t) \/ LocalFail(t)
  \/ SpendDenied(t) \/ SpendGranted(t)
  \/ CloudDone(t) \/ CloudFail(t)

Next ==
  \/ \E t \in Turns : Begin(t) \/ Step(t) \/ LocalChunk(t) \/ Cancel(t)
  \/ \E r \in Routes : SetRouteEnabled(r)
  \/ \E s \in Strategies : SetRoutingStrategy(s)

Spec == Init /\ [][Next]_vars

\* Every provider call ends (each provider sets a client timeout), and the
\* event loop runs every ready task.
FairSpec == Spec /\ \A t \in Turns : WF_vars(Step(t))
-----------------------------------------------------------------------------
(* Properties *)

\* Every variable has its type; the active_* counters never go below zero.
TypeOK ==
  /\ pc \in [Turns -> PCs]
  /\ req \in [Turns -> Requests]
  /\ todo \in [Turns -> SUBSET Routes]
  /\ route \in [Turns -> Routes \cup {None}]
  /\ sent \in [Turns -> Routes \cup {None}]
  /\ enabled \in SUBSET Routes
  /\ strategy \in Strategies
  /\ routeErr \in [Routes -> 0..ErrorThreshold]
  /\ routeOpen \in SUBSET Routes
  /\ errCount \in 0..ErrorThreshold
  /\ breaker \in BOOLEAN
  /\ activeTotal \in Nat /\ activeLocal \in Nat /\ activeCloud \in Nat

Holders == {t \in Turns : pc[t] \in Holding}
CloudHolders == {t \in Holders : route[t] \in Cloud}
LocalHolders == Holders \ CloudHolders

\* Each generation counter equals the number of turns that hold such a slot,
\* through refusals, failed calls and cancelled requests: no path leaks a slot
\* (the API would refuse turns for ever) or gives one back twice.
SlotsConserved ==
  /\ activeTotal = Cardinality(Holders)
  /\ activeCloud = Cardinality(CloudHolders)
  /\ activeLocal = Cardinality(LocalHolders)

\* No interleaving of turns puts more calls in flight than the concurrency
\* policy allows: in total, to the local runtimes, or to the cloud.
ConcurrencyLimits ==
  /\ Cardinality(Holders) <= Min2(NormalLimit, HardLimit)
  /\ Cardinality(LocalHolders) <= MaxLocal
  /\ Cardinality(CloudHolders) <= MaxCloud

\* A cloud provider the request rules out: its context may not leave the
\* host, the turn has no cloud allowance, its response policy is not one the
\* route serves, the route is a free-tier endpoint or was retired.
Forbidden(r, q) ==
  /\ r \in Cloud
  /\ \/ ~q.eligible \/ ~q.cloudAllowed
     \/ q.policy \notin PoliciesOf[r] \cup {"unset"}
     \/ r \in FreeTier \cup Retired

\* Whatever fails, is switched or is retried on the way, a turn never spends
\* at, calls, or hands the caller text of a cloud route its request rules out.
PrivacyHolds ==
  \A t \in Turns :
    /\ pc[t] \in Holding => ~Forbidden(route[t], req[t])
    /\ sent[t] # None => ~Forbidden(sent[t], req[t])

\* Within one turn the caller never receives text of two routes: once a route
\* has sent text, no fallback answer of another is appended to it, and the
\* turn does not end degraded.
NoMixedAnswer ==
  [][\A t \in Turns :
       sent[t] # None /\ pc'[t] # "start"
         => sent'[t] = sent[t] /\ pc'[t] # "degraded"]_vars

\* The breaker of a route is open exactly while its error count is at the
\* threshold, and while a primary route is shut out the global breaker is open:
\* the health probe that lets it back in runs only then.
BreakerConsistent ==
  /\ \A r \in Routes : r \in routeOpen <=> routeErr[r] = ErrorThreshold
  /\ routeOpen \cap Primary # {} => breaker
  /\ breaker => errCount = ErrorThreshold

\* Every turn a caller starts comes to an end: an answer, the degraded
\* message, an exception or the caller's own cancellation.
EveryTurnEnds == \A t \in Turns : pc[t] = "start" ~> pc[t] \in Ended
=============================================================================
