---------------------------- MODULE RoutingProofs ----------------------------
(***************************************************************************)
(* The router and the budget gate it asks before every metered call.       *)
(*                                                                         *)
(* For any number of turns and routes and any limits: the router's types,  *)
(* its slot accounting and concurrency limits, its privacy rule and the    *)
(* consistency of its breakers.                                            *)
(*                                                                         *)
(* For any number of cloud slots, sessions and days, any caps and any      *)
(* number of database faults: the gate's call caps, the bound on how far   *)
(* spend overshoots its cap, and what the accounting block guarantees.     *)
(***************************************************************************)
EXTENDS Router, CloudBudget, FiniteSetTheorems, TLAPS

(* The router *)

USE RouterAssumption

\* What the program point says of the route a turn is trying.
RouteShape ==
  \A t \in Turns :
    /\ pc[t] \in {"health", "slot"} \cup Holding => route[t] \in Routes
    /\ pc[t] \in {"health", "local"} => route[t] \notin Cloud
    /\ pc[t] \in {"spend", "cloud"} => route[t] \in Cloud

\* One more error leaves a saturated count in range.
LEMMA SaturateType ==
  ASSUME NEW n \in 0..ErrorThreshold
  PROVE  Saturate(n) \in 0..ErrorThreshold
BY DEF Saturate

\* Giving back a slot leaves a counter a number.
LEMMA DecType ==
  ASSUME NEW n \in Nat
  PROVE  Dec(n) \in Nat
BY DEF Dec

\* A recorded failure keeps the error state well typed.
LEMMA FailureType ==
  ASSUME TypeOK, NEW r \in Routes, RecordRouteFailure(r)
  PROVE  /\ routeErr' \in [Routes -> 0..ErrorThreshold]
         /\ routeOpen' \in SUBSET Routes
         /\ errCount' \in 0..ErrorThreshold
         /\ breaker' \in BOOLEAN
BY SaturateType DEF TypeOK, RecordRouteFailure

\* Releasing a slot keeps the counters numbers.
LEMMA FinishType ==
  ASSUME TypeOK, NEW r, FinishGeneration(r)
  PROVE  activeTotal' \in Nat /\ activeLocal' \in Nat /\ activeCloud' \in Nat
BY DecType DEF TypeOK, FinishGeneration

Shaped == TypeOK /\ RouteShape

\* The types and the shape of a turn's route are kept by every step.
LEMMA ShapedStep == Shaped /\ [Next]_vars => Shaped'
<1> SUFFICES ASSUME Shaped, [Next]_vars PROVE Shaped'
  OBVIOUS
<1> USE DEF Shaped, PCs, Ended, Holding, RouteShape
<1>1. ASSUME NEW t \in Turns, Begin(t) PROVE Shaped'
  BY <1>1 DEF TypeOK, Begin, Goto, adminVars, errorVars, slotVars
<1>2. ASSUME NEW t \in Turns, CheckBreaker(t) PROVE Shaped'
  BY <1>2 DEF TypeOK, CheckBreaker, Goto, adminVars, errorVars, slotVars
<1>3. ASSUME NEW t \in Turns, ProbeHealthy(t) PROVE Shaped'
  <2>1. errCount' \in 0..ErrorThreshold /\ routeErr' \in [Routes -> 0..ErrorThreshold]
    BY <1>3 DEF TypeOK, ProbeHealthy
  <2>2. breaker' \in BOOLEAN /\ routeOpen' \in SUBSET Routes
    BY <1>3 DEF TypeOK, ProbeHealthy
  <2>3. QED
    BY <1>3, <2>1, <2>2 DEF TypeOK, ProbeHealthy, Goto, adminVars, slotVars
<1>4. ASSUME NEW t \in Turns, ProbeUnhealthy(t) PROVE Shaped'
  BY <1>4 DEF TypeOK, ProbeUnhealthy, Goto, adminVars, errorVars, slotVars
<1>5. ASSUME NEW t \in Turns, OrderRoutes(t) PROVE Shaped'
  BY <1>5 DEF TypeOK, OrderRoutes, Goto, Routes, adminVars, errorVars, slotVars
<1>6. ASSUME NEW t \in Turns, NextRoute(t) PROVE Shaped'
  BY <1>6 DEF TypeOK, NextRoute, Goto, adminVars, errorVars, slotVars
<1>7. ASSUME NEW t \in Turns, Exhausted(t) PROVE Shaped'
  BY <1>7 DEF TypeOK, Exhausted, End, adminVars, errorVars, slotVars
<1>8. ASSUME NEW t \in Turns, LocalProbe(t) PROVE Shaped'
  BY <1>8 DEF TypeOK, LocalProbe, Goto, adminVars, errorVars, slotVars
<1>9. ASSUME NEW t \in Turns, StartGeneration(t) PROVE Shaped'
  BY <1>9 DEF TypeOK, StartGeneration, TakeSlot, Goto, adminVars, errorVars
<1>10. ASSUME NEW t \in Turns, SlotRefused(t) \/ SpendRefused(t) PROVE Shaped'
  BY <1>10 DEF TypeOK, SlotRefused, SpendRefused, Goto, adminVars, errorVars, slotVars
<1>11. ASSUME NEW t \in Turns, Failure(t), route[t] \in Routes,
              activeTotal' \in Nat, activeLocal' \in Nat, activeCloud' \in Nat
       PROVE Shaped'
  <2>1. CASE req[t].kind = "stream" /\ route[t] \in Cloud
    BY <1>11, <2>1 DEF TypeOK, Failure, End, adminVars, errorVars
  <2>2. CASE ~(req[t].kind = "stream" /\ route[t] \in Cloud)
    <3>1. RecordRouteFailure(route[t])
      BY <1>11, <2>2 DEF Failure
    <3>2. /\ routeErr' \in [Routes -> 0..ErrorThreshold]
          /\ routeOpen' \in SUBSET Routes
          /\ errCount' \in 0..ErrorThreshold
          /\ breaker' \in BOOLEAN
      BY <1>11, <3>1, FailureType
    <3>3. CASE sent[t] # None
      <4>1. End(t, "raised") /\ UNCHANGED <<req, sent, adminVars>>
        BY <1>11, <2>2, <3>3 DEF Failure
      <4>2. QED
        BY <1>11, <3>2, <4>1 DEF TypeOK, End, adminVars
    <3>4. CASE sent[t] = None
      BY <1>11, <2>2, <3>2, <3>4 DEF TypeOK, Failure, Goto, adminVars
    <3>5. QED  BY <3>3, <3>4
  <2>3. QED  BY <2>1, <2>2
<1>12. ASSUME NEW t \in Turns, SpendRaises(t) PROVE Shaped'
  BY <1>11, <1>12 DEF TypeOK, SpendRaises, slotVars
<1>13. ASSUME NEW t \in Turns, LocalFail(t) \/ CloudFail(t) PROVE Shaped'
  BY <1>11, <1>13, FinishType DEF TypeOK, LocalFail, CloudFail
<1>14. ASSUME NEW t \in Turns, LocalChunk(t) PROVE Shaped'
  BY <1>14 DEF TypeOK, LocalChunk, adminVars, errorVars, slotVars
<1>15. ASSUME NEW t \in Turns, LocalDone(t) \/ CloudDone(t) PROVE Shaped'
  <2>1. CASE LocalDone(t)
    BY <2>1, FinishType DEF TypeOK, LocalDone, End, adminVars, errorVars
  <2>2. CASE CloudDone(t)
    BY <2>2, FinishType DEF TypeOK, CloudDone, End, adminVars, errorVars
  <2>3. QED  BY <1>15, <2>1, <2>2
<1>16. ASSUME NEW t \in Turns, SpendDenied(t) PROVE Shaped'
  BY <1>16, FinishType DEF TypeOK, SpendDenied, Goto, adminVars, errorVars
<1>17. ASSUME NEW t \in Turns, SpendGranted(t) PROVE Shaped'
  BY <1>17 DEF TypeOK, SpendGranted, Goto, adminVars, errorVars, slotVars
<1>18. ASSUME NEW t \in Turns, Cancel(t) PROVE Shaped'
  BY <1>18, FinishType DEF TypeOK, Cancel, End, adminVars, errorVars, slotVars
<1>19. ASSUME NEW r \in Routes, SetRouteEnabled(r) PROVE Shaped'
  BY <1>19 DEF TypeOK, SetRouteEnabled, turnVars, errorVars, slotVars
<1>20. ASSUME NEW s \in Strategies, SetRoutingStrategy(s) PROVE Shaped'
  BY <1>20 DEF TypeOK, SetRoutingStrategy, turnVars, errorVars, slotVars
<1>21. CASE UNCHANGED vars
  BY <1>21 DEF TypeOK, vars, turnVars, adminVars, errorVars, slotVars
<1>22. QED
  BY <1>1, <1>2, <1>3, <1>4, <1>5, <1>6, <1>7, <1>8, <1>9, <1>10, <1>12, <1>13,
     <1>14, <1>15, <1>16, <1>17, <1>18, <1>19, <1>20, <1>21 DEF Next, Step

\* The initial states are well shaped.
LEMMA ShapedInit == Init => Shaped
<1> SUFFICES ASSUME Init PROVE Shaped
  OBVIOUS
<1>1. errCount \in 0..ErrorThreshold /\ routeErr \in [Routes -> 0..ErrorThreshold]
  BY DEF Init
<1>2. breaker \in BOOLEAN /\ routeOpen \in SUBSET Routes /\ enabled \in SUBSET Routes
  BY DEF Init
<1>3. QED
  BY <1>1, <1>2 DEF Init, Shaped, TypeOK, RouteShape, PCs, Holding

\* Every variable of the router keeps its type, and a turn at a provider is at
\* a provider of the kind its program point says.
THEOREM TypeCorrect == Spec => []TypeOK
<1>1. Spec => []Shaped
  BY ShapedInit, ShapedStep, PTL DEF Spec
<1>2. Shaped => TypeOK
  BY DEF Shaped
<1>3. QED
  BY <1>1, <1>2, PTL
-----------------------------------------------------------------------------
(* Generation slots *)

\* The counters keep within the policy's limits.
CountersBounded ==
  /\ activeTotal <= Min2(NormalLimit, HardLimit)
  /\ activeLocal <= MaxLocal
  /\ activeCloud <= MaxCloud

\* Sets of turns are finite, so their sizes are numbers.
LEMMA HoldersFinite ==
  /\ IsFiniteSet(Holders) /\ IsFiniteSet(CloudHolders) /\ IsFiniteSet(LocalHolders)
  /\ Cardinality(Holders) \in Nat
  /\ Cardinality(CloudHolders) \in Nat
  /\ Cardinality(LocalHolders) \in Nat
<1>1. Holders \subseteq Turns /\ CloudHolders \subseteq Turns /\ LocalHolders \subseteq Turns
  BY DEF Holders, CloudHolders, LocalHolders
<1>2. QED
  BY <1>1, FS_Subset, FS_CardinalityType

\* A step of a turn that holds no slot before or after it.
LEMMA QuietStep ==
  ASSUME Shaped, SlotsConserved, NEW t \in Turns, NEW l,
         pc[t] \notin Holding, l \notin Holding, pc' = [pc EXCEPT ![t] = l],
         \A u \in Turns : u # t => route'[u] = route[u],
         UNCHANGED slotVars
  PROVE  SlotsConserved'
<1>1. Holders' = Holders
  BY DEF Shaped, TypeOK, Holders
<1>2. CloudHolders' = CloudHolders
  BY <1>1 DEF Shaped, TypeOK, Holders, CloudHolders
<1>3. QED
  BY <1>1, <1>2 DEF SlotsConserved, LocalHolders, slotVars

\* A turn takes a slot: each counter and each set of holders grows by one or
\* stays, together.
LEMMA TakeStep ==
  ASSUME Shaped, SlotsConserved, NEW t \in Turns, NEW l \in Holding,
         pc[t] \notin Holding, pc' = [pc EXCEPT ![t] = l],
         UNCHANGED route, TakeSlot(route[t])
  PROVE  SlotsConserved'
<1>1. Holders' = Holders \cup {t} /\ t \notin Holders
  BY DEF Shaped, TypeOK, Holders
<1>2. Cardinality(Holders') = Cardinality(Holders) + 1
  BY <1>1, HoldersFinite, FS_AddElement
<1>3. CASE route[t] \in Cloud
  <2>1. /\ CloudHolders' = CloudHolders \cup {t} /\ t \notin CloudHolders
        /\ LocalHolders' = LocalHolders
    BY <1>1, <1>3 DEF CloudHolders, LocalHolders
  <2>2. Cardinality(CloudHolders') = Cardinality(CloudHolders) + 1
    BY <2>1, HoldersFinite, FS_AddElement
  <2>3. QED
    BY <1>2, <1>3, <2>1, <2>2 DEF SlotsConserved, TakeSlot
<1>4. CASE route[t] \notin Cloud
  <2>1. /\ LocalHolders' = LocalHolders \cup {t} /\ t \notin LocalHolders
        /\ CloudHolders' = CloudHolders
    BY <1>1, <1>4 DEF CloudHolders, LocalHolders
  <2>2. Cardinality(LocalHolders') = Cardinality(LocalHolders) + 1
    BY <2>1, HoldersFinite, FS_AddElement
  <2>3. QED
    BY <1>2, <1>4, <2>1, <2>2 DEF SlotsConserved, TakeSlot
<1>5. QED  BY <1>3, <1>4

\* A turn that holds a slot gives it back, however its call ended.
LEMMA ReleaseStep ==
  ASSUME Shaped, SlotsConserved, NEW t \in Turns, NEW l,
         pc[t] \in Holding, l \notin Holding, pc' = [pc EXCEPT ![t] = l],
         \A u \in Turns : u # t => route'[u] = route[u],
         FinishGeneration(route[t])
  PROVE  SlotsConserved'
<1>1. Holders' = Holders \ {t} /\ t \in Holders
  BY DEF Shaped, TypeOK, Holders
<1>2. Cardinality(Holders') = Cardinality(Holders) - 1
  BY <1>1, HoldersFinite, FS_RemoveElement
<1>3. CASE route[t] \in Cloud
  <2>1. /\ CloudHolders' = CloudHolders \ {t} /\ t \in CloudHolders
        /\ LocalHolders' = LocalHolders
    BY <1>1, <1>3 DEF Holders, CloudHolders, LocalHolders
  <2>2. Cardinality(CloudHolders') = Cardinality(CloudHolders) - 1
    BY <2>1, HoldersFinite, FS_RemoveElement
  <2>3. Cardinality(Holders) # 0 /\ Cardinality(CloudHolders) # 0
    BY <1>1, <2>1, HoldersFinite, FS_EmptySet
  <2>4. QED
    BY <1>2, <1>3, <2>1, <2>2, <2>3, HoldersFinite
    DEF SlotsConserved, FinishGeneration, Dec
<1>4. CASE route[t] \notin Cloud
  <2>1. /\ LocalHolders' = LocalHolders \ {t} /\ t \in LocalHolders
        /\ CloudHolders' = CloudHolders
    BY <1>1, <1>4 DEF Holders, CloudHolders, LocalHolders
  <2>2. Cardinality(LocalHolders') = Cardinality(LocalHolders) - 1
    BY <2>1, HoldersFinite, FS_RemoveElement
  <2>3. Cardinality(Holders) # 0 /\ Cardinality(LocalHolders) # 0
    BY <1>1, <2>1, HoldersFinite, FS_EmptySet
  <2>4. QED
    BY <1>2, <1>4, <2>1, <2>2, <2>3, HoldersFinite
    DEF SlotsConserved, FinishGeneration, Dec
<1>5. QED  BY <1>3, <1>4

\* Handling an exception moves a turn to a point where it holds no slot.
LEMMA FailureMoves ==
  ASSUME Shaped, NEW t \in Turns, Failure(t)
  PROVE  /\ \E l \in {"next", "raised"} : pc' = [pc EXCEPT ![t] = l]
         /\ \A u \in Turns : u # t => route'[u] = route[u]
<1>1. CASE UNCHANGED route /\ Goto(t, "next")
  BY <1>1 DEF Goto
<1>2. CASE End(t, "raised")
  BY <1>2 DEF End, Shaped, TypeOK
<1>3. QED
  BY <1>1, <1>2 DEF Failure

\* Every step conserves slots.
LEMMA SlotsStep == Shaped /\ SlotsConserved /\ [Next]_vars => SlotsConserved'
<1> SUFFICES ASSUME Shaped, SlotsConserved, [Next]_vars PROVE SlotsConserved'
  OBVIOUS
<1>0. \A l \in {"next", "raised", "answered", "cancelled"} : l \notin Holding
  BY DEF Holding
<1>1. ASSUME NEW t \in Turns,
             \/ Begin(t) \/ CheckBreaker(t) \/ ProbeHealthy(t) \/ ProbeUnhealthy(t)
             \/ OrderRoutes(t) \/ LocalProbe(t) \/ SlotRefused(t) \/ SpendRefused(t)
      PROVE SlotsConserved'
  <2>1. /\ pc[t] \notin Holding
        /\ \E l \in {"start", "probe", "order", "next", "slot"} : pc' = [pc EXCEPT ![t] = l]
        /\ UNCHANGED route /\ UNCHANGED slotVars
    BY <1>1 DEF Begin, CheckBreaker, ProbeHealthy, ProbeUnhealthy, OrderRoutes,
                LocalProbe, SlotRefused, SpendRefused, Goto, Ended, Holding
  <2>2. QED
    BY <2>1, QuietStep DEF Holding
<1>2. ASSUME NEW t \in Turns, NextRoute(t) PROVE SlotsConserved'
  <2>1. PICK l \in {"slot", "health"} : pc' = [pc EXCEPT ![t] = l]
    BY <1>2 DEF NextRoute, Goto
  <2>2. /\ pc[t] \notin Holding /\ UNCHANGED slotVars
        /\ \A u \in Turns : u # t => route'[u] = route[u]
    BY <1>2 DEF NextRoute, Holding, Shaped, TypeOK
  <2>3. QED
    BY <2>1, <2>2, QuietStep DEF Holding
<1>3. ASSUME NEW t \in Turns, Exhausted(t) PROVE SlotsConserved'
  <2>1. /\ pc[t] \notin Holding /\ UNCHANGED slotVars
        /\ pc' = [pc EXCEPT ![t] = "degraded"]
        /\ \A u \in Turns : u # t => route'[u] = route[u]
    BY <1>3 DEF Exhausted, End, Holding, Shaped, TypeOK
  <2>2. QED
    BY <2>1, QuietStep DEF Holding
<1>4. ASSUME NEW t \in Turns, StartGeneration(t) PROVE SlotsConserved'
  <2>1. PICK l \in Holding : pc' = [pc EXCEPT ![t] = l]
    BY <1>4 DEF StartGeneration, Goto, Holding
  <2>2. pc[t] \notin Holding /\ UNCHANGED route /\ TakeSlot(route[t])
    BY <1>4 DEF StartGeneration, Holding
  <2>3. QED
    BY <2>1, <2>2, TakeStep
<1>5. ASSUME NEW t \in Turns, SpendRaises(t) PROVE SlotsConserved'
  <2>1. pc[t] \notin Holding /\ Failure(t) /\ UNCHANGED slotVars
    BY <1>5 DEF SpendRaises, Holding
  <2>2. QED
    <3>1. PICK l \in {"next", "raised"} : pc' = [pc EXCEPT ![t] = l]
      BY <2>1, FailureMoves
    <3>2. \A u \in Turns : u # t => route'[u] = route[u]
      BY <2>1, FailureMoves
    <3>3. QED
      BY <2>1, <3>1, <3>2, QuietStep DEF Holding
<1>6. ASSUME NEW t \in Turns, LocalFail(t) \/ CloudFail(t) PROVE SlotsConserved'
  <2>1. pc[t] \in Holding /\ Failure(t) /\ FinishGeneration(route[t])
    BY <1>6 DEF LocalFail, CloudFail, Holding
  <2>2. QED
    <3>1. PICK l \in {"next", "raised"} : pc' = [pc EXCEPT ![t] = l]
      BY <2>1, FailureMoves
    <3>2. \A u \in Turns : u # t => route'[u] = route[u]
      BY <2>1, FailureMoves
    <3>3. QED
      BY <1>0, <2>1, <3>1, <3>2, ReleaseStep
<1>7. ASSUME NEW t \in Turns, LocalDone(t) \/ CloudDone(t) PROVE SlotsConserved'
  <2>1. /\ pc[t] \in Holding /\ FinishGeneration(route[t])
        /\ pc' = [pc EXCEPT ![t] = "answered"]
        /\ \A u \in Turns : u # t => route'[u] = route[u]
    BY <1>7 DEF LocalDone, CloudDone, End, Holding, Shaped, TypeOK
  <2>2. QED
    BY <1>0, <2>1, ReleaseStep
<1>8. ASSUME NEW t \in Turns, SpendDenied(t) PROVE SlotsConserved'
  <2>1. /\ pc[t] \in Holding /\ FinishGeneration(route[t])
        /\ pc' = [pc EXCEPT ![t] = "next"]
        /\ \A u \in Turns : u # t => route'[u] = route[u]
    BY <1>8 DEF SpendDenied, Goto, Holding
  <2>2. QED
    BY <1>0, <2>1, ReleaseStep
<1>9. ASSUME NEW t \in Turns, SpendGranted(t) PROVE SlotsConserved'
  <2>1. /\ pc[t] = "spend" /\ pc' = [pc EXCEPT ![t] = "cloud"]
        /\ UNCHANGED <<route, slotVars>>
    BY <1>9 DEF SpendGranted, Goto
  <2>2. Holders' = Holders /\ CloudHolders' = CloudHolders
    BY <2>1 DEF Holders, CloudHolders, Holding, Shaped, TypeOK
  <2>3. QED
    BY <2>1, <2>2 DEF SlotsConserved, LocalHolders, slotVars
<1>10. ASSUME NEW t \in Turns, Cancel(t) PROVE SlotsConserved'
  <2>1. /\ pc' = [pc EXCEPT ![t] = "cancelled"]
        /\ \A u \in Turns : u # t => route'[u] = route[u]
    BY <1>10 DEF Cancel, End, Shaped, TypeOK
  <2>2. CASE pc[t] \in Holding
    BY <1>0, <1>10, <2>1, <2>2, ReleaseStep DEF Cancel
  <2>3. CASE pc[t] \notin Holding
    BY <1>10, <2>1, <2>3, QuietStep DEF Cancel, Holding
  <2>4. QED  BY <2>2, <2>3
<1>11. CASE UNCHANGED <<pc, route, slotVars>>
  <2>1. Holders' = Holders /\ CloudHolders' = CloudHolders
    BY <1>11 DEF Holders, CloudHolders
  <2>2. QED
    BY <1>11, <2>1 DEF SlotsConserved, LocalHolders, slotVars
<1>12. ASSUME NEW t \in Turns, LocalChunk(t) PROVE SlotsConserved'
  BY <1>11, <1>12 DEF LocalChunk
<1>13. ASSUME NEW r \in Routes, SetRouteEnabled(r) PROVE SlotsConserved'
  BY <1>11, <1>13 DEF SetRouteEnabled, turnVars
<1>14. ASSUME NEW s \in Strategies, SetRoutingStrategy(s) PROVE SlotsConserved'
  BY <1>11, <1>14 DEF SetRoutingStrategy, turnVars
<1>15. CASE UNCHANGED vars
  BY <1>11, <1>15 DEF vars, turnVars
<1>16. QED
  BY <1>1, <1>2, <1>3, <1>4, <1>5, <1>6, <1>7, <1>8, <1>9, <1>10, <1>12, <1>13,
     <1>14, <1>15 DEF Next, Step

\* Initially no turn holds a slot and no slot is counted.
LEMMA SlotsInit == Init => SlotsConserved
<1> SUFFICES ASSUME Init PROVE SlotsConserved
  OBVIOUS
<1>1. Holders = {} /\ CloudHolders = {} /\ LocalHolders = {}
  BY DEF Init, Holders, CloudHolders, LocalHolders, Holding
<1>2. QED
  BY <1>1, FS_EmptySet DEF Init, SlotsConserved

\* The counters only grow through a slot that can_start admitted.
LEMMA BoundedStep == Shaped /\ CountersBounded /\ [Next]_vars => CountersBounded'
<1> SUFFICES ASSUME Shaped, CountersBounded, [Next]_vars PROVE CountersBounded'
  OBVIOUS
<1> /\ activeTotal \in Nat /\ activeLocal \in Nat /\ activeCloud \in Nat
    /\ Min2(NormalLimit, HardLimit) \in Nat
  BY DEF Shaped, TypeOK, Min2
<1>1. CASE UNCHANGED slotVars
  BY <1>1 DEF CountersBounded, slotVars
<1>2. ASSUME NEW r, CanStart(r), TakeSlot(r) PROVE CountersBounded'
  BY <1>2 DEF CountersBounded, CanStart, TakeSlot
<1>3. ASSUME NEW r, FinishGeneration(r) PROVE CountersBounded'
  BY <1>3 DEF CountersBounded, FinishGeneration, Dec
<1>4. ASSUME NEW t \in Turns, StartGeneration(t) PROVE CountersBounded'
  BY <1>2, <1>4 DEF StartGeneration
<1>5. ASSUME NEW t \in Turns,
             \/ LocalFail(t) \/ CloudFail(t) \/ LocalDone(t) \/ CloudDone(t)
             \/ SpendDenied(t)
      PROVE CountersBounded'
  BY <1>3, <1>5 DEF LocalFail, CloudFail, LocalDone, CloudDone, SpendDenied
<1>6. ASSUME NEW t \in Turns, Cancel(t) PROVE CountersBounded'
  BY <1>1, <1>3, <1>6 DEF Cancel
<1>7. ASSUME NEW t \in Turns,
             \/ Begin(t) \/ CheckBreaker(t) \/ ProbeHealthy(t) \/ ProbeUnhealthy(t)
             \/ OrderRoutes(t) \/ NextRoute(t) \/ Exhausted(t) \/ LocalProbe(t)
             \/ SlotRefused(t) \/ SpendRefused(t) \/ SpendRaises(t)
             \/ LocalChunk(t) \/ SpendGranted(t)
      PROVE CountersBounded'
  BY <1>1, <1>7 DEF Begin, CheckBreaker, ProbeHealthy, ProbeUnhealthy, OrderRoutes,
     NextRoute, Exhausted, LocalProbe, SlotRefused, SpendRefused, SpendRaises,
     LocalChunk, SpendGranted
<1>8. CASE (\E r \in Routes : SetRouteEnabled(r)) \/ (\E s \in Strategies : SetRoutingStrategy(s))
  BY <1>1, <1>8 DEF SetRouteEnabled, SetRoutingStrategy
<1>9. CASE UNCHANGED vars
  BY <1>1, <1>9 DEF vars
<1>10. QED
  BY <1>4, <1>5, <1>6, <1>7, <1>8, <1>9 DEF Next, Step

\* The generation counters are exact in every reachable state, for any number
\* of turns: _generation_slot's finally clause runs on every way out.
THEOREM SlotsAreConserved == Spec => []SlotsConserved
<1>1. Init => Shaped /\ SlotsConserved
  BY ShapedInit, SlotsInit
<1>2. Shaped /\ SlotsConserved /\ [Next]_vars => Shaped' /\ SlotsConserved'
  BY ShapedStep, SlotsStep
<1>3. QED
  BY <1>1, <1>2, PTL DEF Spec

\* The limits of the concurrency policy hold of the calls really in flight, not
\* only of the counters.
THEOREM LimitsHold == Spec => []ConcurrencyLimits
<1>1. Init => Shaped /\ SlotsConserved /\ CountersBounded
  <2>1. Init => CountersBounded
    BY DEF Init, CountersBounded, Min2
  <2>2. QED
    BY <2>1, ShapedInit, SlotsInit
<1>2. Shaped /\ SlotsConserved /\ CountersBounded /\ [Next]_vars
        => Shaped' /\ SlotsConserved' /\ CountersBounded'
  BY ShapedStep, SlotsStep, BoundedStep
<1>3. SlotsConserved /\ CountersBounded => ConcurrencyLimits
  BY DEF SlotsConserved, CountersBounded, ConcurrencyLimits
<1>4. QED
  BY <1>1, <1>2, <1>3, PTL DEF Spec
-----------------------------------------------------------------------------
(* Privacy *)

\* The routes a turn has still to try, the one it is trying and the one it
\* heard from are all allowed to it; between turns nothing is left over.
Permitted ==
  \A t \in Turns :
    /\ \A r \in todo[t] : ~Forbidden(r, req[t])
    /\ route[t] # None => ~Forbidden(route[t], req[t])
    /\ sent[t] # None => ~Forbidden(sent[t], req[t])
    /\ pc[t] \in Ended \cup {"idle"} => todo[t] = {} /\ route[t] = None

\* The selection gate admits no forbidden route.
LEMMA SelectableIsPermitted ==
  ASSUME NEW r, NEW q, NEW s, Selectable(r, q, s)
  PROVE  ~Forbidden(r, q)
BY DEF Selectable, RouteAllowed, Forbidden

\* No step gives a turn a route its request rules out.
LEMMA PermittedStep == Shaped /\ Permitted /\ [Next]_vars => Permitted'
<1> SUFFICES ASSUME Shaped, Permitted, [Next]_vars PROVE Permitted'
  OBVIOUS
<1> USE DEF Permitted, Shaped, TypeOK
<1>1. ASSUME NEW t \in Turns, Begin(t) PROVE Permitted'
  BY <1>1 DEF Begin, Goto, Ended
<1>2. ASSUME NEW t \in Turns,
             CheckBreaker(t) \/ ProbeHealthy(t) \/ ProbeUnhealthy(t) \/ LocalProbe(t)
      PROVE Permitted'
  BY <1>2 DEF CheckBreaker, ProbeHealthy, ProbeUnhealthy, LocalProbe, Goto, Ended
<1>3. ASSUME NEW t \in Turns, OrderRoutes(t) PROVE Permitted'
  <2>1. PICK built \in SUBSET Synth, cold \in SUBSET (Routes \ Cloud) :
          todo' = [todo EXCEPT ![t] = {r \in (Configured \cup built) \ cold :
                                         Selectable(r, req[t], strategy)}]
    BY <1>3 DEF OrderRoutes
  <2>2. \A r \in todo'[t] : ~Forbidden(r, req[t])
    BY <2>1, SelectableIsPermitted
  <2>3. QED
    BY <1>3, <2>1, <2>2 DEF OrderRoutes, Goto, Ended
<1>4. ASSUME NEW t \in Turns, NextRoute(t) PROVE Permitted'
  BY <1>4 DEF NextRoute, Goto, Ended
<1>5. ASSUME NEW t \in Turns, Exhausted(t) \/ Cancel(t) PROVE Permitted'
  BY <1>5 DEF Exhausted, Cancel, End
<1>6. ASSUME NEW t \in Turns,
             \/ StartGeneration(t) \/ SlotRefused(t) \/ SpendRefused(t)
             \/ SpendDenied(t) \/ SpendGranted(t)
      PROVE Permitted'
  BY <1>6 DEF StartGeneration, SlotRefused, SpendRefused, SpendDenied, SpendGranted,
              Goto, Ended
<1>7. ASSUME NEW t \in Turns, SpendRaises(t) \/ LocalFail(t) \/ CloudFail(t)
      PROVE Permitted'
  <2>1. Failure(t)
    BY <1>7 DEF SpendRaises, LocalFail, CloudFail
  <2>2. CASE Goto(t, "next") /\ UNCHANGED <<todo, route>>
    BY <2>1, <2>2 DEF Failure, Goto, Ended
  <2>3. CASE End(t, "raised")
    BY <2>1, <2>3 DEF Failure, End
  <2>4. QED
    BY <2>1, <2>2, <2>3 DEF Failure
<1>8. ASSUME NEW t \in Turns, LocalChunk(t) PROVE Permitted'
  BY <1>8 DEF LocalChunk
<1>9. ASSUME NEW t \in Turns, LocalDone(t) \/ CloudDone(t) PROVE Permitted'
  BY <1>9 DEF LocalDone, CloudDone, End
<1>10. CASE UNCHANGED turnVars
  BY <1>10 DEF turnVars
<1>11. QED
  BY <1>1, <1>2, <1>3, <1>4, <1>5, <1>6, <1>7, <1>8, <1>9, <1>10
  DEF Next, Step, SetRouteEnabled, SetRoutingStrategy, vars

\* Private context, a turn without cloud allowance, a policy a route does not
\* serve: no such turn ever reaches a cloud provider, for any set of routes,
\* requests and strategies.
THEOREM PrivacyIsKept == Spec => []PrivacyHolds
<1>1. Init => Permitted
  BY DEF Init, Permitted, Ended
<1>2. Shaped /\ Permitted => PrivacyHolds
  BY DEF Shaped, TypeOK, RouteShape, Permitted, PrivacyHolds
<1>3. Shaped /\ Permitted /\ [Next]_vars => Shaped' /\ Permitted'
  BY ShapedStep, PermittedStep
<1>4. QED
  BY <1>1, <1>2, <1>3, ShapedInit, PTL DEF Spec
-----------------------------------------------------------------------------
(* Breakers *)

\* What BreakerConsistent needs to be inductive: the global count is never
\* behind a primary route's own.
BreakerInv ==
  /\ BreakerConsistent
  /\ \A r \in Primary : routeErr[r] <= errCount

\* A recorded failure opens a breaker exactly when it reaches the threshold.
LEMMA FailureKeepsBreakers ==
  ASSUME TypeOK, BreakerInv, NEW r \in Routes, RecordRouteFailure(r)
  PROVE  BreakerInv'
<1> DEFINE n == Saturate(routeErr[r])
<1>1. /\ routeErr[r] \in 0..ErrorThreshold /\ errCount \in 0..ErrorThreshold
      /\ n \in 0..ErrorThreshold
  BY SaturateType DEF TypeOK
<1>2. /\ routeErr' = [routeErr EXCEPT ![r] = n] /\ errCount' = Saturate(errCount)
      /\ n >= ErrorThreshold => r \in routeOpen'
      /\ r \in routeOpen' => n >= ErrorThreshold \/ r \in routeOpen
      /\ \A x \in Routes : x # r => (x \in routeOpen' <=> x \in routeOpen)
      /\ breaker' <=> (breaker \/ (n >= ErrorThreshold /\ r \in Primary))
  BY DEF RecordRouteFailure
<1>3. \A x \in Routes : x \in routeOpen' <=> routeErr'[x] = ErrorThreshold
  BY <1>1, <1>2 DEF TypeOK, BreakerInv, BreakerConsistent, Saturate
<1>4. \A x \in Primary : routeErr'[x] <= errCount'
  BY <1>1, <1>2 DEF TypeOK, BreakerInv, Saturate, Routes
<1>5. routeOpen' \cap Primary # {} => breaker'
  <2>1. CASE r \in routeOpen' /\ r \in Primary
    <3>1. n >= ErrorThreshold \/ r \in routeOpen
      BY <1>2, <2>1
    <3>2. QED
      BY <1>2, <2>1, <3>1 DEF BreakerInv, BreakerConsistent
  <2>2. CASE ~(r \in routeOpen' /\ r \in Primary)
    BY <1>2, <2>2 DEF BreakerInv, BreakerConsistent, Routes
  <2>3. QED  BY <2>1, <2>2
<1>6. breaker' => errCount' = ErrorThreshold
  BY <1>1, <1>2 DEF BreakerInv, BreakerConsistent, Saturate
<1>7. QED
  BY <1>3, <1>4, <1>5, <1>6 DEF BreakerInv, BreakerConsistent

\* Every step keeps the breakers in agreement with the error counts.
LEMMA BreakerStep == Shaped /\ BreakerInv /\ [Next]_vars => BreakerInv'
<1> SUFFICES ASSUME Shaped, BreakerInv, [Next]_vars PROVE BreakerInv'
  OBVIOUS
<1>1. CASE UNCHANGED errorVars
  BY <1>1 DEF BreakerInv, BreakerConsistent, errorVars
<1>2. ASSUME NEW t \in Turns, Failure(t), route[t] \in Routes PROVE BreakerInv'
  BY <1>1, <1>2, FailureKeepsBreakers DEF Failure, Shaped
<1>3. ASSUME NEW t \in Turns, SpendRaises(t) \/ LocalFail(t) \/ CloudFail(t)
      PROVE BreakerInv'
  BY <1>2, <1>3 DEF SpendRaises, LocalFail, CloudFail, Shaped, RouteShape, Holding
<1>4. ASSUME NEW t \in Turns, ProbeHealthy(t) PROVE BreakerInv'
  <2>1. /\ ~breaker' /\ errCount' = 0
        /\ routeOpen' = routeOpen \ Primary
        /\ routeErr' = [r \in Routes |-> IF r \in Primary THEN 0 ELSE routeErr[r]]
    BY <1>4 DEF ProbeHealthy
  <2>2. \A r \in Routes : r \in routeOpen' <=> routeErr'[r] = ErrorThreshold
    BY <2>1 DEF BreakerInv, BreakerConsistent
  <2>3. QED
    BY <2>1, <2>2 DEF BreakerInv, BreakerConsistent, Routes
<1>5. ASSUME NEW t \in Turns, Exhausted(t) PROVE BreakerInv'
  <2>1. /\ UNCHANGED <<routeErr, routeOpen, errCount>>
        /\ breaker' => breaker \/ errCount >= ErrorThreshold
        /\ breaker => breaker'
    BY <1>5 DEF Exhausted
  <2>2. errCount >= ErrorThreshold => errCount = ErrorThreshold
    BY DEF Shaped, TypeOK
  <2>3. QED
    BY <2>1, <2>2 DEF BreakerInv, BreakerConsistent
<1>6. ASSUME NEW t \in Turns,
             \/ Begin(t) \/ CheckBreaker(t) \/ ProbeUnhealthy(t) \/ OrderRoutes(t)
             \/ NextRoute(t) \/ LocalProbe(t) \/ StartGeneration(t) \/ SlotRefused(t)
             \/ SpendRefused(t) \/ LocalDone(t) \/ SpendDenied(t) \/ SpendGranted(t)
             \/ CloudDone(t) \/ LocalChunk(t) \/ Cancel(t)
      PROVE UNCHANGED errorVars
  BY <1>6 DEF Begin, CheckBreaker, ProbeUnhealthy, OrderRoutes, NextRoute, LocalProbe,
     StartGeneration, SlotRefused, SpendRefused, LocalDone, SpendDenied, SpendGranted,
     CloudDone, LocalChunk, Cancel
<1>7. ASSUME (\E r \in Routes : SetRouteEnabled(r)) \/ (\E s \in Strategies : SetRoutingStrategy(s))
             \/ UNCHANGED vars
      PROVE UNCHANGED errorVars
  BY <1>7 DEF SetRouteEnabled, SetRoutingStrategy, vars
<1>8. QED
  BY <1>1, <1>3, <1>4, <1>5, <1>6, <1>7 DEF Next, Step

\* A primary route that is shut out can always be probed back in, and every
\* route's breaker agrees with its error count.
THEOREM BreakersAreConsistent == Spec => []BreakerConsistent
<1>1. Init => BreakerInv
  BY DEF Init, BreakerInv, BreakerConsistent, Routes
<1>2. Shaped /\ BreakerInv /\ [Next]_vars => Shaped' /\ BreakerInv'
  BY ShapedStep, BreakerStep
<1>3. BreakerInv => BreakerConsistent
  BY DEF BreakerInv
<1>4. QED
  BY <1>1, <1>2, <1>3, ShapedInit, PTL DEF Spec
-----------------------------------------------------------------------------
(* One answer per turn *)

\* A turn whose caller has text is over, or is still streaming from the route
\* that sent it.
SentShape ==
  \A t \in Turns : sent[t] # None =>
    \/ pc[t] \in Ended \ {"degraded"}
    \/ pc[t] = "local" /\ route[t] = sent[t]

\* One turn's step keeps SentShape and mixes no answers; the other turns keep
\* their state.
LEMMA SentStep ==
  Shaped /\ SentShape /\ [Next]_vars =>
    /\ SentShape'
    /\ \A t \in Turns : sent[t] # None /\ pc'[t] # "start"
         => sent'[t] = sent[t] /\ pc'[t] # "degraded"
<1> DEFINE Kept == \A t \in Turns : sent[t] # None /\ pc'[t] # "start"
                     => sent'[t] = sent[t] /\ pc'[t] # "degraded"
<1> SUFFICES ASSUME Shaped, SentShape, [Next]_vars PROVE SentShape' /\ Kept
  OBVIOUS
<1> USE DEF SentShape, Shaped, TypeOK, Ended
<1>1. ASSUME NEW t \in Turns, Begin(t) PROVE SentShape' /\ Kept
  BY <1>1 DEF Begin, Goto
<1>2. ASSUME NEW t \in Turns,
             \/ CheckBreaker(t) \/ ProbeHealthy(t) \/ ProbeUnhealthy(t) \/ OrderRoutes(t)
             \/ LocalProbe(t) \/ SlotRefused(t) \/ SpendRefused(t) \/ StartGeneration(t)
             \/ SpendDenied(t) \/ SpendGranted(t)
      PROVE SentShape' /\ Kept
  <2>1. /\ pc[t] \notin Ended \cup {"local"} /\ UNCHANGED <<sent, route>>
        /\ \E l \in PCs \ {"degraded"} : pc' = [pc EXCEPT ![t] = l]
    BY <1>2 DEF CheckBreaker, ProbeHealthy, ProbeUnhealthy, OrderRoutes, LocalProbe,
       SlotRefused, SpendRefused, StartGeneration, SpendDenied, SpendGranted, Goto, PCs
  <2>2. sent[t] = None
    BY <2>1
  <2>3. QED
    BY <2>1, <2>2
<1>3. ASSUME NEW t \in Turns, NextRoute(t) PROVE SentShape' /\ Kept
  BY <1>3 DEF NextRoute, Goto
<1>4. ASSUME NEW t \in Turns, Exhausted(t) \/ Cancel(t) PROVE SentShape' /\ Kept
  BY <1>4 DEF Exhausted, Cancel, End
<1>5. ASSUME NEW t \in Turns, SpendRaises(t) \/ LocalFail(t) \/ CloudFail(t)
      PROVE SentShape' /\ Kept
  <2>1. Failure(t)
    BY <1>5 DEF SpendRaises, LocalFail, CloudFail
  <2>2. CASE sent[t] = None /\ Goto(t, "next") /\ UNCHANGED <<todo, route>>
    BY <2>1, <2>2 DEF Failure, Goto
  <2>3. CASE End(t, "raised")
    BY <2>1, <2>3 DEF Failure, End
  <2>4. QED
    BY <2>1, <2>2, <2>3 DEF Failure
<1>6. ASSUME NEW t \in Turns, LocalChunk(t) PROVE SentShape' /\ Kept
  BY <1>6 DEF LocalChunk
<1>7. ASSUME NEW t \in Turns, LocalDone(t) \/ CloudDone(t) PROVE SentShape' /\ Kept
  <2>1. /\ pc' = [pc EXCEPT ![t] = "answered"] /\ route' = [route EXCEPT ![t] = None]
        /\ sent' = sent \/ sent' = [sent EXCEPT ![t] = route[t]]
    BY <1>7 DEF LocalDone, CloudDone, End
  <2>2. sent[t] # None => route[t] = sent[t]
    BY <1>7 DEF LocalDone, CloudDone
  <2>3. QED
    BY <2>1, <2>2
<1>8. CASE UNCHANGED turnVars
  BY <1>8 DEF turnVars
<1>9. QED
  BY <1>1, <1>2, <1>3, <1>4, <1>5, <1>6, <1>7, <1>8
  DEF Next, Step, SetRouteEnabled, SetRoutingStrategy, vars

\* The caller of a turn never receives text of two routes, nor the degraded
\* message after partial text.
THEOREM AnswersAreNotMixed == Spec => NoMixedAnswer
<1>1. Init => SentShape
  BY DEF Init, SentShape
<1>2. Shaped /\ SentShape /\ [Next]_vars => Shaped' /\ SentShape'
  BY ShapedStep, SentStep
<1>3. Shaped /\ SentShape /\ [Next]_vars =>
        [\A t \in Turns : sent[t] # None /\ pc'[t] # "start"
           => sent'[t] = sent[t] /\ pc'[t] # "degraded"]_vars
  BY SentStep
<1>4. QED
  BY <1>1, <1>2, <1>3, ShapedInit, PTL DEF Spec, NoMixedAnswer
-----------------------------------------------------------------------------
(* The budget gate *)

HIDE RouterAssumption
USE BudgetAssumption

\* A call inside reserve holds the gate's lock.
LockInv == \A c \in Calls : stage[c] \in InLock => lock = c

Typed == GateTypeOK /\ LockInv

\* Incrementing some counters of a table keeps it a table of numbers.
LEMMA BumpType ==
  ASSUME NEW S, NEW f \in [S -> Nat], NEW ks
  PROVE  /\ Bump(f, ks) \in [S -> Nat]
         /\ \A k \in S : Bump(f, ks)[k] = IF k \in ks THEN f[k] + 1 ELSE f[k]
BY DEF Bump

\* A fault counts itself.
LEMMA FaultType ==
  ASSUME faults \in 0..MaxFaults, NEW n \in Nat, Fault(n)
  PROVE  faults' \in 0..MaxFaults /\ faults' = faults + n
BY DEF Fault

\* After a failed access the store is not ready, and the block is set unless the
\* fault is a double one or spillover is off.
LEMMA StoreFailedType ==
  ASSUME GateTypeOK, StoreFailed
  PROVE  /\ ready' = FALSE /\ blocked' \in BOOLEAN
         /\ faults' \in 0..MaxFaults /\ faults' > faults
         /\ blocked => blocked'
         /\ spillover /\ ~blocked' => faults' = faults + 2
<1>1. faults \in 0..MaxFaults /\ blocked \in BOOLEAN /\ spillover \in BOOLEAN
      /\ ready' = FALSE
  BY DEF GateTypeOK, StoreFailed
<1>2. CASE Fault(1) /\ blocked' = (blocked \/ spillover)
  <2>1. faults' \in 0..MaxFaults /\ faults' > faults
    BY <1>1, <1>2 DEF Fault
  <2>2. QED  BY <1>1, <1>2, <2>1, Zenon
<1>3. CASE Fault(2) /\ UNCHANGED blocked
  <2>1. faults' \in 0..MaxFaults /\ faults' > faults /\ faults' = faults + 2
    BY <1>1, <1>3 DEF Fault
  <2>2. QED  BY <1>1, <1>3, <2>1, Zenon
<1>4. QED  BY <1>2, <1>3 DEF StoreFailed

\* A usage event leaves every period's sum a number.
LEMMA BookType ==
  ASSUME GateTypeOK, Book
  PROVE  spend' \in [Periods -> Nat]
BY DEF GateTypeOK, Book

\* The initial state is well typed.
LEMMA TypedInit == GateInit => Typed
<1> SUFFICES ASSUME GateInit PROVE Typed
  OBVIOUS
<1>1. 0 \in Days /\ 0 \in 0..MaxCost /\ 0 \in 0..MaxFaults
  BY DEF Days
<1>2. QED
  BY <1>1 DEF GateInit, Typed, GateTypeOK, LockInv, Stages, InLock

\* Every step keeps the types and the lock discipline.
LEMMA TypedStep == Typed /\ [GateNext]_gateVars => Typed'
<1> SUFFICES ASSUME Typed, [GateNext]_gateVars PROVE Typed'
  OBVIOUS
<1> USE DEF Typed, LockInv, Stages, InLock
<1>1. ASSUME NEW c \in Calls, Ask(c) PROVE Typed'
  BY <1>1 DEF GateTypeOK, Ask, GateGoto, dbVars, historyVars
<1>2. ASSUME NEW c \in Calls, ReserveEnter(c) \/ ReserveRefused(c) PROVE Typed'
  BY <1>2 DEF GateTypeOK, ReserveEnter, ReserveRefused, GateGoto, dbVars, historyVars
<1>3. ASSUME NEW c \in Calls, ReserveGate(c) PROVE Typed'
  <2>1. faults' \in 0..MaxFaults /\ ready' \in BOOLEAN
    BY <1>3, FaultType DEF GateTypeOK, ReserveGate
  <2>2. QED
    BY <1>3, <2>1 DEF GateTypeOK, ReserveGate, GateGoto, Return, dbVars, historyVars
<1>4. ASSUME NEW c \in Calls, ReserveNoStore(c) PROVE Typed'
  BY <1>4, FaultType DEF GateTypeOK, ReserveNoStore, GateGoto, Return, dbVars, historyVars
<1>5. ASSUME NEW c \in Calls, ReserveCheck(c) PROVE Typed'
  BY <1>5 DEF GateTypeOK, ReserveCheck, GateGoto, Return, dbVars, historyVars
<1>6. ASSUME NEW c \in Calls, ReserveCommit(c) PROVE Typed'
  <2>1. counter' \in [Keys -> Nat] /\ granted' \in [Keys -> Nat]
    BY <1>6, BumpType DEF GateTypeOK, ReserveCommit
  <2>2. QED
    BY <1>6, <2>1 DEF GateTypeOK, ReserveCommit, GateGoto, Return
<1>7. ASSUME NEW c \in Calls, ReserveFault(c) PROVE Typed'
  <2>1. counter' \in [Keys -> Nat]
    BY <1>7, BumpType DEF GateTypeOK, ReserveFault
  <2>2. ready' \in BOOLEAN /\ blocked' \in BOOLEAN /\ faults' \in 0..MaxFaults
    BY <1>7, StoreFailedType DEF ReserveFault
  <2>3. QED
    BY <1>7, <2>1, <2>2 DEF GateTypeOK, ReserveFault, GateGoto, Return, historyVars
<1>8. ASSUME NEW c \in Calls, ProviderReply(c) \/ ProviderFail(c) \/ RecordOff(c) \/ RecordDropped(c)
      PROVE Typed'
  BY <1>8 DEF GateTypeOK, ProviderReply, ProviderFail, RecordOff, RecordDropped, GateGoto,
              dbVars, historyVars
<1>9. ASSUME NEW c \in Calls, RecordUsage(c) PROVE Typed'
  BY <1>9, BookType DEF GateTypeOK, RecordUsage, GateGoto, historyVars
<1>10. ASSUME NEW c \in Calls, RecordMissing(c) PROVE Typed'
  <2>1. faults' \in 0..MaxFaults /\ ready' \in BOOLEAN /\ blocked' \in BOOLEAN
    BY <1>10, FaultType DEF GateTypeOK, RecordMissing
  <2>2. QED
    BY <1>10, <2>1 DEF GateTypeOK, RecordMissing, GateGoto
<1>11. ASSUME NEW c \in Calls, RecordFault(c) PROVE Typed'
  <2>1. /\ faults' \in 0..MaxFaults /\ ready' \in BOOLEAN /\ blocked' \in BOOLEAN
        /\ spend' \in [Periods -> Nat]
    BY <1>11, FaultType, StoreFailedType, BookType DEF GateTypeOK, RecordFault
  <2>2. QED
    BY <1>11, <2>1 DEF GateTypeOK, RecordFault, GateGoto, historyVars
<1>12. ASSUME NEW c \in Calls, CancelCall(c) PROVE Typed'
  BY <1>12 DEF GateTypeOK, CancelCall, GateGoto, dbVars, historyVars
<1>13. CASE Availability
  BY <1>13, FaultType DEF GateTypeOK, Availability, callVars, dbVars, historyVars
<1>14. CASE ClearAccountingBlock
  BY <1>14 DEF GateTypeOK, ClearAccountingBlock, callVars
<1>15. CASE SetEnabled
  BY <1>15 DEF GateTypeOK, SetEnabled, callVars, dbVars, historyVars
<1>16. CASE NextDay
  BY <1>16 DEF GateTypeOK, NextDay, Days, callVars, dbVars, historyVars
<1>17. CASE Restart
  BY <1>17 DEF GateTypeOK, Restart, dbVars, historyVars
<1>18. CASE UNCHANGED gateVars
  BY <1>18 DEF GateTypeOK, gateVars, callVars, dbVars, historyVars
<1>19. QED
  BY <1>1, <1>2, <1>3, <1>4, <1>5, <1>6, <1>7, <1>8, <1>9, <1>10, <1>11, <1>12,
     <1>13, <1>14, <1>15, <1>16, <1>17, <1>18 DEF GateNext, Enter, Reserve, Record

\* Every variable of the gate keeps its type.
THEOREM BudgetTypeCorrect == GateSpec => []GateTypeOK
<1>1. GateSpec => []Typed
  BY TypedInit, TypedStep, PTL DEF GateSpec
<1>2. Typed => GateTypeOK
  BY DEF Typed
<1>3. QED
  BY <1>1, <1>2, PTL
-----------------------------------------------------------------------------
(* Call caps *)

\* The counters keep within the caps and cover the grants; a call about to
\* commit still has room under every cap, because nobody else can commit while
\* it holds the lock.
CapsInv ==
  /\ \A k \in Keys : granted[k] <= counter[k]
  /\ \A k \in Keys : CapOf(k) > 0 => counter[k] <= CapOf(k)
  /\ \A c \in Calls : stage[c] = "commit" =>
       \A k \in Keys \cap KeysOf(c) : CapOf(k) > 0 => counter[k] < CapOf(k)

\* Every cap is a number.
LEMMA CapType == \A k : CapOf(k) \in Nat
BY DEF CapOf

\* A call that leaves the commit point, with the tables as they were.
LEMMA CapsFrame ==
  ASSUME Typed, CapsInv, NEW c \in Calls, NEW l, l # "commit",
         stage' = [stage EXCEPT ![c] = l],
         \A d \in Calls : d # c => sess'[d] = sess[d] /\ key'[d] = key[d],
         UNCHANGED <<counter, granted>>
  PROVE  CapsInv'
<1>1. \A d \in Calls : stage'[d] = "commit" => d # c /\ stage[d] = "commit"
  BY DEF Typed, GateTypeOK
<1>2. \A d \in Calls : d # c => KeysOf(d)' = KeysOf(d)
  BY DEF KeysOf, PeriodsOf
<1>3. QED
  BY <1>1, <1>2 DEF CapsInv

\* The holder of the lock increments its keys and leaves the commit point.
LEMMA CapsBump ==
  ASSUME Typed, CapsInv, NEW c \in Calls, stage[c] = "commit", NEW l, l # "commit",
         stage' = [stage EXCEPT ![c] = l], counter' = Bump(counter, KeysOf(c)),
         granted' = granted \/ granted' = Bump(granted, KeysOf(c))
  PROVE  CapsInv'
<1>1. \A d \in Calls : stage'[d] # "commit"
  BY DEF Typed, GateTypeOK, LockInv, InLock
<1>2. counter \in [Keys -> Nat] /\ granted \in [Keys -> Nat]
  BY DEF Typed, GateTypeOK
<1>3. \A k \in Keys : counter'[k] = IF k \in KeysOf(c) THEN counter[k] + 1 ELSE counter[k]
  BY <1>2, BumpType
<1>4. \A k \in Keys : granted'[k] = granted[k] \/ (k \in KeysOf(c) /\ granted'[k] = granted[k] + 1)
  BY <1>2, BumpType
<1>5. \A k \in Keys : granted'[k] <= counter'[k]
  BY <1>2, <1>3, <1>4 DEF CapsInv
<1>6. \A k \in Keys : CapOf(k) > 0 => counter'[k] <= CapOf(k)
  BY <1>2, <1>3, CapType DEF CapsInv
<1>7. QED
  BY <1>1, <1>5, <1>6 DEF CapsInv, CapOf

\* Every step keeps the caps.
LEMMA CapsStep == Typed /\ CapsInv /\ [GateNext]_gateVars => CapsInv'
<1> SUFFICES ASSUME Typed, CapsInv, [GateNext]_gateVars PROVE CapsInv'
  OBVIOUS
<1>1. ASSUME NEW c \in Calls,
             \/ Ask(c) \/ ReserveEnter(c) \/ ReserveRefused(c) \/ ReserveGate(c)
             \/ ReserveNoStore(c) \/ ProviderReply(c) \/ ProviderFail(c)
             \/ RecordUsage(c) \/ RecordMissing(c) \/ RecordFault(c) \/ RecordOff(c)
             \/ RecordDropped(c) \/ CancelCall(c)
      PROVE CapsInv'
  <2>1. PICK l \in Stages \ {"commit"} : stage' = [stage EXCEPT ![c] = l]
    BY <1>1 DEF Ask, ReserveEnter, ReserveRefused, ReserveGate, ReserveNoStore,
       ProviderReply, ProviderFail, RecordUsage, RecordMissing, RecordFault, RecordOff,
       RecordDropped, CancelCall, GateGoto, Return, Stages
  <2>2. /\ \A d \in Calls : d # c => sess'[d] = sess[d] /\ key'[d] = key[d]
        /\ UNCHANGED <<counter, granted>>
    BY <1>1 DEF Ask, ReserveEnter, ReserveRefused, ReserveGate, ReserveNoStore,
       ProviderReply, ProviderFail, RecordUsage, RecordMissing, RecordFault, RecordOff,
       RecordDropped, CancelCall, dbVars, historyVars, Typed, GateTypeOK
  <2>3. QED
    BY <2>1, <2>2, CapsFrame
<1>2. ASSUME NEW c \in Calls, ReserveCheck(c) PROVE CapsInv'
  <2>1. CASE CapExhausted(c)
    <3>1. /\ stage' = [stage EXCEPT ![c] = "idle"] /\ UNCHANGED <<sess, key>>
          /\ UNCHANGED <<counter, granted>>
      BY <1>2, <2>1 DEF ReserveCheck, Return, GateGoto, dbVars, historyVars
    <3>2. QED
      BY <3>1, CapsFrame
  <2>2. CASE ~CapExhausted(c)
    <3>1. /\ stage' = [stage EXCEPT ![c] = "commit"]
          /\ UNCHANGED <<sess, key, counter, granted>>
      BY <1>2, <2>2 DEF ReserveCheck, GateGoto, dbVars, historyVars
    <3>2. \A k \in Keys \cap KeysOf(c) : CapOf(k) > 0 => counter[k] < CapOf(k)
      <4>1. \A k \in KeysOf(c) : ~(CapOf(k) > 0 /\ counter[k] >= CapOf(k))
        BY <2>2 DEF CapExhausted
      <4>2. \A k \in Keys : counter[k] \in Nat /\ CapOf(k) \in Nat
        BY CapType DEF Typed, GateTypeOK
      <4>3. QED  BY <4>1, <4>2
    <3>3. \A d \in Calls : KeysOf(d)' = KeysOf(d)
      BY <3>1 DEF KeysOf, PeriodsOf
    <3>4. \A d \in Calls : stage'[d] = "commit" => d = c \/ stage[d] = "commit"
      BY <3>1 DEF Typed, GateTypeOK
    <3>5. QED
      BY <3>1, <3>2, <3>3, <3>4 DEF CapsInv
  <2>3. QED  BY <2>1, <2>2
<1>3. ASSUME NEW c \in Calls, ReserveCommit(c) PROVE CapsInv'
  BY <1>3, CapsBump DEF ReserveCommit, Return, GateGoto
<1>4. ASSUME NEW c \in Calls, ReserveFault(c) PROVE CapsInv'
  <2>1. /\ stage' = [stage EXCEPT ![c] = "idle"] /\ UNCHANGED <<sess, key, granted>>
        /\ counter' = counter \/ (stage[c] = "commit" /\ counter' = Bump(counter, KeysOf(c)))
    BY <1>4 DEF ReserveFault, Return, GateGoto, historyVars
  <2>2. CASE counter' = counter
    BY <2>1, <2>2, CapsFrame
  <2>3. CASE stage[c] = "commit" /\ counter' = Bump(counter, KeysOf(c))
    BY <2>1, <2>3, CapsBump
  <2>4. QED  BY <2>1, <2>2, <2>3
<1>5. ASSUME UNCHANGED <<callVars, counter, granted>> PROVE CapsInv'
  BY <1>5 DEF CapsInv, callVars, KeysOf, PeriodsOf
<1>6. CASE Availability \/ ClearAccountingBlock \/ SetEnabled \/ NextDay \/ UNCHANGED gateVars
  BY <1>5, <1>6 DEF Availability, ClearAccountingBlock, SetEnabled, NextDay, gateVars,
     dbVars, historyVars
<1>7. CASE Restart
  BY <1>7 DEF Restart, CapsInv, dbVars, historyVars
<1>8. QED
  BY <1>1, <1>2, <1>3, <1>4, <1>6, <1>7 DEF GateNext, Enter, Reserve, Record

\* The initial tables are within every cap.
LEMMA CapsInit == GateInit => CapsInv
<1> SUFFICES ASSUME GateInit PROVE CapsInv
  OBVIOUS
<1>1. \A k \in Keys : counter[k] = 0 /\ granted[k] = 0
  BY DEF GateInit
<1>2. QED
  BY <1>1, CapType DEF GateInit, CapsInv

\* No session, day or month is ever granted more calls than its cap.
THEOREM CallCapsAreKept == GateSpec => []CallCapsHold
<1>1. Typed /\ CapsInv => CallCapsHold
  <2> SUFFICES ASSUME Typed, CapsInv, NEW k \in Keys, CapOf(k) > 0
               PROVE  granted[k] <= CapOf(k)
    BY DEF CallCapsHold
  <2>1. granted[k] \in Nat /\ counter[k] \in Nat /\ CapOf(k) \in Nat
    BY CapType DEF Typed, GateTypeOK
  <2>2. QED  BY <2>1 DEF CapsInv
<1>2. Typed /\ CapsInv /\ [GateNext]_gateVars => Typed' /\ CapsInv'
  BY TypedStep, CapsStep
<1>3. QED
  BY <1>1, <1>2, TypedInit, CapsInit, PTL DEF GateSpec

\* The persisted counters account for every grant, whatever fails.
THEOREM CountersCover == GateSpec => []CountersCoverGrants
<1>1. CapsInv => CountersCoverGrants
  BY DEF CapsInv, CountersCoverGrants
<1>2. Typed /\ CapsInv /\ [GateNext]_gateVars => Typed' /\ CapsInv'
  BY TypedStep, CapsStep
<1>3. QED
  BY <1>1, <1>2, TypedInit, CapsInit, PTL DEF GateSpec
-----------------------------------------------------------------------------
(* The accounting block *)

Past(c) == stage[c] \in {"check", "commit"}

\* Grants under a block are paid for by the one call that is past the block's
\* read, or by a fault.
BlockInv ==
  /\ ~blocked => sinceBlock = 0
  /\ sinceBlock <= 1 + faults
  /\ \A c \in Calls : Past(c) => sinceBlock <= faults

\* A bound survives more faults.
LEMMA LeqTrans ==
  \A a, b, c \in Nat : a <= 1 + b /\ c >= b => a <= 1 + c
OBVIOUS

\* Steps that only add faults and let calls leave the guarded region.
LEMMA BlockFrame ==
  ASSUME Typed, BlockInv, UNCHANGED sinceBlock, faults' \in Nat, faults' >= faults,
         ~blocked' => ~blocked, \A c \in Calls : Past(c)' => Past(c)
  PROVE  BlockInv'
<1>1. ~blocked' => sinceBlock' = 0
  BY DEF BlockInv
<1>2. sinceBlock \in Nat /\ faults \in 0..MaxFaults /\ faults \in Nat
  <2>1. sinceBlock \in Nat /\ faults \in 0..MaxFaults
    BY DEF Typed, GateTypeOK
  <2>2. QED  BY <2>1
<1>3. sinceBlock' <= 1 + faults'
  <2>1. sinceBlock <= 1 + faults /\ sinceBlock' = sinceBlock
    BY DEF BlockInv
  <2>2. sinceBlock' \in Nat /\ faults' >= faults /\ faults' \in Nat
    BY <1>2, <2>1
  <2>3. QED  BY <1>2, <2>1, <2>2, LeqTrans
<1>4. \A c \in Calls : Past(c)' => sinceBlock' <= faults'
  BY <1>2 DEF BlockInv
<1>5. QED
  BY <1>1, <1>3, <1>4 DEF BlockInv

\* Every step keeps the account of grants under a block.
LEMMA BlockStep == Typed /\ BlockInv /\ [GateNext]_gateVars => BlockInv'
<1> SUFFICES ASSUME Typed, BlockInv, [GateNext]_gateVars PROVE BlockInv'
  OBVIOUS
<1>0. /\ faults \in 0..MaxFaults /\ faults \in Nat /\ sinceBlock \in Nat /\ blocked \in BOOLEAN
      /\ stage \in [Calls -> Stages]
  BY DEF Typed, GateTypeOK
<1>1. ASSUME NEW c \in Calls,
             \/ Ask(c) \/ ReserveEnter(c) \/ ReserveRefused(c) \/ ReserveCheck(c)
             \/ ProviderReply(c) \/ ProviderFail(c) \/ RecordUsage(c) \/ RecordOff(c)
             \/ RecordDropped(c) \/ CancelCall(c)
      PROVE BlockInv'
  <2>1. UNCHANGED <<blocked, sinceBlock, faults>>
    BY <1>1 DEF Ask, ReserveEnter, ReserveRefused, ReserveCheck, ProviderReply,
       ProviderFail, RecordUsage, RecordOff, RecordDropped, CancelCall, dbVars, historyVars
  <2>2. \A d \in Calls : Past(d)' => Past(d)
    BY <1>0, <1>1 DEF Ask, ReserveEnter, ReserveRefused, ReserveCheck, ProviderReply,
       ProviderFail, RecordUsage, RecordOff, RecordDropped, CancelCall, GateGoto, Return, Past
  <2>3. QED
    BY <1>0, <2>1, <2>2, BlockFrame
<1>2. ASSUME NEW c \in Calls, ReserveGate(c) PROVE BlockInv'
  <2>1. UNCHANGED <<blocked, sinceBlock>>
    BY <1>2 DEF ReserveGate, dbVars, historyVars
  <2>2. CASE blocked /\ UNCHANGED faults /\ Return(c, "idle")
    <3>1. \A d \in Calls : Past(d)' => Past(d)
      BY <1>0, <2>2 DEF Return, GateGoto, Past
    <3>2. QED
      BY <1>0, <2>1, <2>2, <3>1, BlockFrame
  <2>3. CASE ~blocked /\ UNCHANGED faults
    <3>1. sinceBlock = 0
      BY <2>3 DEF BlockInv
    <3>2. QED
      BY <1>0, <2>1, <2>3, <3>1 DEF BlockInv
  <2>4. CASE blocked /\ Fault(1)
    <3>1. faults' = faults + 1
      BY <2>4 DEF Fault
    <3>2. blocked'
      BY <2>1, <2>4
    <3>3. QED
      BY <1>0, <2>1, <3>1, <3>2 DEF BlockInv
  <2>5. QED
    BY <1>2, <2>2, <2>3, <2>4 DEF ReserveGate
<1>3. ASSUME NEW c \in Calls, ReserveCommit(c) PROVE BlockInv'
  <2>1. Past(c) /\ UNCHANGED <<blocked, faults>> /\ stage' = [stage EXCEPT ![c] = "provider"]
    BY <1>3 DEF ReserveCommit, Past, Return, GateGoto
  <2>2. sinceBlock <= faults
    BY <2>1 DEF BlockInv
  <2>3. \A d \in Calls : ~Past(d)'
    BY <1>0, <2>1 DEF Past, Typed, LockInv, InLock
  <2>4. sinceBlock' <= 1 + faults
    BY <1>0, <1>3, <2>2 DEF ReserveCommit
  <2>5. ~blocked => sinceBlock' = 0
    BY <1>3 DEF ReserveCommit, BlockInv
  <2>6. QED
    BY <2>1, <2>3, <2>4, <2>5 DEF BlockInv
<1>4. ASSUME NEW c \in Calls,
             ReserveNoStore(c) \/ ReserveFault(c) \/ RecordMissing(c) \/ RecordFault(c)
      PROVE BlockInv'
  <2>0. faults' = faults \/ StoreFailed \/ Fault(1) \/ Fault(2)
    BY <1>4 DEF ReserveNoStore, ReserveFault, RecordMissing, RecordFault
  <2>1. faults' \in Nat /\ faults' >= faults
    BY <1>0, <2>0 DEF StoreFailed, Fault
  <2>2. ~blocked' => ~blocked
    BY <1>4, StoreFailedType
    DEF ReserveNoStore, ReserveFault, RecordMissing, RecordFault, Typed, dbVars
  <2>3. UNCHANGED sinceBlock
    BY <1>4 DEF ReserveNoStore, ReserveFault, RecordMissing, RecordFault, historyVars
  <2>4. \A d \in Calls : Past(d)' => Past(d)
    BY <1>0, <1>4 DEF ReserveNoStore, ReserveFault, RecordMissing, RecordFault, GateGoto,
       Return, Past
  <2>5. QED
    BY <2>1, <2>2, <2>3, <2>4, BlockFrame
<1>5. CASE Availability
  <2>1. faults' \in Nat /\ faults' >= faults
    BY <1>0, <1>5 DEF Availability, Fault
  <2>2. QED
    BY <1>5, <2>1, BlockFrame DEF Availability, callVars, dbVars, historyVars, Past
<1>6. CASE ClearAccountingBlock
  BY <1>0, <1>6 DEF ClearAccountingBlock, BlockInv
<1>7. CASE SetEnabled \/ NextDay \/ Restart \/ UNCHANGED gateVars
  BY <1>0, <1>7, BlockFrame DEF SetEnabled, NextDay, Restart, gateVars, callVars, dbVars,
     historyVars, Past
<1>8. QED
  BY <1>1, <1>2, <1>3, <1>4, <1>5, <1>6, <1>7 DEF GateNext, Enter, Reserve, Record

\* Once blocked, the gate lets one more reservation through at most, plus one
\* for each failed read of the block.
THEOREM BlockIsEffective == GateSpec => []BlockStopsSpend
<1>1. GateInit => BlockInv
  BY DEF GateInit, BlockInv, Past
<1>2. Typed /\ BlockInv /\ [GateNext]_gateVars => Typed' /\ BlockInv'
  BY TypedStep, BlockStep
<1>3. BlockInv => BlockStopsSpend
  BY DEF BlockInv, BlockStopsSpend
<1>4. QED
  BY <1>1, <1>2, <1>3, TypedInit, PTL DEF GateSpec
-----------------------------------------------------------------------------
(* Spend *)

\* The calls past their check, whose cost may still be booked.
Flying == {c \in Calls : stage[c] \in {"commit", "provider", "record"}}

\* What the calls in flight may still cost.
Exposure == MaxCost * Cardinality(Flying)

Room(k) == UsdCapOf(k) + MaxCost * Cardinality(Calls)

\* Nothing is booked on a day or month that has not begun.
FutureInv ==
  /\ \A d \in Days : d > day => spend[<<"day", d>>] = 0
  /\ \A d \in Days : MonthOf[d] > MonthOf[day] => spend[<<"month", MonthOf[d]>>] = 0

\* Today's and this month's spend, with all the calls in flight may add, stays
\* within the bound; an earlier period takes no more bookings.
SpendInv ==
  /\ SpendBounded
  /\ \A k \in PeriodsOf(day) : UsdCapOf(k) > 0 => spend[k] + Exposure <= Room(k)

\* Multiplication by a number is monotone, and distributes over a successor.
LEMMA MulMono == \A m, a, b \in Nat : a <= b => m * a <= m * b
OBVIOUS

\* One more call adds one more cost.
LEMMA MulSucc == \A m, a \in Nat : m * (a + 1) = m * a + m /\ m * a \in Nat
OBVIOUS

\* The calls in flight are finitely many, at most all of them.
LEMMA FlyingFinite ==
  /\ IsFiniteSet(Flying) /\ Cardinality(Flying) \in Nat /\ Cardinality(Calls) \in Nat
  /\ Cardinality(Flying) <= Cardinality(Calls)
  /\ Exposure \in Nat /\ Exposure <= MaxCost * Cardinality(Calls)
  /\ \A k : Room(k) \in Nat /\ UsdCapOf(k) \in Nat
<1>1. Flying \subseteq Calls
  BY DEF Flying
<1>2. /\ IsFiniteSet(Flying) /\ Cardinality(Flying) \in Nat /\ Cardinality(Calls) \in Nat
      /\ Cardinality(Flying) <= Cardinality(Calls)
  BY <1>1, FS_Subset, FS_CardinalityType
<1>3. Exposure \in Nat /\ Exposure <= MaxCost * Cardinality(Calls)
  BY <1>2, MulMono, MulSucc DEF Exposure
<1>4. \A k : UsdCapOf(k) \in Nat
  BY DEF UsdCapOf
<1>5. \A k : Room(k) \in Nat
  BY <1>2, <1>4, MulSucc DEF Room
<1>6. QED  BY <1>2, <1>3, <1>4, <1>5

\* Fewer calls in flight are less exposure.
LEMMA ExposureShrinks ==
  ASSUME Flying' \subseteq Flying
  PROVE  Exposure' \in Nat /\ Exposure' <= Exposure
<1>1. IsFiniteSet(Flying) /\ Cardinality(Flying) \in Nat
  BY FlyingFinite
<1>2. Cardinality(Flying') \in Nat /\ Cardinality(Flying') <= Cardinality(Flying)
  BY <1>1, FS_Subset, FS_CardinalityType
<1>3. QED
  BY <1>1, <1>2, MulMono, MulSucc DEF Exposure

\* A call that lands gives back a whole cost.
LEMMA ExposureLands ==
  ASSUME NEW c \in Flying, Flying' = Flying \ {c}
  PROVE  Exposure' \in Nat /\ Exposure = Exposure' + MaxCost
<1>1. IsFiniteSet(Flying)
  BY FlyingFinite
<1>2. IsFiniteSet(Flying') /\ Cardinality(Flying') = Cardinality(Flying) - 1
  BY <1>1, FS_RemoveElement
<1>3. Cardinality(Flying') \in Nat /\ Cardinality(Flying) \in Nat
  BY <1>1, <1>2, FS_CardinalityType
<1>4. Cardinality(Flying) = Cardinality(Flying') + 1
  BY <1>2, <1>3
<1>5. QED
  BY <1>3, <1>4, MulSucc DEF Exposure

\* Steps that book nothing and put no call in flight.
LEMMA SpendFrame ==
  ASSUME Typed, SpendInv, FutureInv, UNCHANGED <<spend, day>>, Flying' \subseteq Flying
  PROVE  SpendInv' /\ FutureInv'
<1>1. Exposure' \in Nat /\ Exposure' <= Exposure /\ Exposure \in Nat
  BY ExposureShrinks, FlyingFinite
<1>2. spend \in [Periods -> Nat] /\ day \in Days
  BY DEF Typed, GateTypeOK
<1>3. \A k \in PeriodsOf(day) : k \in Periods
  BY <1>2 DEF PeriodsOf, Periods, Months
<1>4. FutureInv'
  BY DEF FutureInv
<1>5. SpendBounded'
  BY DEF SpendInv, SpendBounded
<1>6. ASSUME NEW k \in PeriodsOf(day), UsdCapOf(k) > 0
      PROVE  spend'[k] + Exposure' <= Room(k)
  <2>1. spend[k] + Exposure <= Room(k)
    BY <1>6 DEF SpendInv
  <2>2. spend[k] \in Nat /\ Room(k) \in Nat
    BY <1>2, <1>3, FlyingFinite
  <2>3. QED
    BY <1>1, <2>1, <2>2
<1>7. QED
  BY <1>4, <1>5, <1>6 DEF SpendInv, PeriodsOf, Room, UsdCapOf

\* A call that lands and books its cost.
LEMMA SpendLands ==
  ASSUME Typed, SpendInv, FutureInv, UNCHANGED day, Book,
         NEW c \in Calls, stage[c] = "record", stage' = [stage EXCEPT ![c] = "idle"]
  PROVE  SpendInv' /\ FutureInv'
<1>1. /\ spend \in [Periods -> Nat] /\ day \in Days /\ stage \in [Calls -> Stages]
      /\ \A d \in Days : d \in Nat
  BY DEF Typed, GateTypeOK, Days
<1>2. c \in Flying /\ Flying' = Flying \ {c}
  BY <1>1 DEF Flying
<1>3. Exposure' \in Nat /\ Exposure = Exposure' + MaxCost
  BY <1>2, ExposureLands
<1>4. PICK cost \in 0..MaxCost :
        spend' = [k \in Periods |-> IF k \in PeriodsOf(day) THEN spend[k] + cost ELSE spend[k]]
  BY DEF Book
<1>5. \A k \in PeriodsOf(day) : k \in Periods
  BY <1>1 DEF PeriodsOf, Periods, Months
<1>6. \A k \in Periods : UsdCapOf(k) \in Nat /\ Room(k) \in Nat /\ spend[k] \in Nat
  BY <1>1, FlyingFinite
<1>7. ASSUME NEW k \in PeriodsOf(day), UsdCapOf(k) > 0
      PROVE  spend'[k] + Exposure' <= Room(k) /\ spend'[k] <= Room(k)
  <2>1. spend[k] + Exposure <= Room(k)
    BY <1>7 DEF SpendInv
  <2>2. spend'[k] = spend[k] + cost /\ k \in Periods
    BY <1>4, <1>5, <1>7
  <2>3. QED
    BY <1>3, <1>6, <2>1, <2>2
<1>8. \A k \in Periods : UsdCapOf(k) > 0 => spend'[k] <= Room(k)
  <2>1. \A k \in Periods : k \notin PeriodsOf(day) => spend'[k] = spend[k]
    BY <1>4
  <2>2. QED
    BY <1>7, <2>1 DEF SpendInv, SpendBounded, Room
<1>9. \A d \in Days : d > day =>
        <<"day", d>> \in Periods /\ <<"day", d>> \notin PeriodsOf(day)
  BY <1>1 DEF PeriodsOf, Periods
<1>10. \A d \in Days : MonthOf[d] > MonthOf[day] =>
         <<"month", MonthOf[d]>> \in Periods /\ <<"month", MonthOf[d]>> \notin PeriodsOf(day)
  <2>1. \A d \in Days : MonthOf[d] \in Nat
    OBVIOUS
  <2>2. \A d \in Days : MonthOf[d] > MonthOf[day] => MonthOf[d] # MonthOf[day]
    BY <1>1, <2>1
  <2>3. QED
    BY <2>2 DEF PeriodsOf, Periods, Months
<1>11. FutureInv'
  <2>1. \A d \in Days : d > day => spend'[<<"day", d>>] = 0
    BY <1>4, <1>9 DEF FutureInv
  <2>2. \A d \in Days : MonthOf[d] > MonthOf[day] => spend'[<<"month", MonthOf[d]>>] = 0
    BY <1>4, <1>10 DEF FutureInv
  <2>3. QED
    BY <2>1, <2>2 DEF FutureInv
<1>12. SpendBounded'
  BY <1>8 DEF SpendBounded, Room, UsdCapOf
<1>13. QED
  BY <1>7, <1>11, <1>12 DEF SpendInv, PeriodsOf, Room, UsdCapOf

\* A call that passes its check: what is booked is within the caps, so even
\* with every call in flight the bound holds.
LEMMA SpendChecked ==
  ASSUME Typed, SpendInv, FutureInv, NEW c \in Calls, ReserveCheck(c)
  PROVE  SpendInv' /\ FutureInv'
<1>1. /\ spend \in [Periods -> Nat] /\ day \in Days /\ stage \in [Calls -> Stages]
      /\ est[c] \in Nat
  BY DEF Typed, GateTypeOK
<1>2. UNCHANGED <<spend, day>>
  BY DEF ReserveCheck, dbVars
<1>3. CASE CapExhausted(c)
  <2>1. stage' = [stage EXCEPT ![c] = "idle"]
    BY <1>3 DEF ReserveCheck, Return, GateGoto
  <2>2. Flying' \subseteq Flying
    BY <1>1, <2>1 DEF Flying
  <2>3. QED
    BY <1>2, <2>2, SpendFrame
<1>4. CASE ~CapExhausted(c)
  <2>1. Exposure' \in Nat /\ Exposure' <= MaxCost * Cardinality(Calls)
    <3>1. Flying' \subseteq Calls
      BY DEF Flying
    <3>2. /\ Cardinality(Flying') \in Nat /\ Cardinality(Calls) \in Nat
          /\ Cardinality(Flying') <= Cardinality(Calls)
      BY <3>1, FS_Subset, FS_CardinalityType
    <3>3. QED
      BY <3>2, MulMono, MulSucc DEF Exposure
  <2>2. \A k \in PeriodsOf(day) : k \in Periods /\ UsdCapOf(k) \in Nat /\ spend[k] \in Nat
    BY <1>1, FlyingFinite DEF PeriodsOf, Periods, Months
  <2>3. MaxCost * Cardinality(Calls) \in Nat
    BY FlyingFinite, MulSucc
  <2>4. ASSUME NEW k \in PeriodsOf(day), UsdCapOf(k) > 0
        PROVE  spend[k] + Exposure' <= Room(k)
    <3>1. ~(spend[k] + est[c] > UsdCapOf(k))
      BY <1>4, <2>4 DEF CapExhausted
    <3>2. spend[k] <= UsdCapOf(k)
      BY <1>1, <2>2, <3>1
    <3>3. QED
      BY <2>1, <2>2, <2>3, <3>2 DEF Room
  <2>5. SpendBounded' /\ FutureInv'
    BY <1>2 DEF SpendInv, SpendBounded, FutureInv
  <2>6. QED
    BY <1>2, <2>4, <2>5 DEF SpendInv, PeriodsOf, Room, UsdCapOf
<1>5. QED  BY <1>3, <1>4

\* Midnight: the new day, and a new month, start from nothing.
LEMMA SpendMidnight ==
  ASSUME Typed, SpendInv, FutureInv, NextDay
  PROVE  SpendInv' /\ FutureInv'
<1>1. /\ spend \in [Periods -> Nat] /\ day \in Days /\ day' \in Days
      /\ day \in Nat /\ day' = day + 1 /\ UNCHANGED <<spend, stage>>
      /\ \A d \in Days : d \in Nat /\ MonthOf[d] \in Nat
  BY DEF Typed, GateTypeOK, Days, NextDay, callVars, dbVars
<1>2. Exposure' = Exposure
  BY <1>1 DEF Exposure, Flying
<1>3. MonthOf[day] <= MonthOf[day']
  BY <1>1
<1>4. FutureInv'
  <2>1. \A d \in Days : d > day' => d > day
    BY <1>1
  <2>2. \A d \in Days : MonthOf[d] > MonthOf[day'] => MonthOf[d] > MonthOf[day]
    BY <1>1, <1>3
  <2>3. QED
    BY <1>1, <2>1, <2>2 DEF FutureInv
<1>5. ASSUME NEW k \in PeriodsOf(day'), UsdCapOf(k) > 0
      PROVE  spend[k] + Exposure <= Room(k)
  <2>1. UsdCapOf(k) \in Nat /\ Exposure \in Nat /\ Exposure <= MaxCost * Cardinality(Calls)
        /\ MaxCost * Cardinality(Calls) \in Nat
    BY FlyingFinite, MulSucc
  <2>2. CASE spend[k] = 0
    BY <2>1, <2>2 DEF Room
  <2>3. CASE k = <<"day", day'>>
    <3>1. spend[k] = 0
      BY <1>1, <2>3 DEF FutureInv
    <3>2. QED  BY <3>1, <2>2
  <2>4. CASE k = <<"month", MonthOf[day']>>
    <3>1. CASE MonthOf[day'] = MonthOf[day]
      <4>1. k \in PeriodsOf(day)
        BY <2>4, <3>1 DEF PeriodsOf
      <4>2. QED
        BY <1>5, <4>1 DEF SpendInv
    <3>2. CASE MonthOf[day'] > MonthOf[day]
      <4>1. spend[k] = 0
        BY <1>1, <2>4, <3>2 DEF FutureInv
      <4>2. QED  BY <4>1, <2>2
    <3>3. QED
      BY <1>1, <1>3, <3>1, <3>2
  <2>5. QED
    BY <1>5, <2>3, <2>4 DEF PeriodsOf
<1>6. SpendBounded'
  BY <1>1 DEF SpendInv, SpendBounded
<1>7. QED
  BY <1>1, <1>2, <1>4, <1>5, <1>6 DEF SpendInv, PeriodsOf, Room, UsdCapOf

\* Every step keeps the bound on spend.
LEMMA SpendStep == Typed /\ SpendInv /\ FutureInv /\ [GateNext]_gateVars => SpendInv' /\ FutureInv'
<1> SUFFICES ASSUME Typed, SpendInv, FutureInv, [GateNext]_gateVars PROVE SpendInv' /\ FutureInv'
  OBVIOUS
<1>0. stage \in [Calls -> Stages]
  BY DEF Typed, GateTypeOK
<1>1. ASSUME NEW c \in Calls,
             \/ Ask(c) \/ ReserveEnter(c) \/ ReserveRefused(c) \/ ReserveGate(c)
             \/ ReserveNoStore(c) \/ ReserveCommit(c) \/ ReserveFault(c)
             \/ ProviderReply(c) \/ ProviderFail(c) \/ RecordMissing(c)
             \/ RecordOff(c) \/ RecordDropped(c) \/ CancelCall(c)
      PROVE SpendInv' /\ FutureInv'
  <2>1. UNCHANGED <<spend, day>>
    BY <1>1 DEF Ask, ReserveEnter, ReserveRefused, ReserveGate, ReserveNoStore,
       ReserveCommit, ReserveFault, ProviderReply, ProviderFail, RecordMissing,
       RecordOff, RecordDropped, CancelCall, dbVars
  <2>2. Flying' \subseteq Flying
    BY <1>0, <1>1 DEF Ask, ReserveEnter, ReserveRefused, ReserveGate, ReserveNoStore,
       ReserveCommit, ReserveFault, ProviderReply, ProviderFail, RecordMissing,
       RecordOff, RecordDropped, CancelCall, GateGoto, Return, Flying
  <2>3. QED
    BY <2>1, <2>2, SpendFrame
<1>2. ASSUME NEW c \in Calls, RecordUsage(c) PROVE SpendInv' /\ FutureInv'
  BY <1>2, SpendLands DEF RecordUsage, GateGoto
<1>3. ASSUME NEW c \in Calls, RecordFault(c) PROVE SpendInv' /\ FutureInv'
  <2>1. stage[c] = "record" /\ stage' = [stage EXCEPT ![c] = "idle"] /\ UNCHANGED day
        /\ (UNCHANGED spend \/ Book)
    BY <1>3 DEF RecordFault, GateGoto
  <2>2. CASE UNCHANGED spend
    <3>1. Flying' \subseteq Flying
      BY <1>0, <2>1 DEF Flying
    <3>2. QED
      BY <2>1, <2>2, <3>1, SpendFrame
  <2>3. CASE Book
    BY <2>1, <2>3, SpendLands
  <2>4. QED  BY <2>1, <2>2, <2>3
<1>4. CASE Availability \/ ClearAccountingBlock \/ SetEnabled \/ Restart \/ UNCHANGED gateVars
  <2>1. UNCHANGED <<spend, day>>
    BY <1>4 DEF Availability, ClearAccountingBlock, SetEnabled, Restart, gateVars, dbVars
  <2>2. Flying' \subseteq Flying
    BY <1>0, <1>4 DEF Availability, ClearAccountingBlock, SetEnabled, Restart, gateVars,
       callVars, Flying
  <2>3. QED
    BY <2>1, <2>2, SpendFrame
<1>5. QED
  BY <1>1, <1>2, <1>3, <1>4, SpendChecked, SpendMidnight DEF GateNext, Enter, Reserve, Record

\* The spend of a day or month passes its cap by one call per cloud slot at
\* most.
THEOREM SpendIsBounded == GateSpec => []SpendBounded
<1>1. GateInit => SpendInv /\ FutureInv
  <2> SUFFICES ASSUME GateInit PROVE SpendInv /\ FutureInv
    OBVIOUS
  <2>1. Typed
    BY TypedInit
  <2>2. \A k \in Periods : spend[k] = 0
    BY DEF GateInit
  <2>3. \A d \in Days : <<"day", d>> \in Periods /\ <<"month", MonthOf[d]>> \in Periods
    BY DEF Periods, Months
  <2>4. FutureInv
    BY <2>2, <2>3 DEF FutureInv
  <2>5. /\ Exposure \in Nat /\ Exposure <= MaxCost * Cardinality(Calls)
        /\ MaxCost * Cardinality(Calls) \in Nat /\ \A k : UsdCapOf(k) \in Nat
    BY FlyingFinite, MulSucc
  <2>6. day \in Days
    BY <2>1 DEF Typed, GateTypeOK
  <2>7. \A k \in PeriodsOf(day) : spend[k] = 0
    BY <2>2, <2>3, <2>6 DEF PeriodsOf
  <2>8. \A k \in PeriodsOf(day) : spend[k] + Exposure <= Room(k)
    BY <2>5, <2>7 DEF Room
  <2>9. SpendBounded
    BY <2>2, <2>5 DEF SpendBounded
  <2>10. QED
    BY <2>4, <2>8, <2>9 DEF SpendInv
<1>2. Typed /\ SpendInv /\ FutureInv /\ [GateNext]_gateVars => Typed' /\ SpendInv' /\ FutureInv'
  BY TypedStep, SpendStep
<1>3. SpendInv => SpendBounded
  BY DEF SpendInv
<1>4. QED
  BY <1>1, <1>2, <1>3, TypedInit, PTL DEF GateSpec
==============================================================================
