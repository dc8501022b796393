---------------------------- MODULE CloudBudget ----------------------------
(***************************************************************************)
(* CloudBudgetGate (core/cloud_budget.py): the persisted call and spend    *)
(* caps that stand between the router and every metered cloud provider.    *)
(*                                                                         *)
(* reserve runs under the gate's asyncio lock but awaits the database      *)
(* several times; record_usage runs outside the lock.  Each action is the  *)
(* code between two awaits that matter to another coroutine.  The database *)
(* may fail at any access (a fault); its counters, usage events and the    *)
(* accounting block survive a restart, the lock and _store_ready do not.   *)
(*                                                                         *)
(* Calls are the cloud generation slots of the router: a turn reaches the  *)
(* gate only while it holds one (Router!ConcurrencyLimits).                *)
(***************************************************************************)
EXTENDS Integers, FiniteSets

CONSTANTS
  Calls,          \* cloud generation slots
  Sessions,       \* session ids
  LastDay,        \* bound: UTC days 0..LastDay
  MonthOf,        \* the UTC month of each day
  SessionCap, DayCap, MonthCap,   \* max_calls_per_*; 0 is no cap
  DayUsd, MonthUsd,               \* max_*_usd; 0 is no cap
  MaxCost,        \* bound: most a single call is estimated at or costs
  MaxFaults,      \* bound: database faults
  Wirings,        \* whether the gate may be wrapped in a MultiProviderBudgetGate
  NoCall

Days == 0..LastDay
Months == {MonthOf[d] : d \in Days}

ASSUME BudgetAssumption ==
  /\ IsFiniteSet(Calls) /\ NoCall \notin Calls
  /\ LastDay \in Nat
  /\ MonthOf \in [Days -> Nat]
  /\ \A d, e \in Days : d <= e => MonthOf[d] <= MonthOf[e]
  /\ SessionCap \in Nat /\ DayCap \in Nat /\ MonthCap \in Nat
  /\ DayUsd \in Nat /\ MonthUsd \in Nat /\ MaxCost \in Nat \ {0}
  /\ MaxFaults \in Nat
  /\ Wirings \subseteq BOOLEAN

VARIABLES
  stage,          \* where a call is
  sess, est,      \* its session and estimated cost
  key,            \* the day its reservation is booked on
  lock,           \* the call that holds _lock, or NoCall
  day,            \* the UTC date
  multi,          \* the gate is wrapped, as build_app_services wires it
  spillover,      \* config.enabled
  ready,          \* _store_ready
  blocked,        \* last_accounting_error is set
  counter,        \* cloud_budget_counter
  spend,          \* cloud_budget_usage_event, summed per day and per month
  faults,         \* database faults so far
  granted,        \* history: reservations answered "allowed", per key
  lost,           \* history: since the block was last cleared a call returned
                  \* without usage that could be recorded
  sinceBlock      \* history: grants while blocked

callVars  == <<stage, sess, est, key>>
dbVars    == <<blocked, counter, spend>>
historyVars == <<granted, lost, sinceBlock>>
gateVars == <<callVars, lock, day, multi, spillover, ready, dbVars, faults, historyVars>>

Keys    == ({"session"} \X Sessions) \cup ({"day"} \X Days) \cup ({"month"} \X Months)
Periods == ({"day"} \X Days) \cup ({"month"} \X Months)
PeriodsOf(d) == {<<"day", d>>, <<"month", MonthOf[d]>>}
KeysOf(c) == {<<"session", sess[c]>>} \cup PeriodsOf(key[c])

CapOf(k) == CASE k[1] = "session" -> SessionCap
              [] k[1] = "day"     -> DayCap
              [] OTHER            -> MonthCap
UsdCapOf(k) == IF k[1] = "day" THEN DayUsd ELSE MonthUsd

Stages == {"idle", "wait", "gate", "check", "commit", "provider", "record"}
InLock == {"gate", "check", "commit"}

GateInit ==
  /\ stage = [c \in Calls |-> "idle"]
  /\ sess \in [Calls -> Sessions]
  /\ est = [c \in Calls |-> 0]
  /\ key = [c \in Calls |-> 0]
  /\ lock = NoCall
  /\ day = 0
  /\ multi \in Wirings
  /\ spillover \in BOOLEAN
  /\ ready = FALSE
  /\ blocked = FALSE
  /\ counter = [k \in Keys |-> 0]
  /\ spend = [k \in Periods |-> 0]
  /\ faults = 0
  /\ granted = [k \in Keys |-> 0]
  /\ lost = FALSE
  /\ sinceBlock = 0
-----------------------------------------------------------------------------
GateGoto(c, l) == stage' = [stage EXCEPT ![c] = l]

\* Mutant: a refusal leaves the lock taken.
ReturnMutant(c, l) == GateGoto(c, l) /\ lock' = IF l = "idle" THEN lock ELSE NoCall

\* reserve returns, leaving the lock.
Return(c, l) == GateGoto(c, l) /\ lock' = NoCall

\* n database accesses fail.
Fault(n) == faults + n <= MaxFaults /\ faults' = faults + n

Bump(f, ks) == [k \in DOMAIN f |-> IF k \in ks THEN f[k] + 1 ELSE f[k]]

\* An exception from the database: the store is not ready, and
\* _set_accounting_block sets the block unless spillover is off by then, or that
\* write fails too, which it hides.
StoreFailed ==
  /\ ready' = FALSE
  /\ \/ Fault(1) /\ blocked' = (blocked \/ spillover)
     \/ Fault(2) /\ UNCHANGED blocked
-----------------------------------------------------------------------------
(* reserve *)

\* The router asks for a reservation.
Ask(c) ==
  /\ stage[c] = "idle"
  /\ \E s \in Sessions, e \in 1..MaxCost :
       sess' = [sess EXCEPT ![c] = s] /\ est' = [est EXCEPT ![c] = e]
  /\ GateGoto(c, "wait")
  /\ UNCHANGED <<key, lock, day, multi, spillover, ready, dbVars, faults, historyVars>>

\* Mutant: reserve does not take the lock.
ReserveEnterMutant(c) ==
  /\ stage[c] = "wait"
  /\ spillover
  /\ GateGoto(c, "gate")
  /\ UNCHANGED <<sess, est, key, lock, day, multi, spillover, ready, dbVars, faults, historyVars>>

ReserveEnter(c) ==
  /\ stage[c] = "wait"
  /\ lock = NoCall
  /\ spillover
  /\ lock' = c
  /\ GateGoto(c, "gate")
  /\ UNCHANGED <<sess, est, key, day, multi, spillover, ready, dbVars, faults, historyVars>>

\* Spillover is off, or the call is over a per-call token cap; those are only
\* looked at when a USD cap is set.
ReserveRefused(c) ==
  /\ stage[c] = "wait"
  /\ lock = NoCall
  /\ ~spillover \/ DayUsd > 0 \/ MonthUsd > 0
  /\ GateGoto(c, "idle")
  /\ UNCHANGED <<sess, est, key, lock, day, multi, spillover, ready, dbVars, faults, historyVars>>

\* Mutant: the accounting block is not consulted.
ReserveGateMutant(c) ==
  /\ stage[c] = "gate"
  /\ ready' = TRUE
  /\ GateGoto(c, "check")
  /\ key' = [key EXCEPT ![c] = day]
  /\ UNCHANGED <<sess, est, lock, day, multi, spillover, dbVars, faults, historyVars>>

\* init and the block are read; the keys are fixed here.  An error reading the
\* block counts as no block.
ReserveGate(c) ==
  /\ stage[c] = "gate"
  /\ ready' = TRUE
  /\ \/ /\ ~blocked /\ UNCHANGED faults
        /\ GateGoto(c, "check") /\ UNCHANGED lock
     \/ /\ blocked /\ UNCHANGED faults
        /\ Return(c, "idle")
     \/ /\ blocked /\ Fault(1)
        /\ GateGoto(c, "check") /\ UNCHANGED lock
  /\ key' = [key EXCEPT ![c] = day]
  /\ UNCHANGED <<sess, est, day, multi, spillover, dbVars, historyVars>>

\* init fails: budget_store_unavailable.
ReserveNoStore(c) ==
  /\ stage[c] = "gate"
  /\ ~ready
  /\ Fault(1)
  /\ Return(c, "idle")
  /\ UNCHANGED <<sess, est, key, day, multi, spillover, ready, dbVars, historyVars>>

\* Mutant: the estimate alone is held against the USD caps.
CapExhaustedMutant(c) ==
  \/ \E k \in KeysOf(c) : CapOf(k) > 0 /\ counter[k] >= CapOf(k)
  \/ \E k \in PeriodsOf(day) : UsdCapOf(k) > 0 /\ est[c] > UsdCapOf(k)

\* _cap_exhausted_reason: counters of the booked keys, usage of today.
CapExhausted(c) ==
  \/ \E k \in KeysOf(c) : CapOf(k) > 0 /\ counter[k] >= CapOf(k)
  \/ \E k \in PeriodsOf(day) : UsdCapOf(k) > 0 /\ spend[k] + est[c] > UsdCapOf(k)

ReserveCheck(c) ==
  /\ stage[c] = "check"
  /\ IF CapExhausted(c)
     THEN Return(c, "idle")
     ELSE GateGoto(c, "commit") /\ UNCHANGED lock
  /\ UNCHANGED <<sess, est, key, day, multi, spillover, ready, dbVars, faults, historyVars>>

\* Mutant: the session's counter is not persisted.
ReserveCommitMutant(c) ==
  /\ stage[c] = "commit"
  /\ counter' = Bump(counter, PeriodsOf(key[c]))
  /\ granted' = Bump(granted, KeysOf(c))
  /\ sinceBlock' = IF blocked THEN sinceBlock + 1 ELSE sinceBlock
  /\ Return(c, "provider")
  /\ UNCHANGED <<sess, est, key, day, multi, spillover, ready, blocked, spend, faults, lost>>

\* The three upserts are one transaction.
ReserveCommit(c) ==
  /\ stage[c] = "commit"
  /\ counter' = Bump(counter, KeysOf(c))
  /\ granted' = Bump(granted, KeysOf(c))
  /\ sinceBlock' = IF blocked THEN sinceBlock + 1 ELSE sinceBlock
  /\ Return(c, "provider")
  /\ UNCHANGED <<sess, est, key, day, multi, spillover, ready, blocked, spend, faults, lost>>

\* Mutant: a failed reservation is compensated even when it never committed.
ReserveFaultMutant(c) ==
  /\ stage[c] \in {"check", "commit"}
  /\ StoreFailed
  /\ counter' = [k \in Keys |-> IF k \in KeysOf(c) THEN counter[k] - 1 ELSE counter[k]]
  /\ Return(c, "idle")
  /\ UNCHANGED <<sess, est, key, day, multi, spillover, spend, historyVars>>

\* The database fails during the check, or at the commit before or after it
\* took effect: the reservation is refused.
ReserveFault(c) ==
  /\ stage[c] \in {"check", "commit"}
  /\ StoreFailed
  /\ counter' \in {counter} \cup (IF stage[c] = "commit" THEN {Bump(counter, KeysOf(c))} ELSE {})
  /\ Return(c, "idle")
  /\ UNCHANGED <<sess, est, key, day, multi, spillover, spend, historyVars>>
-----------------------------------------------------------------------------
(* The provider call and record_usage *)

ProviderReply(c) ==
  /\ stage[c] = "provider"
  /\ GateGoto(c, "record")
  /\ UNCHANGED <<sess, est, key, lock, day, multi, spillover, ready, dbVars, faults, historyVars>>

ProviderFail(c) ==
  /\ stage[c] = "provider"
  /\ GateGoto(c, "idle")
  /\ UNCHANGED <<sess, est, key, lock, day, multi, spillover, ready, dbVars, faults, historyVars>>

\* A usage event of some cost, dated now.
Book == \E cost \in 0..MaxCost :
          spend' = [k \in Periods |-> IF k \in PeriodsOf(day) THEN spend[k] + cost ELSE spend[k]]

RecordUsage(c) ==
  /\ stage[c] = "record"
  /\ spillover /\ ~multi
  /\ ready' = TRUE
  /\ Book
  /\ GateGoto(c, "idle")
  /\ UNCHANGED <<sess, est, key, lock, day, multi, spillover, blocked, counter, faults,
                 historyVars>>

\* The reply carries no usable usage: the gate blocks all spend.
RecordMissing(c) ==
  /\ stage[c] = "record"
  /\ spillover /\ ~multi
  /\ \/ blocked' = TRUE /\ ready' = TRUE /\ UNCHANGED faults
     \/ Fault(1) /\ ready' = TRUE /\ UNCHANGED blocked       \* the block's write
     \/ ~ready /\ Fault(1) /\ UNCHANGED ready /\ blocked' = TRUE   \* init
     \/ ~ready /\ Fault(2) /\ UNCHANGED <<ready, blocked>>
  /\ lost' = TRUE
  /\ GateGoto(c, "idle")
  /\ UNCHANGED <<sess, est, key, lock, day, multi, spillover, counter, spend, granted, sinceBlock>>

\* init fails, and the usage is dropped without a block; or the event's
\* insert fails; or something after its commit does.
RecordFault(c) ==
  /\ stage[c] = "record"
  /\ spillover /\ ~multi
  /\ \/ ~ready /\ Fault(1) /\ UNCHANGED <<ready, blocked, spend>>
     \/ StoreFailed /\ UNCHANGED spend
     \/ StoreFailed /\ Book
  /\ GateGoto(c, "idle")
  /\ UNCHANGED <<sess, est, key, lock, day, multi, spillover, counter, historyVars>>

\* Spillover was switched off while the call was out, or before a block could be
\* written: nothing is recorded and nothing blocks.
RecordOff(c) ==
  /\ stage[c] = "record"
  /\ ~spillover /\ ~multi
  /\ GateGoto(c, "idle")
  /\ UNCHANGED <<sess, est, key, lock, day, multi, spillover, ready, dbVars, faults, historyVars>>

\* MultiProviderBudgetGate.record_usage knows only providers with a gate of
\* their own; a call the global gate admitted is recorded nowhere.
RecordDropped(c) ==
  /\ stage[c] = "record"
  /\ multi
  /\ lost' \in {lost, lost \/ spillover}
  /\ GateGoto(c, "idle")
  /\ UNCHANGED <<sess, est, key, lock, day, multi, spillover, ready, dbVars, faults, granted,
                 sinceBlock>>
-----------------------------------------------------------------------------
(* Everyone else *)

\* The turn's task is cancelled; async with gives the lock back and an open
\* transaction is rolled back.
CancelCall(c) ==
  /\ stage[c] # "idle"
  /\ GateGoto(c, "idle")
  /\ lock' = IF lock = c THEN NoCall ELSE lock
  /\ UNCHANGED <<sess, est, key, day, multi, spillover, ready, dbVars, faults, historyVars>>

\* availability, and any other caller of init.
Availability ==
  /\ spillover
  /\ ready' \in BOOLEAN
  /\ IF ready' THEN UNCHANGED faults ELSE Fault(1)
  /\ UNCHANGED <<callVars, lock, day, multi, spillover, dbVars, historyVars>>

\* The operator clears the block.
ClearAccountingBlock ==
  /\ spillover \/ multi
  /\ blocked' = FALSE
  /\ lost' = FALSE
  /\ sinceBlock' = 0
  /\ UNCHANGED <<callVars, lock, day, multi, spillover, ready, counter, spend, faults, granted>>

\* The operator switches spillover; switching it on tries init.
SetEnabled ==
  /\ spillover' = ~spillover
  /\ ready' \in {ready, ready \/ ~spillover}
  /\ UNCHANGED <<callVars, lock, day, multi, dbVars, faults, historyVars>>

NextDay ==
  /\ day < LastDay
  /\ day' = day + 1
  /\ UNCHANGED <<callVars, lock, multi, spillover, ready, dbVars, faults, historyVars>>

\* The process dies and starts again on the same database.
Restart ==
  /\ stage' = [c \in Calls |-> "idle"]
  /\ lock' = NoCall
  /\ ready' = FALSE
  /\ UNCHANGED <<sess, est, key, day, multi, spillover, dbVars, faults, historyVars>>
-----------------------------------------------------------------------------
Reserve(c) ==
  \/ ReserveGate(c) \/ ReserveNoStore(c) \/ ReserveCheck(c) \/ ReserveCommit(c)
  \/ ReserveFault(c)
Enter(c) == ReserveEnter(c) \/ ReserveRefused(c)
Record(c) ==
  \/ RecordUsage(c) \/ RecordMissing(c) \/ RecordFault(c) \/ RecordOff(c)
  \/ RecordDropped(c)

GateNext ==
  \/ \E c \in Calls : \/ Ask(c) \/ Enter(c) \/ Reserve(c)
                      \/ ProviderReply(c) \/ ProviderFail(c) \/ Record(c)
                      \/ CancelCall(c)
  \/ Availability \/ ClearAccountingBlock \/ SetEnabled \/ NextDay \/ Restart

GateSpec == GateInit /\ [][GateNext]_gateVars

\* Every await of reserve ends, and asyncio.Lock serves its waiters in order,
\* so a waiting call that finds the lock free again and again gets it.
GateFairSpec == GateSpec /\ \A c \in Calls : WF_gateVars(Reserve(c)) /\ SF_gateVars(Enter(c))
-----------------------------------------------------------------------------
(* Properties *)

\* Every variable has its type; no persisted counter or sum goes below zero.
GateTypeOK ==
  /\ stage \in [Calls -> Stages]
  /\ sess \in [Calls -> Sessions]
  /\ est \in [Calls -> 0..MaxCost]
  /\ key \in [Calls -> Days]
  /\ lock \in Calls \cup {NoCall}
  /\ day \in Days
  /\ multi \in BOOLEAN /\ spillover \in BOOLEAN /\ ready \in BOOLEAN /\ blocked \in BOOLEAN
  /\ counter \in [Keys -> Nat]
  /\ spend \in [Periods -> Nat]
  /\ faults \in 0..MaxFaults
  /\ granted \in [Keys -> Nat]
  /\ lost \in BOOLEAN
  /\ sinceBlock \in Nat

\* No session, UTC day or UTC month is granted more calls than its cap, across
\* concurrent turns, midnight, cancelled turns, database faults and restarts:
\* the check and the increment are separate awaits.
CallCapsHold == \A k \in Keys : CapOf(k) > 0 => granted[k] <= CapOf(k)

\* A grant is never missing from the persisted counters; they may be ahead of
\* the grants (a commit whose answer was lost), never behind.
CountersCoverGrants == \A k \in Keys : granted[k] <= counter[k]

\* A reservation checks the caps against recorded usage only, so calls already
\* out may take the spend of a day or month past its cap, but by no more than
\* one call per cloud slot.
SpendBounded ==
  \A k \in Periods : UsdCapOf(k) > 0 =>
    spend[k] <= UsdCapOf(k) + MaxCost * Cardinality(Calls)

\* "Accounting blocks are raised by record_usage when a provider returns no
\* token-usage metadata or invalid values" (api/admin.py; "the gate paused all
\* spend" in docs/dr-runbook.md): a call that returned without usable usage while
\* spillover was on has blocked all further spend, unless a fault of the
\* database kept the block from being written.
LostUsageBlocks == lost => blocked \/ faults >= 1

\* Once the gate is blocked at most one reservation still gets through: the
\* one that had read the block before it was set, or one per failed read.
BlockStopsSpend == sinceBlock <= 1 + faults

\* Every caller waiting on the gate's lock is answered.
EveryReserveDecided ==
  \A c \in Calls : stage[c] = "wait" ~> stage[c] \in {"idle", "provider"}
=============================================================================
