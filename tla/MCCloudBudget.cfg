\* Two concurrent cloud calls over midnight, with faults and restarts, as the
\* services wire the gate and by itself; every cap can be reached, and passed by
\* a call too many.
SPECIFICATION GateFairSpec
CONSTANTS
  Calls = {c1, c2}
  Sessions = {s1}
  LastDay = 1
  MonthOf <- MCMonthOf
  SessionCap = 4
  DayCap = 3
  MonthCap = 4
  DayUsd = 1
  MonthUsd = 1
  MaxCost = 1
  MaxFaults = 2
  Wirings = {TRUE, FALSE}
  NoCall = NoCall
INVARIANTS GateTypeOK CallCapsHold CountersCoverGrants SpendBounded BlockStopsSpend
PROPERTY EveryReserveDecided
