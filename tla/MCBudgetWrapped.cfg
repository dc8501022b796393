\* The gate as the services wire it: what the operator's documents say of a
\* provider that reports no usage.
SPECIFICATION GateSpec
CONSTANTS
  Calls = {c1}
  Sessions = {s1}
  LastDay = 0
  MonthOf <- MCMonthOf
  SessionCap = 2
  DayCap = 2
  MonthCap = 2
  DayUsd = 1
  MonthUsd = 1
  MaxCost = 1
  MaxFaults = 1
  Wirings = {TRUE}
  NoCall = NoCall
INVARIANT LostUsageBlocks
