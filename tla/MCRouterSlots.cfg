\* Two concurrent turns sharing one local and one cloud route: the counters,
\* the breakers, and whether every turn ends.
SPECIFICATION FairSpec
CONSTANTS
  Turns = {t1, t2}
  local = local
  metered = metered
  gated = gated
  free = free
  Configured = {local}
  Synth = {metered}
  Cloud = {metered}
  FreeTier = {}
  Retired = {}
  ToolRoutes = {local}
  Primary = {local}
  Gated = {}
  PoliciesOf <- MCPoliciesOf
  Requests <- PlainRequests
  Strategies = {"best_value"}
  ErrorThreshold = 2
  NormalLimit = 2
  HardLimit = 2
  MaxLocal = 2
  MaxCloud = 1
  None = None
INVARIANTS TypeOK SlotsConserved ConcurrencyLimits BreakerConsistent
PROPERTY EveryTurnEnds
