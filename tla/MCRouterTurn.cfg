\* One turn, every kind of request and strategy, over local, paid, gated and
\* free-tier routes: what may reach a cloud provider, and what the caller sees.
SPECIFICATION Spec
CONSTANTS
  Turns = {t1}
  local = local
  metered = metered
  gated = gated
  free = free
  Configured = {local, gated, free}
  Synth = {metered}
  Cloud = {metered, gated, free}
  FreeTier = {free}
  Retired = {}
  ToolRoutes = {local, gated}
  Primary = {local}
  Gated = {gated}
  PoliciesOf <- MCPoliciesOf
  Requests <- AllRequests
  Strategies = {"best_value", "local_only", "cloud_only"}
  ErrorThreshold = 1
  NormalLimit = 1
  HardLimit = 2
  MaxLocal = 2
  MaxCloud = 1
  None = None
INVARIANT PrivacyHolds
PROPERTY NoMixedAnswer
