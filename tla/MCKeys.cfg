\* Operators who store, delete, back up and restore keys while routes are
\* synthesized and the process restarts: do the live routes follow the store?
\* And checks that overlap while the clock runs: do the alerts go out?
CONSTANTS
  Providers = {"anthropic", "google", "openai", "openrouter"}
  Routes = {"sonnet", "haiku", "gemini", "catalog"}
  Catalog = {"catalog"}
  Kind <- KindOf
  Envs <- EnvsHere
  k1 = k1
  Keys = {k1, k2}
  Tokens = {t1, t2}
  BootToken = t1
  Requests = {r1, r2}
  Burst = 1
  MaxStarts = 3
  MaxFaults = 1
  None = None
  Watched = {"anthropic"}
  Checks = {q1, q2}
  Threshold = 2
  Hour = 2
  LastTick = 4
  MaxChecks = 4
  MaxUpsets = 2
  Nobody = Nobody
SYMMETRY RequestSymmetry
SPECIFICATION EitherSpec
INVARIANT LiveMatchesStore
INVARIANT AlertFires
INVARIANT AlertsBounded
CHECK_DEADLOCK FALSE
