\* The cap and the rate limit are reloaded while requests of two sessions come and
\* go, and idle entries are reaped.
CONSTANTS
  c1 = c1
  c2 = c2
  s1 = s1
  s2 = s2
  Calls = {c1, c2}
  Sessions = {s1, s2}
  NoSession = NoSession
  None = None
  Configs <- MCConfigs
  DefaultBurst = 2
  ReapAge = 1
  MaxReloads = 2
SYMMETRY Symmetry
SPECIFICATION LimitsSpec
INVARIANTS PoolIsSound BurstRespected
PROPERTIES RejectedForOwnRequests
