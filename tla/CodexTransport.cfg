\* Two coroutines, two credential generations of one account, a scoped and a
\* scopeless key, compete for the one place of the pool.
SPECIFICATION Spec
CONSTANTS
  c1 = c1  c2 = c2  c3 = c3  r1 = r1  r2 = r2  r3 = r3
  Conn = {c1, c2}
  Req = {r1, r2}
  Account = {a1}
  Gen = {g1, g2}
  Scope = {s1}
  MaxConnections = 1
  MaxAccountConnections = 1
  Fallback = TRUE
  NULL = NULL
INVARIANTS PoolInvariant ExclusiveUse IdleIsCurrent NoAmbiguousReplay
PROPERTIES BoundsConnections NothingIsStuck
