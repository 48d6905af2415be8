\* Two coroutines of one router process and one of another, two accounts, two
\* tokens, so that a login or a refresh issues a second one, every fault.
SPECIFICATION Spec
CONSTANTS
  p1 = p1  p2 = p2  w1 = w1  w2 = w2  w3 = w3
  Proc = {p1, p2}
  Worker = {w1, w2, w3}
  Home <- MCHome
  Account = {a1, a2}
  MaxTokens = 2
  Faults <- AllFaults
  NULL = NULL
INVARIANTS AuthInvariant GenerationConsumedOnce PersistedBeforeUse LocksOwned
PROPERTY LoadReturns
