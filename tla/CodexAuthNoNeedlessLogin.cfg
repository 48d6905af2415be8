\* The documented rule that local failures do not require a new login.
SPECIFICATION Spec
CONSTANTS
  p1 = p1  p2 = p2  w1 = w1  w2 = w2  w3 = w3
  Proc = {p1, p2}
  Worker = {w1, w2, w3}
  Home <- MCHome
  Account = {a1, a2}
  MaxTokens = 3
  Faults = {"persist"}
  NULL = NULL
INVARIANT NoNeedlessLogin
