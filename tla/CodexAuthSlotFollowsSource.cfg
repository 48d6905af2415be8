\* The documented rule that a slot serves the bootstrap file's account.
SPECIFICATION Spec
CONSTANTS
  p1 = p1  p2 = p2  w1 = w1  w2 = w2  w3 = w3
  Proc = {p1, p2}
  Worker = {w1, w2, w3}
  Home <- MCHome
  Account = {a1, a2}
  MaxTokens = 3
  Faults = {}
  NULL = NULL
INVARIANT SlotFollowsSource
