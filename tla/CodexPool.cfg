\* Two requests on one slot: answers that cool it, logins to another account,
\* the operator's override, quota readings of one of the accounts.
SPECIFICATION Spec
CONSTANTS
  a1 = a1  a2 = a2  r1 = r1  r2 = r2
  NSlots = 1
  Req = {r1, r2}
  Account = {a1, a2}
  Homes <- AnyHomes
  Capped = {a1}
  Offers = {1}
  Events = {"login", "limit", "usage", "routing"}
  NULL = NULL
SYMMETRY MCSymmetry
INVARIANTS PoolInvariant CooldownIsOwn
PROPERTY SourceIsKept
