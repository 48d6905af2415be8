\* The documented rule on which cooldowns a usage reading clears.
SPECIFICATION Spec
CONSTANTS
  a1 = a1  a2 = a2  r1 = r1  r2 = r2
  NSlots = 1
  Req = {r1}
  Account = {a1, a2}
  Homes <- AnyHomes
  Capped = {}
  Offers = {1}
  Events = {"login", "limit", "usage"}
  NULL = NULL
PROPERTY ReadingClearsOwn
