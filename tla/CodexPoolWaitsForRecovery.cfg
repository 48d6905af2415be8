\* The documented rule that a request waits for a slot to recover.
SPECIFICATION Spec
CONSTANTS
  a1 = a1  a2 = a2  r1 = r1  r2 = r2
  NSlots = 2
  Req = {r1}
  Account = {a1, a2}
  Homes <- AnyHomes
  Capped = {}
  Offers = {1}
  Events = {"fail"}
  NULL = NULL
PROPERTY WaitsForRecovery
