\* Failover of one request between two slots, of one account or of two;
\* cooldowns that need not end, tokens that expire, every answer.
SPECIFICATION Spec
CONSTANTS
  a1 = a1  a2 = a2  r1 = r1  r2 = r2
  NSlots = 2
  Req = {r1}
  Account = {a1, a2}
  Homes <- OneOrTwo
  Capped = {}
  Offers = {1, 2}
  Events = {"expire", "fail", "reject", "read", "stream", "usage", "cancel"}
  NULL = NULL
INVARIANT InFlightBalanced
PROPERTY RequestTerminates
