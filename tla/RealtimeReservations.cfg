\* Three reservation objects, three clients on one slot, two accounts; at most
\* two sessions, one per client, one per account.
SPECIFICATION Spec
CONSTANTS
  v1 = v1  v2 = v2  v3 = v3  c1 = c1  c2 = c2  c3 = c3  s1 = s1  a1 = a1  a2 = a2
  Res = {v1, v2, v3}
  Client = {c1, c2, c3}
  Slot = {s1}
  SlotOf <- MCSlotOf
  Account = {a1, a2}
  MaxSessions = 2
  PerClient = 1
  PerAccount = 1
  NULL = NULL
INVARIANTS ReservationInvariant TicketsMatch RunningIsListed
PROPERTIES BoundsSessions ReservationsEnd
