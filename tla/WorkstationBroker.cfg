\* Three gateways one after the other, two connections, one terminal process,
\* one stream, one pending reservation.
SPECIFICATION Spec
CONSTANTS
  Conn = {c1, c2}
  Proc = {p1}
  Owner = {o1}
  Token = {k1}
  MaxGateways = 3
  MaxOperations = 2
  MaxTransfers = 1
  NULL = NULL
INVARIANTS BrokerInvariant SlotsBalanced OldWorkStops
PROPERTIES NoRotationAcrossCommit RequestsAnswered GatewayServed
