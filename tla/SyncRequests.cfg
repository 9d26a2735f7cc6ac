\* Two hosts, every request, every fault.
SPECIFICATION Spec
CONSTANTS
  Node = {n1, n2}
  Device = {d1}
  Kind = {light, unknown}
  UnknownKind = unknown
  State = {off, on}
  MsgId = {i1, i2}
  ZeroId = zero
  Absent = absent
  RandomPeerCount = 5
  MaxVersion = 2
  Faults = {"lose", "sendfail", "expire", "duplicate"}
INVARIANTS
  TypeOK
  OwnerIsNewest
  OneStatePerVersion
  UniqueIds
  UnreadableStaysHome
  NotSentBack
PROPERTIES
  ImplementsRegister
  NeverRegress
