\* A host deletes a device of another host.
SPECIFICATION Spec
CONSTANTS
  Node = {n1, n2}
  Device = {d1}
  Kind = {light, unknown}
  UnknownKind = unknown
  State = {off, on}
  MsgId = {i1, i2}
  ZeroId = zero
  Absent = absent
  RandomPeerCount = 5
  MaxVersion = 2
  Faults = {}
PROPERTIES
  OnlyOwnDeleted
