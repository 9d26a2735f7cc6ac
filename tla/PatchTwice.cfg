\* The quarantine runs out while a copy of a patch request is on its way.
SPECIFICATION ChainSpec
CONSTANTS
  n1 = n1
  n2 = n2
  n3 = n3
  d1 = d1
  light = light
  off = off
  Node = {n1, n2, n3}
  Device = {d1}
  Kind = {light}
  UnknownKind = unknown
  State = {off, on}
  MsgId = {i1, i2, i3}
  ZeroId = zero
  Absent = absent
  RandomPeerCount = 5
  MaxVersion = 2
  Faults = {"expire"}
INVARIANTS
  PatchedAtMostOnce
CHECK_DEADLOCK FALSE
