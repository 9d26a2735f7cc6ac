\* A chain of hosts, no losses, but duplicates: patches act once and reach everybody.
SPECIFICATION FairChainSpec
CONSTANTS
  n1 = n1
  n2 = n2
  n3 = n3
  d1 = d1
  light = light
  off = off
  Node = {n1, n2, n3}
  Device = {d1}
  Kind = {light}
  UnknownKind = unknown
  State = {off}
  MsgId = {i1, i2, i3, i4}
  ZeroId = zero
  Absent = absent
  RandomPeerCount = 5
  MaxVersion = 2
  Faults = {"duplicate"}
INVARIANTS
  PatchedAtMostOnce
  NoPatchLost
  Converged
PROPERTIES
  PatchReachesAll
CHECK_DEADLOCK FALSE
