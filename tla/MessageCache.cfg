\* Two messages, two peers, time enough for three quarantines in a row.
SPECIFICATION Spec
CONSTANTS
  Msg = {i1, i2}
  Peer = {p1, p2}
  TTL = 2
  Nothing = nothing
  MaxTime = 7
INVARIANTS
  TypeOK
PROPERTIES
  ImplementsQuarantine
  AcceptedOncePerTTL
