\* The life of a process: joins and leaves one after the other, among sends and
\* readers, until a shutdown request or a signal ends it.
SPECIFICATION ProcessSpec
CONSTANTS
  Main = main
  Web = {main, w1, w2}
  Socket = {s1, s2}
  Nil = nil
  Managers = 1
INVARIANTS
  TypeOK
  DisconnectedIsDeaf
  ConnectedIsHeard
PROPERTIES
  ReadersEnd
  EndsWhenAsked
  RequestsAnswered
CHECK_DEADLOCK FALSE
