\* A reader and a request, every interleaving of their calls, one patch at a time.
SPECIFICATION FairSpec
CONSTANTS
  Reader = {r1}
  Web = {w1, w2}
  Patches = 1
  State = {off, on}
  Absent = absent
  Free = free
  MaxVersion = 1
INVARIANTS
  TypeOK
  OwnNeverGone
  SoundUnlessBusy
PROPERTIES
  NeverRegressUnlessBusy
  RegisterUnlessBusy
  AnnouncedUnlessBusy
  HandlersEnd
