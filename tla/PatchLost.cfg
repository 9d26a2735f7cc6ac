\* A patch request and a patch message at once.
SPECIFICATION Spec
CONSTANTS
  Reader = {r1}
  Web = {w1}
  Patches = 2
  State = {off, on}
  Absent = absent
  Free = free
  MaxVersion = 2
PROPERTIES
  AnnouncesItsState
