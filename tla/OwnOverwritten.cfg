\* A request has the database open while a late sync message is handled.
SPECIFICATION Spec
CONSTANTS
  Reader = {r1}
  Web = {w1}
  Patches = 1
  State = {off, on}
  Absent = absent
  Free = free
  MaxVersion = 2
PROPERTIES
  OnlyWePush
