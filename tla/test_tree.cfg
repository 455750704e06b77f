CONSTANTS
  File = {f, g}
  Text = {none, old, new}
  Plain = none
  Absent = Absent
  MaxChanges = 2
  MaxOpens = 1
SPECIFICATION Spec
INVARIANTS TypeOK QuietTreeIsDisk
PROPERTIES NeverBlank
CHECK_DEADLOCK FALSE
