SPECIFICATION RoomSpec
CONSTANTS
  Editors = {s1, s2}
  Edits = {e1, e2}
  Seed = {old}
  MaxUpsets = 1
INVARIANT RoomTypeOK
INVARIANT Agreement
PROPERTY Settles
CHECK_DEADLOCK FALSE
