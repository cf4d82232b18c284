SPECIFICATION Spec
CONSTANTS
  Users = {u}
  Visitors = {v}
  Requests = {r1, r2, r3}
  NoHash = NoHash
  Disabled = Disabled
CHECK_DEADLOCK FALSE
INVARIANT SessionsBacked
INVARIANT ResetsSpentOnce
PROPERTY RequestsEnd
PROPERTY StoreKept
