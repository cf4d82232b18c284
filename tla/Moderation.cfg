SPECIFICATION Spec
CONSTANTS
  Members = {m}
  Admins = {a}
  Requests = {r1, r2, r3, r4}
  Targets = {t}
  KeyLimit = 1
SYMMETRY Symmetry
INVARIANT ReportedOnce
INVARIANT KeysLimited
INVARIANT ShutOut
INVARIANT AuditAccounts
CHECK_DEADLOCK FALSE
