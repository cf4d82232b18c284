SPECIFICATION Spec
CONSTANT Requests = {r1, r2}
INVARIANT NothingLost
CHECK_DEADLOCK FALSE
