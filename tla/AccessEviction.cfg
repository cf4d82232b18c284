SPECIFICATION Spec
CONSTANTS
  Users = {u1, u2}
  Rooms = {body, guide}
  Sessions = {s1, s2}
  Managers = {m1, m2}
INVARIANT EditorsOnly
PROPERTY RevokedLeave
