SPECIFICATION Spec
CONSTANTS
  Requests = {r1, r2, r3}
  Users = {u1, u2}
  First = first
  NoRoot = noroot
  NoOne = noone
  MaxUpsets = 2
SYMMETRY Symmetry
INVARIANT ThreadsDeletedWhole
PROPERTY BannedStaySilent
INVARIANT ExperienceEarned
INVARIANT RepliesAnnounced
CHECK_DEADLOCK FALSE
