SPECIFICATION LiveSpec
CONSTANTS
  Pages = {p1}
  Others = {u1}
  MaxComments = 2
  MaxConnections = 2
  Buffer = 1
  NoConnection = noconnection
  NoRead = noread
  Sent = sent
  MaxLosses = 1
PROPERTY WritersAnswered
INVARIANT PagesCatchUp
CHECK_DEADLOCK FALSE
