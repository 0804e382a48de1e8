SPECIFICATION MCSpec
CONSTANTS
  Byte = 2
  LenBytes = 2
  Messages <- MCMessages
  MaxSent = 3
  MaxConn = 2
  Rids = {1, 2}
  MaxAsked = 3
INVARIANT PipesRight
PROPERTIES NewtIsChannel NewtDelivers Answered
CHECK_DEADLOCK FALSE
