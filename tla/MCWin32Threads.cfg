SPECIFICATION Spec
CONSTANTS
  Parents = {p1, p2}
  Ids = {i1, i2}
  Handles = {h1, h2}
  Plans <- MCPlansAll
  CreateCanFail = TRUE
  NoThread = NoThread
  NoId = NoId
INVARIANT TypeOK
PROPERTIES AllEnd
CHECK_DEADLOCK FALSE
