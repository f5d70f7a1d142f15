CONSTANTS
  Arenas = {a1, a2}
  Hdr = 2
  THRESHOLD = 1
  Slack = 2
  Sizes <- MCSizes
  Counts = {2}
  StructSz = 2
  MaxAddr = 40
  MaxCalls = 6

SPECIFICATION Spec

\* Behaviours end when MaxCalls calls have been made.
CHECK_DEADLOCK FALSE

INVARIANT AllocationsDisjoint
