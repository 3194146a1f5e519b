SPECIFICATION FamilySpec
CONSTANTS
  Sessions = {s1, s2}
  Roots = {s1, s2}
  Nobody = nobody
  Callers = {c1}
  MaxCopy = 6
  MaxTurns = 4
  Occasions = {{"watch", "unwatch"}}
CHECK_DEADLOCK FALSE
INVARIANT StopUnregisters
