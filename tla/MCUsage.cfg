SPECIFICATION UsageSpec
CONSTANTS
  s1 = s1
  s2 = s2
  i1 = i1
  i2 = i2
  c1 = c1
  c2 = c2
  Snap = {s1, s2}
  Index = {i1, i2}
  Chunk = {c1, c2}
  Worker = {w1}
  Owner <- MCOwner
  Bytes <- MCBytes
  Logical <- MCLogical
INVARIANT FallsBackToLogical
CHECK_DEADLOCK FALSE
