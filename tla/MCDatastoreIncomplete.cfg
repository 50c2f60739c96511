SPECIFICATION Spec
CONSTANTS
  Snap = {1, 2}
  Dynamic = {}
  Chunk = {c1}
  Session = {x1}
  MaxOpens = 2
  MaxLate = 0
  MaxUserOps = 0
  MaxLost = 0
INVARIANT IncompleteIsRemoved
