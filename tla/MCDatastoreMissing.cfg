SPECIFICATION Spec
CONSTANTS
  Snap = {1, 2, 3}
  Dynamic = {}
  Chunk = {c1}
  Session = {x1}
  MaxOpens = 3
  MaxLate = 0
  MaxUserOps = 0
  MaxLost = 1
INVARIANT MissingChunkIsRecreated
