SPECIFICATION Spec
CONSTANTS
  Snap = {1, 2}
  Dynamic = {}
  Chunk = {c1, c2}
  Session = {x1}
  MaxOpens = 3
  MaxLate = 1
  MaxUserOps = 1
  MaxLost = 0
SYMMETRY ChunkSymmetry
CONSTRAINT OneAtATime
INVARIANTS NoDanglingIndex SessionKnowledgeHolds OwedIntact
