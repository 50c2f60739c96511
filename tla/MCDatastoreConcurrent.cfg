SPECIFICATION Spec
CONSTANTS
  Snap = {1, 2}
  Dynamic = {1, 2}
  Chunk = {c1}
  Session = {x1, x2}
  MaxOpens = 2
  MaxLate = 0
  MaxUserOps = 0
  MaxLost = 1
SYMMETRY SlotSymmetry
INVARIANTS TypeOK IndInv OwedInv
PROPERTY LiveSessionsKeepData
