SPECIFICATION MCSpec
CONSTANTS
  Session = {x1, x2}
  Bucket = {b1, b2}
  r1 = r1
  r2 = r2
  r3 = r3
  c1 = c1
  c2 = c2
  d = d
  Request = {r1, r2, r3}
  Conn = {c1, c2}
  Digest = {d}
  Large = {r2}
  conn <- Connections
  key <- Keys
  BodySize = 2
  Window = 2
INVARIANTS
  LockTypeOK CountsRight
  TypeOK SuccessMeansStored NeverStuck
PROPERTIES
  KeepsPromise EveryoneServed
  AsIfAlone AllAnswered
CHECK_DEADLOCK FALSE
