SPECIFICATION MCSpec
CONSTANTS
  Byte = {p, r, i}
  MaxSent = 4
  u1 = u1
  la = la
  lb = lb
  lc = lc
  None = None
  User = {u1}
  Login = {la, lb, lc}
  UserOf <- MCUserOf
  Good = {la, lb}
  TTL = 1
  LastLogin = 1
  MaxTime = 3
  d1 = d1
  d2 = d2
  Digest = {d1, d2}
  ChunkSize <- MCChunkSize
  Chunksize = 2
  DiskSize = 5
  BaseSizes = {3, 5, 7}
  MaxChunks = 3
  Zero = Zero
  Handler = {q1, q2}
  Req = {r1, r2}
  Note = {n1, n2}
  NoNote = NoNote
  s1 = s1
  s2 = s2
  i1 = i1
  i2 = i2
  i3 = i3
  c1 = c1
  c2 = c2
  Snap = {s1, s2}
  Index = {i1, i2, i3}
  Chunk = {c1, c2}
  Worker = {w1, w2}
  Owner <- MCOwner
  Bytes <- MCBytes
  Logical <- MCLogical
  Half = 16
  Day = 5
  Hour = 3
INVARIANTS
  InOrder
  FailureStaysLocal
  StoredAsMeant NoHoleStored
  SerialTags ProtectionKept
  ReportExact SizesShown
  RetentionExact GraceExact
PROPERTIES Arrives NeverEarly AllExpire ListEnds
CHECK_DEADLOCK FALSE
