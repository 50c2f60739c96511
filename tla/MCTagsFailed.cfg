SPECIFICATION TagsSpec
CONSTANTS
  Req = {r1}
  Note = {n1}
  NoNote = NoNote
INVARIANT KeptThoughWriteFailed
CHECK_DEADLOCK FALSE
