SPECIFICATION LockSpec
CONSTANTS
  Session = {x1, x2}
  Bucket = {b1}
INVARIANT CleanExitAbortsNothing
