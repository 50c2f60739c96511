SPECIFICATION Spec
CONSTANTS
  Key = {k1}
  Prefixed = {k1}
  Proc = {p1, p2}
  Nobody = Nobody
  Calls = {"get", "async", "peek", "store", "invalidate", "prefix", "expire"}
  MaxVersion = 1
  MaxExplicit = 1
INVARIANTS TypeOK SingleFlight
PROPERTIES Promise AllAnswered Converges
