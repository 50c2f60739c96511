SPECIFICATION Spec
CONSTANTS
  Handler = {h1, h2}
  Nobody = Nobody
  Kinds = {"list", "change", "delete", "finish"}
  MaxListing = 2
  MaxReport = 0
  MaxToken = 2
SYMMETRY Symmetry
INVARIANTS TypeOK OwnChangesShown TokensDelivered
