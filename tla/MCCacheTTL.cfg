SPECIFICATION AgingSpec
CONSTANTS
  Handler = {h1, h2}
  Nobody = Nobody
  Kinds = {"list", "stats"}
  MaxListing = 1
  MaxReport = 2
  MaxToken = 1
PROPERTY ListConverges
