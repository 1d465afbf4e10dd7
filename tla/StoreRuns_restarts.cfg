\* Three runs of up to three tokens each.
CONSTANTS
  StoreGrants = {g1, g2}
  MaxTokens = 3
  MaxRuns = 3
SPECIFICATION RunsSpec
INVARIANTS StoreTypeOK SameRequestsSameTokens
PROPERTIES NeverRevived
CHECK_DEADLOCK FALSE
