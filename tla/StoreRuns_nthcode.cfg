\* Two runs of up to three tokens each, against the claim of store.go.
CONSTANTS
  StoreGrants = {g1}
  MaxTokens = 3
  MaxRuns = 2
SPECIFICATION RunsSpec
INVARIANTS NthCodeIsAlwaysTheSame
CHECK_DEADLOCK FALSE
