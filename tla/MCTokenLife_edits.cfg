\* One token, any edits of the file and any course of the clock.
CONSTANTS
  Files <- MCFiles
  ScopeWords <- MCScopeWords
  Nonces <- MCNonces
  MintRequests <- MCMintRequests
  Second = 2
  MaxClock = 6
SPECIFICATION TokenSpec
INVARIANTS TokenTypeOK TokensDoNotLie UserinfoOnlyForAccessTokens UserinfoAgreesWithToken LifetimeHonoured
PROPERTIES ExpiryIsFinal
