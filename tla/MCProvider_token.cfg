\* /token requests that differ from a good one in one or two fields.
CONSTANTS
  ClientIds <- MCClientIds
  Secret <- MCSecret
  RedirectURIs <- MCRedirectURIs
  PersonaNames <- MCPersonaNames
  Signs = TRUE
  Verifiers <- MCVerifiers
  S256 <- MCS256
  Handlers = {h1}
  AuthorizeRequests <- ThreeAuthorize
  TokenRequests <- ManyToken
  MaxSeq = 3
SPECIFICATION Spec
INVARIANTS RedeemedByItsClient
PROPERTIES UnauthenticatedTouchesNothing LostOnlyByMisuse
