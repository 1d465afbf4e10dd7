\* Every /authorize request that differs from a good one in up to two fields,
\* with a signing key that is too small: redemptions end in server_error.
CONSTANTS
  ClientIds <- MCClientIds
  Secret <- MCSecret
  RedirectURIs <- MCRedirectURIs
  PersonaNames <- MCPersonaNames
  Signs = FALSE
  Verifiers <- MCVerifiers
  S256 <- MCS256
  Handlers = {h1}
  AuthorizeRequests <- ManyAuthorize
  TokenRequests <- FewToken
  MaxSeq = 2
SPECIFICATION Spec
INVARIANTS GrantsWereVetted RedirectsAreRegistered EveryPickIsGranted
PROPERTIES ErrorsIssueNothing
