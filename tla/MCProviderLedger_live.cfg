\* Two handlers race for the tokens of up to four authorizations, each of
\* them fair.
CONSTANTS
  ClientIds <- MCClientIds
  Secret <- MCSecret
  RedirectURIs <- MCRedirectURIs
  PersonaNames <- MCPersonaNames
  Signs = TRUE
  Verifiers <- MCVerifiers
  S256 <- MCS256
  Handlers = {h1, h2}
  AuthorizeRequests <- FewAuthorize
  TokenRequests <- FewToken
  MaxSeq = 4
SPECIFICATION FairSpec
INVARIANTS TypeOK OneHolder GrantsAsAuthorized
PROPERTIES TakenIsAnswered ImplementsLedger
