-------------------------------- MODULE Issuer --------------------------------
(***************************************************************************)
(* What the issuer of a configuration writes (internal/oidc/issuer.go),    *)
(* with the order of the claims: persona tokens and the discovery          *)
(* document.  A configuration is a record as PersonaFile builds it; an     *)
(* instant is a whole second (TokenLife has the fractions).                *)
(***************************************************************************)
EXTENDS Jose, Scope

LiveClock == -1

IssueTime(cfg, clock) == IF cfg.IssuedAt = LiveClock THEN clock ELSE cfg.IssuedAt

(* addPersonaClaims, as pairs to set one after the other. *)
ReleasedPairs(p, scopes) ==
  (IF HasScope(scopes, "email") /\ p.Email # ""
   THEN << <<"email", p.Email>>, <<"email_verified", p.EmailVerified>> >> ELSE <<>>)
  \o (IF HasScope(scopes, "groups") /\ p.Groups # <<>> THEN << <<"groups", p.Groups>> >> ELSE <<>>)

AddPersonaClaims(o, p, scopes, walk) ==
  LET released == SetAll(o, ReleasedPairs(p, scopes))
  IN IF HasScope(scopes, "profile") THEN SetSorted(released, p.Claims, walk) ELSE released

DeriveID(cfg, sub, client, at, scopes) == <<cfg.Seed, sub, client, at, scopes>>

IDTokenClaims(cfg, p, client, nonce, scopes, at, walk) ==
  LET registered == << <<"iss", cfg.Issuer>>, <<"sub", p.Subject>>, <<"aud", client>>,
                       <<"exp", at + cfg.TTL>>, <<"iat", at>>, <<"auth_time", at>> >>
                    \o (IF nonce # "" THEN << <<"nonce", nonce>> >> ELSE <<>>)
  IN AddPersonaClaims(registered, p, scopes, walk)

AccessTokenClaims(cfg, p, client, scopes, at, walk) ==
  LET registered == << <<"iss", cfg.Issuer>>, <<"sub", p.Subject>>, <<"aud", client>>,
                       <<"client_id", client>>, <<"exp", at + cfg.TTL>>, <<"iat", at>>,
                       <<"jti", DeriveID(cfg, p.Subject, client, at, scopes)>>,
                       <<"scope", scopes>>, <<"token_use", "access">> >>
  IN AddPersonaClaims(registered, p, scopes, walk)

(* Mutant: nonce is forgotten, as not every ID token has one. *)
AlwaysSupportedButNonce == {"iss", "sub", "aud", "exp", "iat", "auth_time"}

AlwaysSupported == {"iss", "sub", "aud", "exp", "iat", "auth_time", "nonce"}

(* Every claim that some persona can release, sorted. *)
ClaimsSupported(cfg, walk) ==
  LET Releases(p) == (IF p.Email # "" THEN {"email", "email_verified"} ELSE {})
                     \union (IF p.Groups # <<>> THEN {"groups"} ELSE {})
                     \union DOMAIN p.Claims
      set == AlwaysSupported \union UNION {Releases(p) : p \in ToSet(cfg.Personas)}
  IN Sorted(Keep(walk, set))

(* Of the discovery document, what depends on the configuration. *)
Discovery(cfg, key, walk) ==
  << <<"issuer", cfg.Issuer>>,
     <<"id_token_signing_alg_values_supported", <<key.alg>>>>,
     <<"claims_supported", ClaimsSupported(cfg, walk)>> >>

JWKS(key) == << <<"keys", <<PublicJWK(key)>>>> >>

===============================================================================
