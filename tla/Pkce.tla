--------------------------------- MODULE Pkce ---------------------------------
(***************************************************************************)
(* PKCE verification (internal/oidc/pkce.go).  Strings are opaque: the     *)
(* grammar of RFC 7636 section 4.1 picks the set Verifiers, SHA-256 and    *)
(* base64url together are the function S256.  An S256 challenge is 43      *)
(* unreserved characters, hence a string of the verifier grammar itself:   *)
(* S256 maps Verifiers into Verifiers.                                     *)
(***************************************************************************)
CONSTANTS
  Verifiers,   \* the strings ValidVerifier accepts
  S256         \* verifier -> its S256 code_challenge

ASSUME PkceAssumption ==
  /\ "" \notin Verifiers
  /\ S256 \in [Verifiers -> Verifiers]

ValidChallengeMethod(method) == method \in {"", "plain", "S256"}

ValidVerifier(v) == v \in Verifiers

(* Mutant: the plain method is hashed too. *)
DerivedHashed(method, verifier) == S256[verifier]

(* What a verifier turns into; the empty method means "plain". *)
Derived(method, verifier) ==
  IF method = "S256" THEN S256[verifier] ELSE verifier

VerifyPKCE(challenge, method, verifier) ==
  /\ ValidVerifier(verifier)
  /\ ValidChallengeMethod(method)
  /\ Derived(method, verifier) = challenge

===============================================================================
