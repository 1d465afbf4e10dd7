------------------------------ MODULE Endpoints -------------------------------
(***************************************************************************)
(* What the handlers of internal/oidc/server.go decide from a request and  *)
(* the configuration alone: the order of the checks, the answer of the     *)
(* first one that fails, and what the store is asked to record.  Nothing   *)
(* here has state; module Provider adds the store.                         *)
(*                                                                         *)
(* A request is a record of the form fields a handler reads, "" where the  *)
(* field is absent, and of what net/http found on the way: `parses` is     *)
(* FALSE when ParseForm fails, `basic` is "absent", "sent" or "malformed". *)
(***************************************************************************)
EXTENDS Answers, Deployment, Pkce, Scope

(* redirectErr: the error travels to the client's redirect URI. *)
RedirectError(q, error) == Answer(302, error, q.redirect_uri)

-------------------------------------------------------------------------------
(* /authorize *)

(* The form fields it reads; state is left out. *)
AuthorizeFields ==
  {"method", "parses", "client_id", "redirect_uri", "response_type", "scope",
   "nonce", "persona", "code_challenge", "code_challenge_method"}

(* No persona is named: not a failure, the persona picker is shown. *)
WantsPicker(q) == q.persona = ""

(* Mutants: the challenge is asked for only when a method announces it;    *)
(* only when a persona has been picked.                                    *)
LacksAnnouncedChallenge(q) ==
  q.code_challenge = "" /\ q.code_challenge_method # "" /\ Public(q.client_id)

LacksChallengeOncePicked(q) ==
  q.code_challenge = "" /\ ~WantsPicker(q) /\ Public(q.client_id)

(* A public client has no secret to show at /token: it needs PKCE. *)
LacksChallenge(q) == q.code_challenge = "" /\ Public(q.client_id)

(* The client and its redirect URI are settled before anything redirects.  *)
AuthorizeChecks(q) ==
  LET challenge == q.code_challenge
      method    == q.code_challenge_method
  IN << Check(q.method \notin {"GET", "POST"}, Refuse(405, "invalid_request")),
        Check(~q.parses, Refuse(400, "invalid_request")),
        Check(~KnownClient(q.client_id), Refuse(400, "invalid_request")),
        Check(~RedirectAllowed(q.client_id, q.redirect_uri),
              Refuse(400, "invalid_request")),
        Check(q.response_type # "code",
              RedirectError(q, "unsupported_response_type")),
        Check(~HasScope(SplitScope(q.scope), "openid"),
              RedirectError(q, "invalid_scope")),
        Check(~ValidChallengeMethod(method), RedirectError(q, "invalid_request")),
        Check(LacksChallenge(q), RedirectError(q, "invalid_request")),
        Check(challenge = "" /\ method # "", RedirectError(q, "invalid_request")),
        Check(~WantsPicker(q) /\ ~KnownPersona(q.persona),
              RedirectError(q, "access_denied")) >>

(* renderPicker: an HTML page that asks for the persona. *)
Picker == Answer(200, "", "")

(* The links on it: the form as it came, with a persona set. *)
PickerLinks(q) == {[q EXCEPT !.method = "GET", !.persona = p] : p \in PersonaNames}

(* The code goes to the redirect URI. *)
CodeRedirect(q) == Answer(302, "", q.redirect_uri)

(* What the code will redeem into. *)
GrantFor(q) ==
  [ClientID        |-> q.client_id,
   RedirectURI     |-> q.redirect_uri,
   Persona         |-> q.persona,
   Nonce           |-> q.nonce,
   Scope           |-> SplitScope(q.scope),
   Challenge       |-> q.code_challenge,
   ChallengeMethod |-> q.code_challenge_method]

-------------------------------------------------------------------------------
(* /token *)

(* The credentials presented: Basic auth wins over the form fields. *)
ClientOf(r) == IF r.basic = "sent" THEN r.basic_id ELSE r.client_id
SecretOf(r) == IF r.basic = "sent" THEN r.basic_secret ELSE r.client_secret

(* authenticateClient succeeds.  A public client must send no secret, a    *)
(* confidential one must send its own: in both cases what Secret holds.    *)
Authenticates(r) ==
  /\ r.basic # "malformed"
  /\ KnownClient(ClientOf(r))
  /\ SecretOf(r) = Secret[ClientOf(r)]

(* Second result of authenticateClient: a secret was checked. *)
Authed(r) == Confidential(ClientOf(r))

GrantTypes == {"authorization_code", "refresh_token", "client_credentials"}

TokenChecks(r) ==
  << Check(r.method # "POST", Refuse(405, "invalid_request")),
     Check(~r.parses, Refuse(400, "invalid_request")),
     Check(~Authenticates(r), Refuse(401, "invalid_client")),
     Check(r.grant_type \notin GrantTypes, Refuse(400, "unsupported_grant_type")),
     Check(r.grant_type = "client_credentials" /\ ~Authed(r),
           Refuse(400, "invalid_grant")) >>

(* Mutant: the code is good for any client that is authenticated. *)
CodeRedeemableByAnyone(r, g) ==
  /\ g.RedirectURI = r.redirect_uri
  /\ g.Challenge # "" => VerifyPKCE(g.Challenge, g.ChallengeMethod, r.code_verifier)

(* grantAuthorizationCode, for the grant g just taken from the store. *)
CodeRedeemable(r, g) ==
  /\ g.ClientID = ClientOf(r)
  /\ g.RedirectURI = r.redirect_uri
  /\ IF g.Challenge # ""
     THEN VerifyPKCE(g.Challenge, g.ChallengeMethod, r.code_verifier)
     ELSE Authed(r)

(* Mutant: the client of the refresh token is not compared. *)
RefreshRedeemableByAnyone(r, g) == TRUE

(* grantRefreshToken, for the grant g just taken from the store. *)
RefreshRedeemable(r, g) == g.ClientID = ClientOf(r)

InvalidGrant == Refuse(400, "invalid_grant")
ServerError  == Refuse(500, "server_error")
TokensIssued == Answer(200, "", "")

===============================================================================
