------------------------------- MODULE Provider -------------------------------
(***************************************************************************)
(* The running provider: the handlers of /authorize and /token over one    *)
(* Store.  net/http runs each request in a goroutine of its own.  The      *)
(* store is the only thing they share and each of its operations is        *)
(* atomic, so a handler is as many steps as it has store operations:       *)
(*                                                                         *)
(*   /authorize             one: NewCode                                   *)
(*   /token, code           two: TakeCode and the checks behind it, then   *)
(*                               signing and NewRefresh                    *)
(*   /token, refresh        two: TakeRefresh, then the same                *)
(*   client_credentials     one, without the store                         *)
(*                                                                         *)
(* Between its two steps a request is in flight: it alone holds the grant. *)
(* Its goroutine can be overtaken by any other there, and a restart loses  *)
(* it.                                                                     *)
(*                                                                         *)
(* The environment may send any request of the two constant sets at any    *)
(* time and any number of times.  Code and refresh token strings in them   *)
(* are any strings, issued or not: a response that was lost, delayed,      *)
(* duplicated or seen by another client needs no action of its own, and    *)
(* whether a client is entitled to a string is never assumed.              *)
(***************************************************************************)
EXTENDS Endpoints, Store

CONSTANTS
  Handlers,           \* goroutines that may serve /token at the same time
  AuthorizeRequests,  \* requests to /authorize
  TokenRequests,      \* requests to /token
  MaxSeq              \* bound: tokens a run of the server may hand out

ASSUME ProviderAssumption ==
  /\ MaxSeq \in Nat
  /\ \A r \in TokenRequests : r.code \in {"pc", "pr"} \X Nat
  /\ \A r \in TokenRequests : r.refresh_token \in {"pc", "pr"} \X Nat
  /\ \A q \in AuthorizeRequests : AuthorizeFields \subseteq DOMAIN q
  /\ AuthorizeRequests \cap TokenRequests = {}

VARIABLES
  inflight,   \* handler -> the request it serves and the grant it has taken
  reply,      \* the last response: the request it answers and the answer
  origin      \* history: number of a token -> the code its lineage began
              \* with and the request that code was issued for

vars == <<seq, codes, refresh, inflight, reply, origin>>

Grants == {GrantFor(q) : q \in AuthorizeRequests}

(* What a busy handler holds. *)
Work == [req : TokenRequests, grant : Grants]

Free(h) == h \notin DOMAIN inflight

(* Bound: every request in flight may still draw one token. *)
Room == seq + Cardinality(DOMAIN inflight) < MaxSeq

NoRequest == [method |-> ""]
NoReply == [to |-> NoRequest, answer |-> NoAnswer]

Respond(request, answer) == reply' = [to |-> request, answer |-> answer]

(* The string a /token request wants to redeem. *)
TokenOf(r) ==
  IF r.grant_type = "authorization_code" THEN r.code ELSE r.refresh_token

(* History of the next token: a code begins a lineage, a refresh token     *)
(* continues the one of the token it replaces.                             *)
Begins(q) == origin' = Put(origin, seq + 1, [code |-> seq + 1, request |-> q])
Continues(token) == origin' = Put(origin, seq + 1, origin[Number(token)])

-------------------------------------------------------------------------------

Init ==
  /\ StoreInit
  /\ inflight = NoTokens
  /\ reply = NoReply
  /\ origin = NoTokens

(* handleAuthorize: a check fails, the picker is shown, or a code goes out. *)
RefuseAuthorize(q) ==
  /\ ~Passes(AuthorizeChecks(q))
  /\ Respond(q, FirstFailure(AuthorizeChecks(q)))
  /\ UNCHANGED <<storeVars, inflight, origin>>

ShowPicker(q) ==
  /\ Passes(AuthorizeChecks(q))
  /\ WantsPicker(q)
  /\ Respond(q, Picker)
  /\ UNCHANGED <<storeVars, inflight, origin>>

IssueCode(q) ==
  /\ Room
  /\ Passes(AuthorizeChecks(q))
  /\ ~WantsPicker(q)
  /\ NewCode(GrantFor(q))
  /\ Begins(q)
  /\ Respond(q, CodeRedirect(q))
  /\ UNCHANGED inflight

(* Mutant: the code is taken before the client is authenticated. *)
RefuseTokenTooLate(r) ==
  /\ ~Passes(TokenChecks(r))
  /\ r.code \in DOMAIN codes
  /\ TakeCode(r.code)
  /\ Respond(r, FirstFailure(TokenChecks(r)))
  /\ UNCHANGED <<inflight, origin>>

(* handleToken and authenticateClient: refused before the store is asked. *)
RefuseToken(r) ==
  /\ ~Passes(TokenChecks(r))
  /\ Respond(r, FirstFailure(TokenChecks(r)))
  /\ UNCHANGED <<storeVars, inflight, origin>>

ClientCredentials(r) ==
  /\ Passes(TokenChecks(r))
  /\ r.grant_type = "client_credentials"
  /\ Respond(r, IF Signs THEN TokensIssued ELSE ServerError)
  /\ UNCHANGED <<storeVars, inflight, origin>>

(* The string is not in the store: never issued, or already taken. *)
UnknownToken(r) ==
  /\ Passes(TokenChecks(r))
  /\ \/ r.grant_type = "authorization_code" /\ r.code \notin DOMAIN codes
     \/ r.grant_type = "refresh_token" /\ r.refresh_token \notin DOMAIN refresh
  /\ Respond(r, InvalidGrant)
  /\ UNCHANGED <<storeVars, inflight, origin>>

(* What a handler does with the grant g it has taken: the token is gone    *)
(* from the store whether or not the checks that follow let it through.    *)
Settle(h, r, g, redeemable) ==
  /\ UNCHANGED origin
  /\ \/ /\ redeemable
        /\ inflight' = Put(inflight, h, [req |-> r, grant |-> g])
        /\ UNCHANGED reply
     \/ /\ ~redeemable
        /\ Respond(r, InvalidGrant)
        /\ UNCHANGED inflight

RedeemCode(h, r) ==
  /\ Free(h) /\ Room
  /\ Passes(TokenChecks(r))
  /\ r.grant_type = "authorization_code"
  /\ TakeCode(r.code)
  /\ Settle(h, r, codes[r.code], CodeRedeemable(r, codes[r.code]))

RedeemRefresh(h, r) ==
  /\ Free(h) /\ Room
  /\ Passes(TokenChecks(r))
  /\ r.grant_type = "refresh_token"
  /\ TakeRefresh(r.refresh_token)
  /\ Settle(h, r, refresh[r.refresh_token],
            RefreshRedeemable(r, refresh[r.refresh_token]))

(* Mutants: the nonce is lost on rotation; a handler waits until no other  *)
(* is in flight.                                                           *)
FinishWithoutNonce(h) ==
  /\ h \in DOMAIN inflight
  /\ NewRefresh([inflight[h].grant EXCEPT !.Nonce = ""])
  /\ Continues(TokenOf(inflight[h].req))
  /\ Respond(inflight[h].req, TokensIssued)
  /\ inflight' = Delete(inflight, h)

FinishAlone(h) ==
  /\ DOMAIN inflight = {h}
  /\ NewRefresh(inflight[h].grant)
  /\ Continues(TokenOf(inflight[h].req))
  /\ Respond(inflight[h].req, TokensIssued)
  /\ inflight' = Delete(inflight, h)

(* tokenResponse: the pair of tokens is signed, the refresh token rotated. *)
Finish(h) ==
  /\ h \in DOMAIN inflight
  /\ KnownPersona(inflight[h].grant.Persona) /\ Signs
  /\ NewRefresh(inflight[h].grant)
  /\ Continues(TokenOf(inflight[h].req))
  /\ Respond(inflight[h].req, TokensIssued)
  /\ inflight' = Delete(inflight, h)

(* Mutant: the refresh token is drawn before the signatures are made. *)
GiveUpTooLate(h) ==
  /\ h \in DOMAIN inflight
  /\ ~Signs
  /\ NewRefresh(inflight[h].grant)
  /\ Continues(TokenOf(inflight[h].req))
  /\ Respond(inflight[h].req, ServerError)
  /\ inflight' = Delete(inflight, h)

(* tokenResponse gives up before a refresh token is drawn: nothing of what *)
(* was taken is put back.                                                  *)
GiveUp(h) ==
  /\ h \in DOMAIN inflight
  /\ ~(KnownPersona(inflight[h].grant.Persona) /\ Signs)
  /\ Respond(inflight[h].req,
             IF KnownPersona(inflight[h].grant.Persona) THEN ServerError
                                                        ELSE InvalidGrant)
  /\ inflight' = Delete(inflight, h)
  /\ UNCHANGED <<storeVars, origin>>

(* The process is stopped and started again: nothing is persisted. *)
Restart ==
  /\ seq' = 0
  /\ codes' = NoTokens
  /\ refresh' = NoTokens
  /\ inflight' = NoTokens
  /\ reply' = NoReply
  /\ origin' = NoTokens

Next ==
  \/ \E q \in AuthorizeRequests :
        RefuseAuthorize(q) \/ ShowPicker(q) \/ IssueCode(q)
  \/ \E r \in TokenRequests :
        RefuseToken(r) \/ ClientCredentials(r) \/ UnknownToken(r)
  \/ \E h \in Handlers, r \in TokenRequests :
        RedeemCode(h, r) \/ RedeemRefresh(h, r)
  \/ \E h \in Handlers : Finish(h) \/ GiveUp(h)
  \/ Restart

Spec == Init /\ [][Next]_vars

(* A goroutine that has taken a grant blocks on nothing but the mutex,     *)
(* which is never held across a call out of the store: it gets to answer.  *)
Fairness == \A h \in Handlers : WF_vars(Finish(h) \/ GiveUp(h))

FairSpec == Spec /\ Fairness
-------------------------------------------------------------------------------
(* Types *)

(* Type invariant: every live or in-flight token string carries a number   *)
(* already drawn, and every number drawn has a lineage.                    *)
TypeOK ==
  /\ seq \in Nat
  /\ codes \in [DOMAIN codes -> Grants]
  /\ DOMAIN codes \subseteq {"pc"} \X (1..seq)
  /\ refresh \in [DOMAIN refresh -> Grants]
  /\ DOMAIN refresh \subseteq {"pr"} \X (1..seq)
  /\ inflight \in [DOMAIN inflight -> Work]
  /\ DOMAIN inflight \subseteq Handlers
  /\ \A h \in DOMAIN inflight : Number(TokenOf(inflight[h].req)) \in 1..seq
  /\ origin \in [1..seq -> [code : 1..seq, request : AuthorizeRequests]]
  /\ reply.to \in AuthorizeRequests \union TokenRequests \union {NoRequest}

-------------------------------------------------------------------------------
(* Safety *)

Lineage(token) == origin[Number(token)].code

(* The string a busy handler has taken, and what it began with. *)
Taken(h) == TokenOf(inflight[h].req)

(* The requirement behind single use and rotation, over any interleaving   *)
(* of redemptions: each authorization is held in at most one place: as     *)
(* its pending code, by one handler, or as its one current refresh token.  *)
OneHolder ==
  /\ \A t, u \in LiveTokens : Lineage(t) = Lineage(u) => t = u
  /\ \A g, h \in DOMAIN inflight : Lineage(Taken(g)) = Lineage(Taken(h)) => g = h
  /\ \A t \in LiveTokens, h \in DOMAIN inflight : Lineage(t) # Lineage(Taken(h))

(* What is held is what the user authorized: client, persona, scope, nonce *)
(* and PKCE parameters survive every rotation unchanged and are never      *)
(* mixed with those of another session.                                    *)
GrantsAsAuthorized ==
  /\ \A t \in DOMAIN codes : codes[t] = GrantFor(origin[Number(t)].request)
  /\ \A t \in DOMAIN refresh : refresh[t] = GrantFor(origin[Number(t)].request)
  /\ \A h \in DOMAIN inflight :
        inflight[h].grant = GrantFor(origin[Number(Taken(h))].request)

KnowsVerifier(r, q) ==
  \E v \in Verifiers : /\ Derived(q.code_challenge_method, v) = q.code_challenge
                       /\ r.code_verifier = v

(* The token request r comes from the client of the authorization q, and   *)
(* shows its secret or the PKCE verifier behind the challenge; where a     *)
(* challenge was sent the code needs the verifier in any case.             *)
ProvesItself(r, q) ==
  /\ ClientOf(r) = q.client_id
  /\ Authenticates(r)
  /\ r.grant_type = "authorization_code" =>
       \/ KnowsVerifier(r, q)
       \/ q.code_challenge = "" /\ Confidential(q.client_id)

(* Nobody is about to receive tokens without having proved who it is, of   *)
(* the authorization the tokens are for, several requests and rotations    *)
(* ago. *)
RedeemedByItsClient ==
  \A h \in DOMAIN inflight :
    ProvesItself(inflight[h].req, origin[Number(Taken(h))].request)

HeldGrants ==
  {codes[t] : t \in DOMAIN codes} \union {refresh[t] : t \in DOMAIN refresh}
    \union {inflight[h].grant : h \in DOMAIN inflight}

(* What tokenResponse and the refresh path take for granted of a grant     *)
(* that is held anywhere: /authorize has checked it.  It makes two         *)
(* branches of the handlers unreachable, "persona no longer exists" and    *)
(* "public client redeemed a code without PKCE".                           *)
GrantsWereVetted ==
  \A g \in HeldGrants :
    /\ KnownPersona(g.Persona)
    /\ RedirectAllowed(g.ClientID, g.RedirectURI)
    /\ HasScope(g.Scope, "openid")
    /\ Public(g.ClientID) => g.Challenge # ""

(* No open redirect: whatever is wrong with a request, and whichever check *)
(* finds it first, a Location only ever names a URI registered for the     *)
(* client the request names.                                               *)
RedirectsAreRegistered ==
  reply.answer.location # "" =>
    /\ reply.to.client_id \in ClientIds
    /\ reply.answer.location \in RedirectURIs[reply.to.client_id]

(* Whoever sees the picker can sign in as anyone on it: everything that    *)
(* could refuse one of its links has been refused before it is shown.      *)
EveryPickIsGranted ==
  reply.answer = Picker /\ reply.to \in AuthorizeRequests =>
    \A link \in PickerLinks(reply.to) :
      Passes(AuthorizeChecks(link)) /\ ~WantsPicker(link)

-------------------------------------------------------------------------------
(* Action properties *)

Answers(status) == reply' # reply /\ reply'.answer.status = status

(* Client authentication comes before the store: a request that fails it   *)
(* cannot burn a code or a refresh token of anyone.                        *)
UnauthenticatedTouchesNothing ==
  [][Answers(401) => UNCHANGED <<storeVars, inflight>>]_vars

(* An error answer hands out nothing: no request that is told it failed    *)
(* leaves a code or refresh token behind that nobody knows of.             *)
ErrorsIssueNothing ==
  [][reply' # reply /\ reply'.answer.error # ""
       => LiveTokens' \subseteq LiveTokens]_vars

(* A client that behaves: it presents, as the client that asked for the    *)
(* authorization, the redirect URI it asked with and the verifier it made  *)
(* its challenge from.                                                     *)
Conforms(r, q) ==
  /\ ClientOf(r) = q.client_id
  /\ r.grant_type = "authorization_code" =>
       /\ r.redirect_uri = q.redirect_uri
       /\ q.code_challenge # "" =>
            \E v \in Verifiers :
               /\ r.code_verifier = v
               /\ q.code_challenge = IF q.code_challenge_method = "S256"
                                     THEN S256[v] ELSE v

(* A token leaves the store into a handler's hands, or because a request   *)
(* that did not conform presented it, or with the whole process: no        *)
(* session is lost to a client that behaves.                               *)
LostOnlyByMisuse ==
  [][\A t \in LiveTokens \ LiveTokens' :
       \/ \E h \in DOMAIN inflight' \ DOMAIN inflight : TokenOf(inflight'[h].req) = t
       \/ reply' = NoReply
       \/ ~Conforms(reply'.to, origin[Number(t)].request)]_vars

-------------------------------------------------------------------------------
(* Liveness *)

(* A request whose grant has left the store is answered, or the process    *)
(* goes down: a taken grant never stays in limbo.                          *)
TakenIsAnswered ==
  \A h \in Handlers : h \in DOMAIN inflight ~> h \notin DOMAIN inflight

===============================================================================
