------------------------------ MODULE MCProvider ------------------------------
(***************************************************************************)
(* Small instances of Provider for TLC: a confidential client "web" and a  *)
(* public client "spa", two personas, and three verifiers S256 permutes.   *)
(***************************************************************************)
EXTENDS Provider

MCClientIds    == {"web", "spa"}
MCSecret       == [web |-> "s3cret", spa |-> ""]
MCRedirectURIs == [web |-> {"web/cb", "both/cb"}, spa |-> {"spa/cb", "both/cb"}]
MCPersonaNames == {"alice", "bob"}
MCVerifiers    == {"v1", "v2", "v3"}
MCS256         == [v1 |-> "v2", v2 |-> "v3", v3 |-> "v1"]

(* Authorization requests that are granted. *)
WebAuthorize ==
  [method |-> "GET", parses |-> TRUE, client_id |-> "web",
   redirect_uri |-> "web/cb", response_type |-> "code", scope |-> <<"openid">>,
   nonce |-> "n", code_challenge |-> "", code_challenge_method |-> "",
   persona |-> "alice"]

WebPkceAuthorize ==
  [WebAuthorize EXCEPT !.code_challenge = "v1", !.persona = "bob",
                       !.scope = <<"openid", "email", "openid">>]

SpaAuthorize ==
  [WebAuthorize EXCEPT !.client_id = "spa", !.redirect_uri = "both/cb",
                       !.code_challenge = "v2", !.code_challenge_method = "S256"]

(* Token requests, for the n-th token of the run. *)
WebRedeem(n) ==
  [method |-> "POST", parses |-> TRUE, basic |-> "absent", basic_id |-> "",
   basic_secret |-> "", client_id |-> "web", client_secret |-> "s3cret",
   grant_type |-> "authorization_code", code |-> <<"pc", n>>,
   refresh_token |-> <<"pr", n>>, redirect_uri |-> "web/cb",
   code_verifier |-> "v1"]

SpaRedeem(n) ==
  [WebRedeem(n) EXCEPT !.client_id = "spa", !.client_secret = "",
                       !.redirect_uri = "both/cb"]

WebRefresh(n) == [WebRedeem(n) EXCEPT !.grant_type = "refresh_token"]
SpaRefresh(n) == [SpaRedeem(n) EXCEPT !.grant_type = "refresh_token"]

(* The concurrent instance: few requests, any token of either kind. *)
FewAuthorize == {WebAuthorize, SpaAuthorize}

FewToken ==
  UNION {{WebRedeem(n), SpaRedeem(n), WebRefresh(n), SpaRefresh(n)} : n \in 1..MaxSeq}

(* The wide instances: requests that differ from a good one in up to two    *)
(* fields, so that of any two checks both, either and neither fail.        *)
Vary(good, changes) ==
  {[good EXCEPT ![c[1]] = c[2], ![d[1]] = d[2]] : c, d \in changes}

AuthorizeChanges ==
  {<<"method", "PUT">>, <<"parses", FALSE>>,
   <<"client_id", "">>, <<"client_id", "spa">>,
   <<"redirect_uri", "">>, <<"redirect_uri", "both/cb">>, <<"redirect_uri", "evil/cb">>,
   <<"response_type", "token">>, <<"scope", <<>> >>,
   <<"code_challenge", "">>, <<"code_challenge", "v2">>,
   <<"code_challenge_method", "S256">>, <<"code_challenge_method", "S512">>,
   <<"persona", "">>, <<"persona", "mallory">>}

TokenChanges ==
  {<<"basic", "sent">>, <<"basic_id", "spa">>, <<"client_id", "spa">>,
   <<"client_secret", "">>, <<"client_secret", "wrong">>,
   <<"grant_type", "refresh_token">>, <<"grant_type", "client_credentials">>,
   <<"redirect_uri", "both/cb">>, <<"code_verifier", "v2">>, <<"code_verifier", "">>}

(* Those that decide the answer alone, whatever else is wrong. *)
EarlyChanges ==
  {<<"method", "GET">>, <<"parses", FALSE>>, <<"basic", "malformed">>,
   <<"client_id", "">>, <<"grant_type", "password">>}

(* A public client without PKCE, before and after the picker. *)
WithoutPkce ==
  {[SpaAuthorize EXCEPT !.code_challenge = "", !.code_challenge_method = "", !.persona = p] :
     p \in {"", "bob"}}

ManyAuthorize ==
  Vary(WebAuthorize, AuthorizeChanges) \union Vary(SpaAuthorize, AuthorizeChanges)
    \union WithoutPkce

ThreeAuthorize == {WebAuthorize, WebPkceAuthorize, SpaAuthorize}

(* Any two fields changed for the first token, any one for the others.     *)
ManyToken ==
  Vary(WebRedeem(1), TokenChanges) \union Vary(SpaRedeem(1), TokenChanges)
    \union {[r EXCEPT ![c[1]] = c[2]] :
               r \in UNION {{WebRedeem(n), SpaRedeem(n)} : n \in 1..MaxSeq},
               c \in EarlyChanges}
    \union {[r EXCEPT ![c[1]] = c[2]] :
               r \in UNION {{WebRedeem(n), SpaRedeem(n)} : n \in 2..MaxSeq},
               c \in TokenChanges}
===============================================================================
