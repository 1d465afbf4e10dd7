---------------------------- MODULE ProviderProofs ----------------------------
(***************************************************************************)
(* Theorems about Provider, for every deployment, every set of requests,   *)
(* any number of handlers and every bound: its invariants, what a step of  *)
(* it may never do, who is shown the picker, and that it implements the    *)
(* steps of GrantLedger, which leaves the fairness of ImplementsLedger.    *)
(***************************************************************************)
EXTENDS ProviderLedger, AnswerProofs, FiniteSetTheorems

(* The two map operations of the store. *)
LEMMA PutMap ==
  ASSUME NEW m, NEW k, NEW v, NEW S, m \in [DOMAIN m -> S], v \in S
  PROVE  /\ DOMAIN Put(m, k, v) = DOMAIN m \union {k}
         /\ Put(m, k, v) \in [DOMAIN Put(m, k, v) -> S]
         /\ Put(m, k, v)[k] = v
         /\ \A x \in DOMAIN m \ {k} : Put(m, k, v)[x] = m[x]
BY DEF Put

LEMMA DeleteMap ==
  ASSUME NEW m, NEW k, NEW S, m \in [DOMAIN m -> S]
  PROVE  /\ DOMAIN Delete(m, k) = DOMAIN m \ {k}
         /\ Delete(m, k) \in [DOMAIN Delete(m, k) -> S]
         /\ \A x \in DOMAIN m \ {k} : Delete(m, k)[x] = m[x]
BY DEF Delete, Restrict

(* The empty map. *)
LEMMA EmptyMap ==
  ASSUME NEW S
  PROVE  DOMAIN NoTokens = {} /\ NoTokens \in [DOMAIN NoTokens -> S]
BY DEF NoTokens

-------------------------------------------------------------------------------

(* Drawing a token leaves the history of those before it alone. *)
LEMMA OriginGrows ==
  ASSUME TypeOK, NEW e \in [code : 1..(seq + 1), request : AuthorizeRequests],
         origin' = Put(origin, seq + 1, e), seq' = seq + 1
  PROVE  /\ origin' \in [1..seq' -> [code : 1..seq', request : AuthorizeRequests]]
         /\ origin'[seq + 1] = e
         /\ \A n \in 1..seq : origin'[n] = origin[n]
BY DEF TypeOK, Put

LEMMA InitTypes == Init => TypeOK
<1> SUFFICES ASSUME Init PROVE TypeOK
  OBVIOUS
<1>1. /\ seq = 0 /\ codes = NoTokens /\ refresh = NoTokens
      /\ inflight = NoTokens /\ origin = NoTokens /\ reply = NoReply
  BY DEF Init, StoreInit
<1>2. DOMAIN NoTokens = {} /\ \A S : NoTokens \in [DOMAIN NoTokens -> S]
  BY EmptyMap
<1>3. origin \in [1..seq -> [code : 1..seq, request : AuthorizeRequests]]
  <2>1. 1..seq = {}
    BY <1>1
  <2> QED
    BY <1>1, <1>2, <2>1
<1>4. reply.to = NoRequest
  BY <1>1 DEF NoReply
<1> QED
  BY <1>1, <1>2, <1>3, <1>4 DEF TypeOK

(* A request is taken into a handler's hands, or refused after its token   *)
(* is gone.                                                                *)
LEMMA SettleTypes ==
  ASSUME TypeOK, NEW h \in Handlers, NEW r \in TokenRequests, NEW g \in Grants,
         Number(TokenOf(r)) \in 1..seq, seq' = seq, NEW ok, Settle(h, r, g, ok)
  PROVE  /\ inflight' \in [DOMAIN inflight' -> Work]
         /\ DOMAIN inflight' \subseteq Handlers
         /\ \A x \in DOMAIN inflight' : Number(TokenOf(inflight'[x].req)) \in 1..seq'
         /\ origin' = origin
         /\ reply'.to \in AuthorizeRequests \union TokenRequests \union {NoRequest}
<1> DEFINE busy == [req |-> r, grant |-> g]
<1>1. CASE inflight' = Put(inflight, h, busy) /\ reply' = reply
  <2>1. busy \in Work
    BY DEF Work
  <2>2. inflight \in [DOMAIN inflight -> Work]
    BY DEF TypeOK
  <2> HIDE DEF busy
  <2>3. /\ DOMAIN inflight' = DOMAIN inflight \union {h}
        /\ inflight' \in [DOMAIN inflight' -> Work]
        /\ inflight'[h] = busy
        /\ \A x \in DOMAIN inflight \ {h} : inflight'[x] = inflight[x]
    <3>1. inflight' = Put(inflight, h, busy)
      BY <1>1
    <3>2. /\ DOMAIN Put(inflight, h, busy) = DOMAIN inflight \union {h}
          /\ Put(inflight, h, busy) \in [DOMAIN Put(inflight, h, busy) -> Work]
          /\ Put(inflight, h, busy)[h] = busy
          /\ \A x \in DOMAIN inflight \ {h} : Put(inflight, h, busy)[x] = inflight[x]
      BY <2>1, <2>2 DEF Put
    <3> QED
      BY <3>1, <3>2
  <2>4. busy.req = r
    BY DEF busy
  <2> QED
    BY <1>1, <2>3, <2>4 DEF TypeOK, Settle
<1>2. CASE inflight' = inflight /\ reply' = [to |-> r, answer |-> InvalidGrant]
  BY <1>2 DEF TypeOK, Settle
<1> QED
  BY <1>1, <1>2 DEF Settle, Respond

(* The other requests leave everything but the last response alone. *)
LEMMA RespondTypes ==
  ASSUME TypeOK, NEW m \in AuthorizeRequests \union TokenRequests, NEW a,
         Respond(m, a), UNCHANGED <<storeVars, inflight, origin>>
  PROVE  TypeOK'
BY DEF TypeOK, Respond, storeVars, Number, TokenOf

LEMMA NextTypes == TypeOK /\ [Next]_vars => TypeOK'
<1> SUFFICES ASSUME TypeOK, [Next]_vars PROVE TypeOK'
  OBVIOUS
<1>1. ASSUME NEW q \in AuthorizeRequests, RefuseAuthorize(q) \/ ShowPicker(q)
      PROVE  TypeOK'
  BY <1>1, RespondTypes DEF RefuseAuthorize, ShowPicker
<1>2. ASSUME NEW q \in AuthorizeRequests, IssueCode(q)
      PROVE  TypeOK'
  <2> DEFINE e == [code |-> seq + 1, request |-> q]
  <2>1. GrantFor(q) \in Grants
    BY DEF Grants
  <2>0. codes' = Put(codes, NextToken("pc"), GrantFor(q))
    BY <1>2 DEF IssueCode, NewCode
  <2>2. /\ DOMAIN codes' = DOMAIN codes \union {<<"pc", seq + 1>>}
        /\ codes' \in [DOMAIN codes' -> Grants]
    BY <2>0, <2>1, PutMap DEF NextToken, TypeOK
  <2>3. seq' = seq + 1 /\ seq' \in Nat /\ refresh' = refresh /\ inflight' = inflight
    <3>1. seq' = seq + 1 /\ refresh' = refresh /\ inflight' = inflight
      BY <1>2 DEF IssueCode, NewCode
    <3> QED
      BY <3>1 DEF TypeOK
  <2>4. e \in [code : 1..(seq + 1), request : AuthorizeRequests]
    BY DEF TypeOK
  <2>5. origin' = Put(origin, seq + 1, e)
    BY <1>2 DEF IssueCode, Begins
  <2>6. origin' \in [1..seq' -> [code : 1..seq', request : AuthorizeRequests]]
    BY <2>3, <2>4, <2>5, OriginGrows
  <2>7. reply'.to \in AuthorizeRequests
    BY <1>2 DEF IssueCode, Respond
  <2>8. 1..seq \subseteq 1..seq' /\ seq + 1 \in 1..seq'
    BY <2>3 DEF TypeOK
  <2> QED
    BY <2>2, <2>3, <2>6, <2>7, <2>8 DEF TypeOK, Number, TokenOf
<1>3. ASSUME NEW r \in TokenRequests, RefuseToken(r) \/ ClientCredentials(r) \/ UnknownToken(r)
      PROVE  TypeOK'
  BY <1>3, RespondTypes DEF RefuseToken, ClientCredentials, UnknownToken
<1>4. ASSUME NEW h \in Handlers, NEW r \in TokenRequests, RedeemCode(h, r)
      PROVE  TypeOK'
  <2>1. TokenOf(r) \in DOMAIN codes /\ TokenOf(r) = r.code
    BY <1>4 DEF RedeemCode, TakeCode, TokenOf
  <2>2. Number(TokenOf(r)) \in 1..seq /\ codes[r.code] \in Grants
    BY <2>1 DEF TypeOK, Number
  <2>3. /\ DOMAIN codes' = DOMAIN codes \ {r.code}
        /\ codes' \in [DOMAIN codes' -> Grants]
        /\ seq' = seq /\ refresh' = refresh
    BY <1>4, DeleteMap DEF RedeemCode, TakeCode, TypeOK
  <2>4. PICK ok : Settle(h, r, codes[r.code], ok)
    BY <1>4 DEF RedeemCode
  <2> QED
    BY <2>2, <2>3, <2>4, SettleTypes DEF TypeOK
<1>5. ASSUME NEW h \in Handlers, NEW r \in TokenRequests, RedeemRefresh(h, r)
      PROVE  TypeOK'
  <2>1. TokenOf(r) \in DOMAIN refresh /\ TokenOf(r) = r.refresh_token
    BY <1>5 DEF RedeemRefresh, TakeRefresh, TokenOf
  <2>2. Number(TokenOf(r)) \in 1..seq /\ refresh[r.refresh_token] \in Grants
    BY <2>1 DEF TypeOK, Number
  <2>3. /\ DOMAIN refresh' = DOMAIN refresh \ {r.refresh_token}
        /\ refresh' \in [DOMAIN refresh' -> Grants]
        /\ seq' = seq /\ codes' = codes
    BY <1>5, DeleteMap DEF RedeemRefresh, TakeRefresh, TypeOK
  <2>4. PICK ok : Settle(h, r, refresh[r.refresh_token], ok)
    BY <1>5 DEF RedeemRefresh
  <2> QED
    BY <2>2, <2>3, <2>4, SettleTypes DEF TypeOK
<1>6. ASSUME NEW h \in Handlers, Finish(h)
      PROVE  TypeOK'
  <2> DEFINE e == origin[Number(Taken(h))]
             g == inflight[h].grant
  <2>0. h \in DOMAIN inflight
    BY <1>6 DEF Finish
  <2>1. g \in Grants /\ inflight[h].req \in TokenRequests
    BY <2>0 DEF TypeOK, Work
  <2>2. e \in [code : 1..seq, request : AuthorizeRequests]
    BY <2>0 DEF TypeOK, Taken
  <2>3. seq' = seq + 1 /\ seq' \in Nat /\ codes' = codes
    BY <1>6 DEF Finish, NewRefresh, TypeOK
  <2>4. e \in [code : 1..(seq + 1), request : AuthorizeRequests]
    BY <2>2 DEF TypeOK
  <2>5. origin' = Put(origin, seq + 1, e)
    BY <1>6 DEF Finish, Continues, Taken
  <2> HIDE DEF e
  <2>6. origin' \in [1..seq' -> [code : 1..seq', request : AuthorizeRequests]]
    BY <2>3, <2>4, <2>5, OriginGrows
  <2>7. /\ DOMAIN refresh' = DOMAIN refresh \union {<<"pr", seq + 1>>}
        /\ refresh' \in [DOMAIN refresh' -> Grants]
    BY <1>6, <2>1, PutMap DEF Finish, NewRefresh, NextToken, TypeOK
  <2>8. /\ DOMAIN inflight' = DOMAIN inflight \ {h}
        /\ inflight' \in [DOMAIN inflight' -> Work]
        /\ \A x \in DOMAIN inflight' : inflight'[x] = inflight[x]
    <3>1. inflight' = Delete(inflight, h)
      BY <1>6 DEF Finish
    <3>2. inflight \in [DOMAIN inflight -> Work]
      BY DEF TypeOK
    <3> QED
      BY <3>1, <3>2 DEF Delete, Restrict
  <2>9. 1..seq \subseteq 1..seq' /\ seq + 1 \in 1..seq'
    BY <2>3 DEF TypeOK
  <2>10. reply'.to \in TokenRequests
    BY <1>6, <2>1 DEF Finish, Respond
  <2> QED
    BY <2>3, <2>6, <2>7, <2>8, <2>9, <2>10 DEF TypeOK
<1>7. ASSUME NEW h \in Handlers, GiveUp(h)
      PROVE  TypeOK'
  <2>0. h \in DOMAIN inflight
    BY <1>7 DEF GiveUp
  <2>1. /\ DOMAIN inflight' = DOMAIN inflight \ {h}
        /\ inflight' \in [DOMAIN inflight' -> Work]
        /\ \A x \in DOMAIN inflight' : inflight'[x] = inflight[x]
    <3>1. inflight' = Delete(inflight, h)
      BY <1>7 DEF GiveUp
    <3>2. inflight \in [DOMAIN inflight -> Work]
      BY DEF TypeOK
    <3> QED
      BY <3>1, <3>2 DEF Delete, Restrict
  <2>2. reply'.to \in TokenRequests
    BY <1>7, <2>0 DEF GiveUp, Respond, TypeOK, Work
  <2> QED
    BY <1>7, <2>1, <2>2 DEF GiveUp, TypeOK, storeVars
<1>8. CASE Restart
  <2>1. Init'
    BY <1>8 DEF Restart, Init, StoreInit
  <2> QED
    BY <2>1, InitTypes, PTL
<1>9. CASE UNCHANGED vars
  BY <1>9 DEF vars, TypeOK, Number, TokenOf
<1> QED
  BY <1>1, <1>2, <1>3, <1>4, <1>5, <1>6, <1>7, <1>8, <1>9 DEF Next

(* Type correctness of every reachable state.                              *)
THEOREM TypeCorrect == Spec => []TypeOK
BY InitTypes, NextTypes, PTL DEF Spec

-------------------------------------------------------------------------------
(* Single use and rotation.  OneHolder is inductive relative to TypeOK: a  *)
(* new code has a lineage no other token can have yet, and everything else *)
(* only moves a lineage from one holder to the next.                       *)

LEMMA InitOneHolder == Init => OneHolder
BY DEF Init, StoreInit, NoTokens, OneHolder, LiveTokens

(* Lineages are of numbers drawn so far. *)
LEMMA LineageDrawn ==
  ASSUME TypeOK
  PROVE  /\ \A t \in LiveTokens : Number(t) \in 1..seq /\ Lineage(t) \in 1..seq
         /\ \A h \in DOMAIN inflight :
               Number(Taken(h)) \in 1..seq /\ Lineage(Taken(h)) \in 1..seq
<1>1. \A n \in 1..seq : origin[n].code \in 1..seq
  BY DEF TypeOK
<1>2. \A t \in LiveTokens : Number(t) \in 1..seq
  BY DEF TypeOK, LiveTokens, Number
<1> QED
  BY <1>1, <1>2 DEF TypeOK, Lineage, Taken

LEMMA IssueOneHolder ==
  ASSUME TypeOK, OneHolder, NEW q \in AuthorizeRequests, IssueCode(q)
  PROVE  OneHolder'
<1> DEFINE e == [code |-> seq + 1, request |-> q]
<1>0. PICK new : new = <<"pc", seq + 1>>
  OBVIOUS
<1>1. LiveTokens' = LiveTokens \union {new} /\ inflight' = inflight /\ seq' = seq + 1
  BY <1>0 DEF IssueCode, NewCode, NextToken, Put, LiveTokens
<1>2. origin' = Put(origin, seq + 1, e)
  BY DEF IssueCode, Begins
<1>3. e \in [code : 1..(seq + 1), request : AuthorizeRequests]
  BY DEF TypeOK
<1>4. origin'[seq + 1] = e /\ \A n \in 1..seq : origin'[n] = origin[n]
  BY <1>1, <1>2, <1>3, OriginGrows
<1>5. Lineage(new)' = seq + 1
  BY <1>0, <1>4 DEF Lineage, Number
<1>6. \A t \in LiveTokens : Lineage(t)' = Lineage(t) /\ Lineage(t) \in 1..seq
  BY <1>4, LineageDrawn DEF Lineage
<1>7. \A h \in DOMAIN inflight : /\ Lineage(Taken(h))' = Lineage(Taken(h))
                                 /\ Lineage(Taken(h)) \in 1..seq
  BY <1>1, <1>4, LineageDrawn DEF Lineage, Taken
<1>8. seq + 1 \notin 1..seq
  BY DEF TypeOK
<1>9. \A t, u \in LiveTokens' : Lineage(t)' = Lineage(u)' => t = u
  BY <1>1, <1>5, <1>6, <1>8 DEF OneHolder
<1>10. \A t \in LiveTokens', h \in DOMAIN inflight' : Lineage(t)' # Lineage(Taken(h))'
  BY <1>1, <1>5, <1>6, <1>7, <1>8 DEF OneHolder
<1>11. \A g, h \in DOMAIN inflight' : Lineage(Taken(g))' = Lineage(Taken(h))' => g = h
  BY <1>1, <1>7 DEF OneHolder
<1> QED
  BY <1>9, <1>10, <1>11 DEF OneHolder

(* A live token moves into a handler's hands, or disappears. *)
LEMMA TakeOneHolder ==
  ASSUME TypeOK, OneHolder, NEW h, h \notin DOMAIN inflight,
         NEW r, NEW g, NEW ok, Settle(h, r, g, ok),
         TokenOf(r) \in LiveTokens, LiveTokens' = LiveTokens \ {TokenOf(r)}
  PROVE  OneHolder'
<1>1. origin' = origin /\ \A t : Lineage(t)' = origin[Number(t)].code
  BY DEF Settle, Lineage, Number
<1>2. CASE inflight' = inflight
  BY <1>1, <1>2 DEF OneHolder, Lineage, Taken
<1>3. CASE inflight' = Put(inflight, h, [req |-> r, grant |-> g])
  <2>1. /\ DOMAIN inflight' = DOMAIN inflight \union {h}
        /\ Taken(h)' = TokenOf(r)
        /\ \A x \in DOMAIN inflight : Taken(x)' = Taken(x)
    BY <1>3 DEF Put, Taken, TokenOf
  <2>2. /\ Lineage(Taken(h))' = Lineage(TokenOf(r))
        /\ \A x \in DOMAIN inflight : Lineage(Taken(x))' = Lineage(Taken(x))
    BY <1>1, <2>1 DEF Lineage
  <2>3. \A t \in LiveTokens : Lineage(t)' = Lineage(t)
    BY <1>1 DEF Lineage
  <2> QED
    BY <2>1, <2>2, <2>3 DEF OneHolder
<1> QED
  BY <1>2, <1>3 DEF Settle

LEMMA FinishOneHolder ==
  ASSUME TypeOK, OneHolder, NEW h \in Handlers, Finish(h)
  PROVE  OneHolder'
<1> DEFINE e == origin[Number(Taken(h))]
<1>0. h \in DOMAIN inflight
  BY DEF Finish
<1>a. PICK new : new = <<"pr", seq + 1>>
  OBVIOUS
<1>1. LiveTokens' = LiveTokens \union {new} /\ seq' = seq + 1
  BY <1>a DEF Finish, NewRefresh, NextToken, Put, LiveTokens
<1>2. /\ DOMAIN inflight' = DOMAIN inflight \ {h}
      /\ \A x \in DOMAIN inflight' : Taken(x)' = Taken(x)
  BY DEF Finish, Delete, Restrict, Taken, TokenOf
<1>3. e \in [code : 1..(seq + 1), request : AuthorizeRequests]
  BY <1>0 DEF TypeOK, Taken
<1>4. origin' = Put(origin, seq + 1, e)
  BY DEF Finish, Continues, Taken
<1> HIDE DEF e
<1>5. origin'[seq + 1] = e /\ \A n \in 1..seq : origin'[n] = origin[n]
  BY <1>1, <1>3, <1>4, OriginGrows
<1>6. Lineage(new)' = Lineage(Taken(h))
  BY <1>a, <1>5 DEF Lineage, Number, e
<1>7. \A t \in LiveTokens : Lineage(t)' = Lineage(t)
  BY <1>5, LineageDrawn DEF Lineage
<1>8. \A x \in DOMAIN inflight' : Lineage(Taken(x))' = Lineage(Taken(x))
  BY <1>2, <1>5, LineageDrawn DEF Lineage
<1>9. \A t, u \in LiveTokens' : Lineage(t)' = Lineage(u)' => t = u
  BY <1>0, <1>1, <1>6, <1>7 DEF OneHolder
<1>10. \A t \in LiveTokens', x \in DOMAIN inflight' : Lineage(t)' # Lineage(Taken(x))'
  BY <1>0, <1>1, <1>2, <1>6, <1>7, <1>8 DEF OneHolder
<1>11. \A x, y \in DOMAIN inflight' : Lineage(Taken(x))' = Lineage(Taken(y))' => x = y
  BY <1>2, <1>8 DEF OneHolder
<1> QED
  BY <1>9, <1>10, <1>11 DEF OneHolder

LEMMA NextOneHolder == TypeOK /\ OneHolder /\ [Next]_vars => OneHolder'
<1> SUFFICES ASSUME TypeOK, OneHolder, [Next]_vars PROVE OneHolder'
  OBVIOUS
<1>0. ASSUME UNCHANGED <<storeVars, inflight, origin>>
      PROVE  OneHolder'
  BY <1>0 DEF storeVars, OneHolder, LiveTokens, Lineage, Number, Taken, TokenOf
<1>1. ASSUME NEW q \in AuthorizeRequests, RefuseAuthorize(q) \/ ShowPicker(q)
      PROVE  OneHolder'
  BY <1>0, <1>1 DEF RefuseAuthorize, ShowPicker
<1>2. ASSUME NEW q \in AuthorizeRequests, IssueCode(q)
      PROVE  OneHolder'
  BY <1>2, IssueOneHolder
<1>3. ASSUME NEW r \in TokenRequests, RefuseToken(r) \/ ClientCredentials(r) \/ UnknownToken(r)
      PROVE  OneHolder'
  BY <1>0, <1>3 DEF RefuseToken, ClientCredentials, UnknownToken
<1>4. ASSUME NEW h \in Handlers, NEW r \in TokenRequests, RedeemCode(h, r)
      PROVE  OneHolder'
  <2>1. /\ TokenOf(r) = r.code /\ r.code \in DOMAIN codes /\ refresh' = refresh
        /\ codes' = Delete(codes, r.code) /\ h \notin DOMAIN inflight
    BY <1>4 DEF RedeemCode, TakeCode, TokenOf, Free
  <2>2. r.code \notin DOMAIN refresh
    BY <2>1 DEF TypeOK
  <2>3. TokenOf(r) \in LiveTokens /\ LiveTokens' = LiveTokens \ {TokenOf(r)}
    BY <2>1, <2>2 DEF LiveTokens, Delete, Restrict
  <2>4. PICK ok : Settle(h, r, codes[r.code], ok)
    BY <1>4 DEF RedeemCode
  <2> QED
    BY <2>1, <2>3, <2>4, TakeOneHolder
<1>5. ASSUME NEW h \in Handlers, NEW r \in TokenRequests, RedeemRefresh(h, r)
      PROVE  OneHolder'
  <2>1. /\ TokenOf(r) = r.refresh_token /\ r.refresh_token \in DOMAIN refresh
        /\ codes' = codes /\ refresh' = Delete(refresh, r.refresh_token)
        /\ h \notin DOMAIN inflight
    BY <1>5 DEF RedeemRefresh, TakeRefresh, TokenOf, Free
  <2>2. r.refresh_token \notin DOMAIN codes
    BY <2>1 DEF TypeOK
  <2>3. TokenOf(r) \in LiveTokens /\ LiveTokens' = LiveTokens \ {TokenOf(r)}
    BY <2>1, <2>2 DEF LiveTokens, Delete, Restrict
  <2>4. PICK ok : Settle(h, r, refresh[r.refresh_token], ok)
    BY <1>5 DEF RedeemRefresh
  <2> QED
    BY <2>1, <2>3, <2>4, TakeOneHolder
<1>6. ASSUME NEW h \in Handlers, Finish(h)
      PROVE  OneHolder'
  BY <1>6, FinishOneHolder
<1>7. ASSUME NEW h \in Handlers, GiveUp(h)
      PROVE  OneHolder'
  <2>1. /\ DOMAIN inflight' = DOMAIN inflight \ {h}
        /\ \A x \in DOMAIN inflight' : inflight'[x] = inflight[x]
        /\ UNCHANGED <<storeVars, origin>>
    BY <1>7 DEF GiveUp, Delete, Restrict
  <2> QED
    BY <2>1 DEF storeVars, OneHolder, LiveTokens, Lineage, Number, Taken, TokenOf
<1>8. CASE Restart
  <2>1. Init'
    BY <1>8 DEF Restart, Init, StoreInit
  <2> QED
    BY <2>1, InitOneHolder, PTL
<1>9. CASE UNCHANGED vars
  BY <1>0, <1>9 DEF vars, storeVars
<1> QED
  BY <1>1, <1>2, <1>3, <1>4, <1>5, <1>6, <1>7, <1>8, <1>9 DEF Next

(* Every authorization has one holder at most, in every reachable state:   *)
(* a code is redeemed once, a refresh token is rotated once, no matter how *)
(* many requests present it and how their handlers interleave.             *)
THEOREM SingleHolder == Spec => []OneHolder
<1>1. Init => TypeOK /\ OneHolder
  BY InitTypes, InitOneHolder
<1>2. TypeOK /\ OneHolder /\ [Next]_vars => (TypeOK /\ OneHolder)'
  BY NextTypes, NextOneHolder
<1> QED
  BY <1>1, <1>2, PTL DEF Spec

-------------------------------------------------------------------------------
(* What is held is what was authorized.                                    *)

LEMMA InitAsAuthorized == Init => GrantsAsAuthorized
BY DEF Init, StoreInit, NoTokens, GrantsAsAuthorized

LEMMA IssueAsAuthorized ==
  ASSUME TypeOK, GrantsAsAuthorized, NEW q \in AuthorizeRequests, IssueCode(q)
  PROVE  GrantsAsAuthorized'
<1> DEFINE e == [code |-> seq + 1, request |-> q]
<1>0. PICK new : new = <<"pc", seq + 1>>
  OBVIOUS
<1>1. /\ codes' = Put(codes, new, GrantFor(q))
      /\ refresh' = refresh /\ inflight' = inflight /\ seq' = seq + 1
      /\ origin' = Put(origin, seq + 1, e)
  BY <1>0 DEF IssueCode, NewCode, NextToken, Begins
<1>2. e \in [code : 1..(seq + 1), request : AuthorizeRequests]
  BY DEF TypeOK
<1>3. origin'[seq + 1].request = q /\ \A n \in 1..seq : origin'[n] = origin[n]
  BY <1>1, <1>2, OriginGrows
<1>4. codes'[new] = GrantFor(origin'[Number(new)].request)
  BY <1>0, <1>1, <1>3 DEF Put, Number
<1>5. /\ \A t \in DOMAIN codes' \ {new} : t \in DOMAIN codes /\ codes'[t] = codes[t]
      /\ \A t \in LiveTokens : Number(t) \in 1..seq
      /\ \A h \in DOMAIN inflight : Number(Taken(h)) \in 1..seq
  BY <1>1, LineageDrawn DEF Put
<1>6. \A t \in DOMAIN codes' : codes'[t] = GrantFor(origin'[Number(t)].request)
  BY <1>3, <1>4, <1>5 DEF GrantsAsAuthorized, LiveTokens
<1>7. \A t \in DOMAIN refresh' : refresh'[t] = GrantFor(origin'[Number(t)].request)
  BY <1>1, <1>3, <1>5 DEF GrantsAsAuthorized, LiveTokens
<1>8. \A h \in DOMAIN inflight' :
        inflight'[h].grant = GrantFor(origin'[Number(Taken(h)')].request)
  BY <1>1, <1>3, <1>5 DEF GrantsAsAuthorized, Taken
<1> QED
  BY <1>6, <1>7, <1>8 DEF GrantsAsAuthorized, Number

LEMMA SettleAsAuthorized ==
  ASSUME TypeOK, GrantsAsAuthorized, NEW h, NEW r, NEW g, NEW ok, Settle(h, r, g, ok),
         g = GrantFor(origin[Number(TokenOf(r))].request)
  PROVE  /\ origin' = origin
         /\ \A x \in DOMAIN inflight' :
              inflight'[x].grant = GrantFor(origin'[Number(Taken(x)')].request)
<1>1. origin' = origin
  BY DEF Settle
<1>2. CASE inflight' = inflight
  BY <1>1, <1>2 DEF GrantsAsAuthorized, Taken
<1>3. CASE inflight' = Put(inflight, h, [req |-> r, grant |-> g])
  <2>1. /\ DOMAIN inflight' = DOMAIN inflight \union {h}
        /\ Taken(h)' = TokenOf(r) /\ inflight'[h].grant = g
        /\ \A x \in DOMAIN inflight \ {h} : Taken(x)' = Taken(x) /\ inflight'[x] = inflight[x]
    BY <1>3 DEF Put, Taken, TokenOf
  <2> QED
    BY <1>1, <2>1 DEF GrantsAsAuthorized
<1> QED
  BY <1>1, <1>2, <1>3 DEF Settle

LEMMA FinishAsAuthorized ==
  ASSUME TypeOK, GrantsAsAuthorized, NEW h \in Handlers, Finish(h)
  PROVE  GrantsAsAuthorized'
<1> DEFINE e == origin[Number(Taken(h))]
<1>0. h \in DOMAIN inflight
  BY DEF Finish
<1>a. PICK new : new = <<"pr", seq + 1>>
  OBVIOUS
<1>1. /\ refresh' = Put(refresh, new, inflight[h].grant)
      /\ codes' = codes /\ inflight' = Delete(inflight, h) /\ seq' = seq + 1
      /\ origin' = Put(origin, seq + 1, e)
  BY <1>a DEF Finish, NewRefresh, NextToken, Continues, Taken
<1>2. e \in [code : 1..(seq + 1), request : AuthorizeRequests]
  BY <1>0 DEF TypeOK, Taken
<1> HIDE DEF e
<1>3. origin'[seq + 1] = e /\ \A n \in 1..seq : origin'[n] = origin[n]
  BY <1>1, <1>2, OriginGrows
<1>4. inflight[h].grant = GrantFor(e.request)
  BY <1>0 DEF GrantsAsAuthorized, e
<1>5. refresh'[new] = GrantFor(origin'[Number(new)].request)
  BY <1>a, <1>1, <1>3, <1>4 DEF Put, Number
<1>6. /\ \A t \in DOMAIN refresh' \ {new} : t \in DOMAIN refresh /\ refresh'[t] = refresh[t]
      /\ \A t \in LiveTokens : Number(t) \in 1..seq
      /\ \A x \in DOMAIN inflight : Number(Taken(x)) \in 1..seq
      /\ \A x \in DOMAIN inflight' : x \in DOMAIN inflight /\ inflight'[x] = inflight[x]
  BY <1>1, LineageDrawn DEF Put, Delete, Restrict
<1>7. \A t \in DOMAIN refresh' : refresh'[t] = GrantFor(origin'[Number(t)].request)
  BY <1>3, <1>5, <1>6 DEF GrantsAsAuthorized, LiveTokens
<1>8. \A t \in DOMAIN codes' : codes'[t] = GrantFor(origin'[Number(t)].request)
  BY <1>1, <1>3, <1>6 DEF GrantsAsAuthorized, LiveTokens
<1>9. \A x \in DOMAIN inflight' :
        inflight'[x].grant = GrantFor(origin'[Number(Taken(x)')].request)
  BY <1>3, <1>6 DEF GrantsAsAuthorized, Taken
<1> QED
  BY <1>7, <1>8, <1>9 DEF GrantsAsAuthorized, Number

LEMMA NextAsAuthorized == TypeOK /\ GrantsAsAuthorized /\ [Next]_vars => GrantsAsAuthorized'
<1> SUFFICES ASSUME TypeOK, GrantsAsAuthorized, [Next]_vars PROVE GrantsAsAuthorized'
  OBVIOUS
<1>0. ASSUME UNCHANGED <<storeVars, inflight, origin>>
      PROVE  GrantsAsAuthorized'
  BY <1>0 DEF storeVars, GrantsAsAuthorized, Number, Taken, TokenOf
<1>1. ASSUME NEW q \in AuthorizeRequests, RefuseAuthorize(q) \/ ShowPicker(q)
      PROVE  GrantsAsAuthorized'
  BY <1>0, <1>1 DEF RefuseAuthorize, ShowPicker
<1>2. ASSUME NEW q \in AuthorizeRequests, IssueCode(q)
      PROVE  GrantsAsAuthorized'
  BY <1>2, IssueAsAuthorized
<1>3. ASSUME NEW r \in TokenRequests, RefuseToken(r) \/ ClientCredentials(r) \/ UnknownToken(r)
      PROVE  GrantsAsAuthorized'
  BY <1>0, <1>3 DEF RefuseToken, ClientCredentials, UnknownToken
<1>4. ASSUME NEW h \in Handlers, NEW r \in TokenRequests, RedeemCode(h, r)
      PROVE  GrantsAsAuthorized'
  <2>1. /\ TokenOf(r) = r.code /\ r.code \in DOMAIN codes /\ refresh' = refresh
        /\ codes' = Delete(codes, r.code)
    BY <1>4 DEF RedeemCode, TakeCode, TokenOf
  <2>2. codes[r.code] = GrantFor(origin[Number(TokenOf(r))].request)
    BY <2>1 DEF GrantsAsAuthorized
  <2>3. PICK ok : Settle(h, r, codes[r.code], ok)
    BY <1>4 DEF RedeemCode
  <2>4. /\ origin' = origin
        /\ \A x \in DOMAIN inflight' :
             inflight'[x].grant = GrantFor(origin'[Number(Taken(x)')].request)
    BY <2>2, <2>3, SettleAsAuthorized
  <2>5. \A t \in DOMAIN codes' : t \in DOMAIN codes /\ codes'[t] = codes[t]
    BY <2>1 DEF Delete, Restrict
  <2> QED
    BY <2>1, <2>4, <2>5 DEF GrantsAsAuthorized, Number
<1>5. ASSUME NEW h \in Handlers, NEW r \in TokenRequests, RedeemRefresh(h, r)
      PROVE  GrantsAsAuthorized'
  <2>1. /\ TokenOf(r) = r.refresh_token /\ r.refresh_token \in DOMAIN refresh
        /\ codes' = codes /\ refresh' = Delete(refresh, r.refresh_token)
    BY <1>5 DEF RedeemRefresh, TakeRefresh, TokenOf
  <2>2. refresh[r.refresh_token] = GrantFor(origin[Number(TokenOf(r))].request)
    BY <2>1 DEF GrantsAsAuthorized
  <2>3. PICK ok : Settle(h, r, refresh[r.refresh_token], ok)
    BY <1>5 DEF RedeemRefresh
  <2>4. /\ origin' = origin
        /\ \A x \in DOMAIN inflight' :
             inflight'[x].grant = GrantFor(origin'[Number(Taken(x)')].request)
    BY <2>2, <2>3, SettleAsAuthorized
  <2>5. \A t \in DOMAIN refresh' : t \in DOMAIN refresh /\ refresh'[t] = refresh[t]
    BY <2>1 DEF Delete, Restrict
  <2> QED
    BY <2>1, <2>4, <2>5 DEF GrantsAsAuthorized, Number
<1>6. ASSUME NEW h \in Handlers, Finish(h)
      PROVE  GrantsAsAuthorized'
  BY <1>6, FinishAsAuthorized
<1>7. ASSUME NEW h \in Handlers, GiveUp(h)
      PROVE  GrantsAsAuthorized'
  <2>1. /\ \A x \in DOMAIN inflight' : x \in DOMAIN inflight /\ inflight'[x] = inflight[x]
        /\ UNCHANGED <<storeVars, origin>>
    BY <1>7 DEF GiveUp, Delete, Restrict
  <2> QED
    BY <2>1 DEF storeVars, GrantsAsAuthorized, Number, Taken, TokenOf
<1>8. CASE Restart
  <2>1. Init'
    BY <1>8 DEF Restart, Init, StoreInit
  <2> QED
    BY <2>1, InitAsAuthorized, PTL
<1>9. CASE UNCHANGED vars
  BY <1>0, <1>9 DEF vars, storeVars
<1> QED
  BY <1>1, <1>2, <1>3, <1>4, <1>5, <1>6, <1>7, <1>8, <1>9 DEF Next

(* What a code or a refresh token stands for, and what a handler is about  *)
(* to issue tokens for, is exactly what the user's authorization request   *)
(* asked for, however many rotations ago.                                  *)
THEOREM GrantsPreserved == Spec => []GrantsAsAuthorized
<1>1. Init => TypeOK /\ GrantsAsAuthorized
  BY InitTypes, InitAsAuthorized
<1>2. TypeOK /\ GrantsAsAuthorized /\ [Next]_vars => (TypeOK /\ GrantsAsAuthorized)'
  BY NextTypes, NextAsAuthorized
<1> QED
  BY <1>1, <1>2, PTL DEF Spec

-------------------------------------------------------------------------------
(* The checks of /authorize, and what they make sure of later on.          *)

(* The checks of /authorize that later code relies on, by their position. *)
LEMMA AuthorizeCheckList ==
  ASSUME NEW q
  PROVE  /\ DOMAIN AuthorizeChecks(q) = 1..10
         /\ AuthorizeChecks(q)[4].fails <=> ~RedirectAllowed(q.client_id, q.redirect_uri)
         /\ AuthorizeChecks(q)[6].fails <=> ~HasScope(SplitScope(q.scope), "openid")
         /\ AuthorizeChecks(q)[8].fails <=> LacksChallenge(q)
         /\ AuthorizeChecks(q)[10].fails <=> (~WantsPicker(q) /\ ~KnownPersona(q.persona))
<1>1. DOMAIN AuthorizeChecks(q) = 1..10
  BY DEF AuthorizeChecks, Check
<1>2. AuthorizeChecks(q)[4].fails <=> ~RedirectAllowed(q.client_id, q.redirect_uri)
  BY DEF AuthorizeChecks, Check
<1>3. AuthorizeChecks(q)[6].fails <=> ~HasScope(SplitScope(q.scope), "openid")
  BY DEF AuthorizeChecks, Check
<1>4. AuthorizeChecks(q)[8].fails <=> LacksChallenge(q)
  BY DEF AuthorizeChecks, Check
<1>5. AuthorizeChecks(q)[10].fails <=> (~WantsPicker(q) /\ ~KnownPersona(q.persona))
  BY DEF AuthorizeChecks, Check
<1> QED
  BY <1>1, <1>2, <1>3, <1>4, <1>5

LEMMA VettedRequest ==
  ASSUME NEW q, Passes(AuthorizeChecks(q)), ~WantsPicker(q)
  PROVE  /\ RedirectAllowed(q.client_id, q.redirect_uri)
         /\ HasScope(SplitScope(q.scope), "openid")
         /\ ~LacksChallenge(q)
         /\ KnownPersona(q.persona)
<1>1. \A i \in 1..10 : ~AuthorizeChecks(q)[i].fails
  BY AuthorizeCheckList, PassesEach
<1>2. RedirectAllowed(q.client_id, q.redirect_uri)
  <2>1. AuthorizeChecks(q)[4].fails <=> ~RedirectAllowed(q.client_id, q.redirect_uri)
    BY AuthorizeCheckList
  <2> QED
    BY <1>1, <2>1
<1>3. HasScope(SplitScope(q.scope), "openid")
  <2>1. AuthorizeChecks(q)[6].fails <=> ~HasScope(SplitScope(q.scope), "openid")
    BY AuthorizeCheckList
  <2> QED
    BY <1>1, <2>1
<1>4. ~LacksChallenge(q)
  <2>1. AuthorizeChecks(q)[8].fails <=> LacksChallenge(q)
    BY AuthorizeCheckList
  <2> QED
    BY <1>1, <2>1
<1>5. KnownPersona(q.persona)
  <2>1. AuthorizeChecks(q)[10].fails <=> (~WantsPicker(q) /\ ~KnownPersona(q.persona))
    BY AuthorizeCheckList
  <2> QED
    BY <1>1, <2>1
<1> QED
  BY <1>2, <1>3, <1>4, <1>5

(* Every lineage began with a request that passed the checks. *)
OriginsVetted ==
  \A n \in 1..seq : /\ Passes(AuthorizeChecks(origin[n].request))
                    /\ ~WantsPicker(origin[n].request)

LEMMA NextOriginsVetted == TypeOK /\ OriginsVetted /\ [Next]_vars => OriginsVetted'
<1> SUFFICES ASSUME TypeOK, OriginsVetted, [Next]_vars PROVE OriginsVetted'
  OBVIOUS
<1>0. ASSUME UNCHANGED <<seq, origin>>
      PROVE  OriginsVetted'
  BY <1>0 DEF OriginsVetted
<1>1. ASSUME NEW q \in AuthorizeRequests, IssueCode(q)
      PROVE  OriginsVetted'
  <2> DEFINE e == [code |-> seq + 1, request |-> q]
  <2>1. e \in [code : 1..(seq + 1), request : AuthorizeRequests]
    BY DEF TypeOK
  <2>2. seq' = seq + 1 /\ origin' = Put(origin, seq + 1, e)
    BY <1>1 DEF IssueCode, NewCode, Begins
  <2>3. origin'[seq + 1] = e /\ \A n \in 1..seq : origin'[n] = origin[n]
    BY <2>1, <2>2, OriginGrows
  <2>4. Passes(AuthorizeChecks(e.request)) /\ ~WantsPicker(e.request)
    BY <1>1 DEF IssueCode
  <2> HIDE DEF e
  <2>5. \A n \in 1..seq' : n \in 1..seq \/ n = seq + 1
    BY <2>2 DEF TypeOK
  <2> QED
    BY <2>3, <2>4, <2>5 DEF OriginsVetted
<1>2. ASSUME NEW h \in Handlers, Finish(h)
      PROVE  OriginsVetted'
  <2> DEFINE e == origin[Number(Taken(h))]
  <2>1. Number(Taken(h)) \in 1..seq
    BY <1>2 DEF Finish, TypeOK, Taken
  <2>2. seq' = seq + 1 /\ origin' = Put(origin, seq + 1, e)
    BY <1>2 DEF Finish, NewRefresh, Continues, Taken
  <2>3. e \in [code : 1..(seq + 1), request : AuthorizeRequests]
    BY <2>1 DEF TypeOK
  <2>4. Passes(AuthorizeChecks(e.request)) /\ ~WantsPicker(e.request)
    BY <2>1 DEF OriginsVetted
  <2> HIDE DEF e
  <2>5. origin'[seq + 1] = e /\ \A n \in 1..seq : origin'[n] = origin[n]
    BY <2>2, <2>3, OriginGrows
  <2>6. \A n \in 1..seq' : n \in 1..seq \/ n = seq + 1
    BY <2>2 DEF TypeOK
  <2> QED
    BY <2>4, <2>5, <2>6 DEF OriginsVetted
<1>3. CASE Restart
  <2>1. 1..seq' = {}
    BY <1>3 DEF Restart
  <2> QED
    BY <2>1 DEF OriginsVetted
<1>4. ASSUME NEW q \in AuthorizeRequests, RefuseAuthorize(q) \/ ShowPicker(q)
      PROVE  OriginsVetted'
  BY <1>0, <1>4 DEF RefuseAuthorize, ShowPicker, storeVars
<1>5. ASSUME NEW r \in TokenRequests, RefuseToken(r) \/ ClientCredentials(r) \/ UnknownToken(r)
      PROVE  OriginsVetted'
  BY <1>0, <1>5 DEF RefuseToken, ClientCredentials, UnknownToken, storeVars
<1>6. ASSUME NEW h \in Handlers, NEW r \in TokenRequests, RedeemCode(h, r) \/ RedeemRefresh(h, r)
      PROVE  OriginsVetted'
  BY <1>0, <1>6 DEF RedeemCode, RedeemRefresh, TakeCode, TakeRefresh, Settle
<1>7. ASSUME NEW h \in Handlers, GiveUp(h)
      PROVE  OriginsVetted'
  BY <1>0, <1>7 DEF GiveUp, storeVars
<1>8. CASE UNCHANGED vars
  BY <1>0, <1>8 DEF vars
<1> QED
  BY <1>1, <1>2, <1>3, <1>4, <1>5, <1>6, <1>7, <1>8 DEF Next

LEMMA VettedGrants ==
  ASSUME TypeOK, GrantsAsAuthorized, OriginsVetted
  PROVE  GrantsWereVetted
<1> SUFFICES ASSUME NEW g \in HeldGrants
             PROVE  /\ KnownPersona(g.Persona)
                    /\ RedirectAllowed(g.ClientID, g.RedirectURI)
                    /\ HasScope(g.Scope, "openid")
                    /\ Public(g.ClientID) => g.Challenge # ""
  BY DEF GrantsWereVetted
<1>1. \E n \in 1..seq : g = GrantFor(origin[n].request)
  BY LineageDrawn DEF HeldGrants, GrantsAsAuthorized, LiveTokens
<1>2. PICK n \in 1..seq : g = GrantFor(origin[n].request)
  BY <1>1
<1> DEFINE q == origin[n].request
<1>3. Passes(AuthorizeChecks(q)) /\ ~WantsPicker(q)
  BY DEF OriginsVetted
<1> HIDE DEF q
<1>4. /\ RedirectAllowed(q.client_id, q.redirect_uri)
      /\ HasScope(SplitScope(q.scope), "openid")
      /\ ~LacksChallenge(q)
      /\ KnownPersona(q.persona)
  BY <1>3, VettedRequest
<1>5. g = GrantFor(q)
  BY <1>2 DEF q
<1> QED
  BY <1>4, <1>5 DEF GrantFor, LacksChallenge

LEMMA OriginsAlwaysVetted == Spec => []OriginsVetted
<1>1. Init => OriginsVetted
  <2>1. Init => 1..seq = {}
    BY DEF Init, StoreInit
  <2> QED
    BY <2>1 DEF OriginsVetted
<1> QED
  BY <1>1, NextOriginsVetted, TypeCorrect, PTL DEF Spec

(* The persona exists, the redirect URI is registered, and a public client *)
(* sent a challenge, for everything that is held anywhere: the two         *)
(* defensive branches of the token handlers are never taken.               *)
THEOREM GrantsVetted == Spec => []GrantsWereVetted
<1>1. TypeOK /\ GrantsAsAuthorized /\ OriginsVetted => GrantsWereVetted
  BY VettedGrants
<1> QED
  BY <1>1, TypeCorrect, GrantsPreserved, OriginsAlwaysVetted, PTL

-------------------------------------------------------------------------------
(* Proof of possession: what is checked when a grant is taken holds of the *)
(* authorization it goes back to.                                          *)

LEMMA TokenCheckPassed ==
  ASSUME NEW r, Passes(TokenChecks(r))
  PROVE  Authenticates(r)
<1>1. DOMAIN TokenChecks(r) = 1..5
  BY DEF TokenChecks, Check
<1>2. TokenChecks(r)[3].fails <=> ~Authenticates(r)
  BY DEF TokenChecks, Check
<1> QED
  BY <1>1, <1>2 DEF Passes

LEMMA CodeProves ==
  ASSUME NEW r, NEW q, Passes(TokenChecks(r)), CodeRedeemable(r, GrantFor(q))
  PROVE  ProvesItself(r, q)
<1>1. Authenticates(r)
  BY TokenCheckPassed
<1>2. ClientOf(r) = q.client_id
  BY DEF CodeRedeemable, GrantFor
<1>3. CASE q.code_challenge # ""
  <2>1. VerifyPKCE(q.code_challenge, q.code_challenge_method, r.code_verifier)
    BY <1>3 DEF CodeRedeemable, GrantFor
  <2>2. KnowsVerifier(r, q)
    BY <2>1 DEF VerifyPKCE, ValidVerifier, KnowsVerifier
  <2> QED
    BY <1>1, <1>2, <2>2 DEF ProvesItself
<1>4. CASE q.code_challenge = ""
  <2>1. Authed(r)
    BY <1>4 DEF CodeRedeemable, GrantFor
  <2> QED
    BY <1>1, <1>2, <1>4, <2>1 DEF ProvesItself, Authed
<1> QED
  BY <1>3, <1>4

LEMMA RefreshProves ==
  ASSUME NEW r, NEW q, r.grant_type = "refresh_token",
         Passes(TokenChecks(r)), RefreshRedeemable(r, GrantFor(q))
  PROVE  ProvesItself(r, q)
<1>1. Authenticates(r)
  BY TokenCheckPassed
<1>2. ClientOf(r) = q.client_id
  BY DEF RefreshRedeemable, GrantFor
<1> QED
  BY <1>1, <1>2 DEF ProvesItself

LEMMA SettleProves ==
  ASSUME RedeemedByItsClient, NEW h, NEW r, NEW g, NEW ok, Settle(h, r, g, ok),
         ok => ProvesItself(r, origin[Number(TokenOf(r))].request)
  PROVE  RedeemedByItsClient'
<1>1. origin' = origin
  BY DEF Settle
<1>2. CASE inflight' = inflight
  BY <1>1, <1>2 DEF RedeemedByItsClient, Taken, TokenOf, Number
<1>3. CASE ok /\ inflight' = Put(inflight, h, [req |-> r, grant |-> g])
  <2>1. /\ DOMAIN inflight' = DOMAIN inflight \union {h}
        /\ inflight'[h].req = r
        /\ \A x \in DOMAIN inflight \ {h} : inflight'[x] = inflight[x]
    BY <1>3 DEF Put
  <2>2. /\ Taken(h)' = TokenOf(r)
        /\ \A x \in DOMAIN inflight \ {h} : Taken(x)' = Taken(x)
    BY <2>1 DEF Taken, TokenOf
  <2>3. \A x \in DOMAIN inflight' :
          ProvesItself(inflight'[x].req, origin'[Number(Taken(x)')].request)
    BY <1>1, <1>3, <2>1, <2>2 DEF RedeemedByItsClient
  <2> QED
    BY <2>3 DEF RedeemedByItsClient, Number
<1> QED
  BY <1>2, <1>3 DEF Settle

(* A handler that goes, and tokens that are drawn, leave what is in flight *)
(* to its own authorization.                                               *)
LEMMA KeepsProof ==
  ASSUME RedeemedByItsClient,
         \A x \in DOMAIN inflight' : x \in DOMAIN inflight /\ inflight'[x] = inflight[x],
         \A x \in DOMAIN inflight' : origin'[Number(Taken(x))] = origin[Number(Taken(x))]
  PROVE  RedeemedByItsClient'
<1>1. \A x \in DOMAIN inflight' : Taken(x)' = Taken(x)
  BY DEF Taken, TokenOf
<1>2. \A x \in DOMAIN inflight' :
        ProvesItself(inflight'[x].req, origin'[Number(Taken(x)')].request)
  BY <1>1 DEF RedeemedByItsClient
<1> QED
  BY <1>2 DEF RedeemedByItsClient, Number

LEMMA NextRedeemed ==
  TypeOK /\ GrantsAsAuthorized /\ RedeemedByItsClient /\ [Next]_vars => RedeemedByItsClient'
<1> SUFFICES ASSUME TypeOK, GrantsAsAuthorized, RedeemedByItsClient, [Next]_vars
             PROVE  RedeemedByItsClient'
  OBVIOUS
<1>0. ASSUME UNCHANGED <<storeVars, inflight, origin>>
      PROVE  RedeemedByItsClient'
  BY <1>0, KeepsProof
<1>1. ASSUME NEW q \in AuthorizeRequests, RefuseAuthorize(q) \/ ShowPicker(q)
      PROVE  RedeemedByItsClient'
  BY <1>0, <1>1 DEF RefuseAuthorize, ShowPicker
<1>2. ASSUME NEW q \in AuthorizeRequests, IssueCode(q)
      PROVE  RedeemedByItsClient'
  <2> DEFINE e == [code |-> seq + 1, request |-> q]
  <2>1. e \in [code : 1..(seq + 1), request : AuthorizeRequests]
    BY DEF TypeOK
  <2>2. inflight' = inflight /\ seq' = seq + 1 /\ origin' = Put(origin, seq + 1, e)
    BY <1>2 DEF IssueCode, NewCode, Begins
  <2>3. \A n \in 1..seq : origin'[n] = origin[n]
    BY <2>1, <2>2, OriginGrows
  <2> QED
    BY <2>2, <2>3, LineageDrawn, KeepsProof
<1>3. ASSUME NEW r \in TokenRequests, RefuseToken(r) \/ ClientCredentials(r) \/ UnknownToken(r)
      PROVE  RedeemedByItsClient'
  BY <1>0, <1>3 DEF RefuseToken, ClientCredentials, UnknownToken
<1>4. ASSUME NEW h \in Handlers, NEW r \in TokenRequests, RedeemCode(h, r)
      PROVE  RedeemedByItsClient'
  <2>1. /\ TokenOf(r) = r.code /\ r.code \in DOMAIN codes /\ Passes(TokenChecks(r))
        /\ Settle(h, r, codes[r.code], CodeRedeemable(r, codes[r.code]))
    BY <1>4 DEF RedeemCode, TakeCode, TokenOf
  <2>2. codes[r.code] = GrantFor(origin[Number(TokenOf(r))].request)
    BY <2>1 DEF GrantsAsAuthorized
  <2>3. CodeRedeemable(r, codes[r.code]) => ProvesItself(r, origin[Number(TokenOf(r))].request)
    BY <2>1, <2>2, CodeProves
  <2>4. PICK ok : /\ Settle(h, r, codes[r.code], ok)
                  /\ ok => ProvesItself(r, origin[Number(TokenOf(r))].request)
    BY <2>1, <2>3
  <2> QED
    BY <2>4, SettleProves
<1>5. ASSUME NEW h \in Handlers, NEW r \in TokenRequests, RedeemRefresh(h, r)
      PROVE  RedeemedByItsClient'
  <2>1. /\ TokenOf(r) = r.refresh_token /\ r.refresh_token \in DOMAIN refresh
        /\ Passes(TokenChecks(r)) /\ r.grant_type = "refresh_token"
        /\ Settle(h, r, refresh[r.refresh_token],
                  RefreshRedeemable(r, refresh[r.refresh_token]))
    BY <1>5 DEF RedeemRefresh, TakeRefresh, TokenOf
  <2>2. refresh[r.refresh_token] = GrantFor(origin[Number(TokenOf(r))].request)
    BY <2>1 DEF GrantsAsAuthorized
  <2>3. RefreshRedeemable(r, refresh[r.refresh_token])
          => ProvesItself(r, origin[Number(TokenOf(r))].request)
    BY <2>1, <2>2, RefreshProves
  <2>4. PICK ok : /\ Settle(h, r, refresh[r.refresh_token], ok)
                  /\ ok => ProvesItself(r, origin[Number(TokenOf(r))].request)
    BY <2>1, <2>3
  <2> QED
    BY <2>4, SettleProves
<1>6. ASSUME NEW h \in Handlers, Finish(h)
      PROVE  RedeemedByItsClient'
  <2> DEFINE e == origin[Number(Taken(h))]
  <2>1. Number(Taken(h)) \in 1..seq
    BY <1>6 DEF Finish, TypeOK, Taken
  <2>2. seq' = seq + 1 /\ origin' = Put(origin, seq + 1, e)
    BY <1>6 DEF Finish, NewRefresh, Continues, Taken
  <2>3. e \in [code : 1..(seq + 1), request : AuthorizeRequests]
    BY <2>1 DEF TypeOK
  <2> HIDE DEF e
  <2>4. \A n \in 1..seq : origin'[n] = origin[n]
    BY <2>2, <2>3, OriginGrows
  <2>5. \A x \in DOMAIN inflight' : x \in DOMAIN inflight /\ inflight'[x] = inflight[x]
    BY <1>6 DEF Finish, Delete, Restrict
  <2> QED
    BY <2>4, <2>5, LineageDrawn, KeepsProof
<1>7. ASSUME NEW h \in Handlers, GiveUp(h)
      PROVE  RedeemedByItsClient'
  <2>1. /\ \A x \in DOMAIN inflight' : x \in DOMAIN inflight /\ inflight'[x] = inflight[x]
        /\ origin' = origin
    BY <1>7 DEF GiveUp, Delete, Restrict
  <2> QED
    BY <2>1, KeepsProof
<1>8. CASE Restart
  <2>1. DOMAIN inflight' = {}
    BY <1>8, EmptyMap DEF Restart
  <2> QED
    BY <2>1 DEF RedeemedByItsClient
<1>9. CASE UNCHANGED vars
  BY <1>0, <1>9 DEF vars, storeVars
<1> QED
  BY <1>1, <1>2, <1>3, <1>4, <1>5, <1>6, <1>7, <1>8, <1>9 DEF Next

(* Tokens are about to be issued only to the client of the authorization,  *)
(* which has shown its secret or the verifier of its challenge, over any   *)
(* number of rotations and any interleaving of handlers.                   *)
THEOREM RedeemedByClient == Spec => []RedeemedByItsClient
<1>1. Init => RedeemedByItsClient
  BY EmptyMap DEF Init, RedeemedByItsClient
<1> QED
  BY <1>1, NextRedeemed, TypeCorrect, GrantsPreserved, PTL DEF Spec

-------------------------------------------------------------------------------
(* Redirects.                                                              *)

(* The answers of /authorize: the first four redirect nowhere. *)
LEMMA AuthorizeLocations ==
  ASSUME NEW q
  PROVE  /\ \A i \in 1..4 : AuthorizeChecks(q)[i].answer.location = ""
         /\ \A i \in 5..10 : AuthorizeChecks(q)[i].answer.location = q.redirect_uri
<1>1. \A i \in 1..4 : AuthorizeChecks(q)[i].answer.location = ""
  <2>1. AuthorizeChecks(q)[1].answer.location = ""
    BY DEF AuthorizeChecks, Check, Refuse, Answer
  <2>2. AuthorizeChecks(q)[2].answer.location = ""
    BY DEF AuthorizeChecks, Check, Refuse, Answer
  <2>3. AuthorizeChecks(q)[3].answer.location = ""
    BY DEF AuthorizeChecks, Check, Refuse, Answer
  <2>4. AuthorizeChecks(q)[4].answer.location = ""
    BY DEF AuthorizeChecks, Check, Refuse, Answer
  <2> SUFFICES ASSUME NEW i \in 1..4 PROVE AuthorizeChecks(q)[i].answer.location = ""
    OBVIOUS
  <2>5. i = 1 \/ i = 2 \/ i = 3 \/ i = 4
    OBVIOUS
  <2> QED
    BY <2>1, <2>2, <2>3, <2>4, <2>5
<1>2. \A i \in 5..10 : AuthorizeChecks(q)[i].answer.location = q.redirect_uri
  <2>5. AuthorizeChecks(q)[5].answer.location = q.redirect_uri
    BY DEF AuthorizeChecks, Check, RedirectError, Answer
  <2>6. AuthorizeChecks(q)[6].answer.location = q.redirect_uri
    BY DEF AuthorizeChecks, Check, RedirectError, Answer
  <2>7. AuthorizeChecks(q)[7].answer.location = q.redirect_uri
    BY DEF AuthorizeChecks, Check, RedirectError, Answer
  <2>8. AuthorizeChecks(q)[8].answer.location = q.redirect_uri
    BY DEF AuthorizeChecks, Check, RedirectError, Answer
  <2>9. AuthorizeChecks(q)[9].answer.location = q.redirect_uri
    BY DEF AuthorizeChecks, Check, RedirectError, Answer
  <2>10. AuthorizeChecks(q)[10].answer.location = q.redirect_uri
    BY DEF AuthorizeChecks, Check, RedirectError, Answer
  <2> QED
    BY <2>5, <2>6, <2>7, <2>8, <2>9, <2>10
<1> QED
  BY <1>1, <1>2

(* Whatever check finds the fault, a redirect is to a registered URI. *)
LEMMA RefusalLocation ==
  ASSUME NEW q, ~Passes(AuthorizeChecks(q))
  PROVE  \/ FirstFailure(AuthorizeChecks(q)).location = ""
         \/ /\ FirstFailure(AuthorizeChecks(q)).location = q.redirect_uri
            /\ RedirectAllowed(q.client_id, q.redirect_uri)
<1> DEFINE checks == AuthorizeChecks(q)
<1>1. DOMAIN checks = 1..10
  BY AuthorizeCheckList
<1>2. checks[4].fails <=> ~RedirectAllowed(q.client_id, q.redirect_uri)
  BY AuthorizeCheckList
<1>3. /\ \A i \in 1..4 : checks[i].answer.location = ""
      /\ \A i \in 5..10 : checks[i].answer.location = q.redirect_uri
  BY AuthorizeLocations
<1>4. ~Passes(checks)
  OBVIOUS
<1>a. /\ 4 \in 1..10
      /\ \A i \in 1..10 : i \in 1..4 \/ (i \in 5..10 /\ ~(i <= 4))
  OBVIOUS
<1> HIDE DEF checks
<1>5. PICK i \in Failing(checks) : /\ \A j \in Failing(checks) : i <= j
                                  /\ FirstFailure(checks) = checks[i].answer
  BY <1>1, <1>4, FirstFailing
<1>6. i \in 1..10
  BY <1>1, <1>5, Zenon DEF Failing
<1>7. CASE i \in 1..4
  BY <1>3, <1>5, <1>7, Zenon DEF checks
<1>8. CASE i \in 5..10 /\ ~(i <= 4)
  <2>1. 4 \notin Failing(checks)
    BY <1>5, <1>8, Zenon
  <2>2. ~checks[4].fails
    BY <1>a, <1>1, <2>1, Zenon DEF Failing
  <2> QED
    BY <1>2, <1>3, <1>5, <1>8, <2>2, Zenon DEF checks
<1> QED
  BY <1>a, <1>6, <1>7, <1>8, Zenon

(* Nothing /token answers redirects. *)
LEMMA TokenLocations ==
  ASSUME NEW r, ~Passes(TokenChecks(r))
  PROVE  FirstFailure(TokenChecks(r)).location = ""
<1> DEFINE checks == TokenChecks(r)
<1>1. DOMAIN checks = 1..5
  BY DEF TokenChecks, Check
<1>2. checks[1].answer.location = ""
  BY DEF TokenChecks, Check, Refuse, Answer
<1>3. checks[2].answer.location = ""
  BY DEF TokenChecks, Check, Refuse, Answer
<1>4. checks[3].answer.location = ""
  BY DEF TokenChecks, Check, Refuse, Answer
<1>5. checks[4].answer.location = ""
  BY DEF TokenChecks, Check, Refuse, Answer
<1>6. checks[5].answer.location = ""
  BY DEF TokenChecks, Check, Refuse, Answer
<1>7. ~Passes(checks)
  OBVIOUS
<1> HIDE DEF checks
<1>8. PICK i \in Failing(checks) : FirstFailure(checks) = checks[i].answer
  BY <1>1, <1>7, FirstFailing
<1>9. i \in 1..5
  BY <1>1, <1>8 DEF Failing
<1>10. FirstFailure(checks).location = ""
  <2>1. i = 1 \/ i = 2 \/ i = 3 \/ i = 4 \/ i = 5
    BY <1>9
  <2> QED
    BY <1>2, <1>3, <1>4, <1>5, <1>6, <1>8, <2>1
<1> QED
  BY <1>10 DEF checks

LEMMA NextRedirects == RedirectsAreRegistered /\ [Next]_vars => RedirectsAreRegistered'
<1> SUFFICES ASSUME RedirectsAreRegistered, [Next]_vars PROVE RedirectsAreRegistered'
  OBVIOUS
<1>0. ASSUME UNCHANGED reply
      PROVE  RedirectsAreRegistered'
  BY <1>0 DEF RedirectsAreRegistered
<1>1. ASSUME NEW m, NEW a, Respond(m, a),
             a.location # "" => RedirectAllowed(m.client_id, a.location)
      PROVE  RedirectsAreRegistered'
  BY <1>1 DEF Respond, RedirectsAreRegistered, RedirectAllowed, KnownClient
<1>2. ASSUME NEW m, NEW a, Respond(m, a), a.location = ""
      PROVE  RedirectsAreRegistered'
  BY <1>2 DEF Respond, RedirectsAreRegistered
<1>3. /\ Picker.location = "" /\ InvalidGrant.location = ""
      /\ ServerError.location = "" /\ TokensIssued.location = ""
  BY DEF Picker, InvalidGrant, ServerError, TokensIssued, Refuse, Answer
<1>4. ASSUME NEW q \in AuthorizeRequests, RefuseAuthorize(q)
      PROVE  RedirectsAreRegistered'
  <2>1. ~Passes(AuthorizeChecks(q)) /\ Respond(q, FirstFailure(AuthorizeChecks(q)))
    BY <1>4 DEF RefuseAuthorize
  <2> QED
    BY <1>1, <1>2, <2>1, RefusalLocation
<1>5. ASSUME NEW q \in AuthorizeRequests, ShowPicker(q)
      PROVE  RedirectsAreRegistered'
  BY <1>2, <1>3, <1>5 DEF ShowPicker
<1>6. ASSUME NEW q \in AuthorizeRequests, IssueCode(q)
      PROVE  RedirectsAreRegistered'
  <2>1. RedirectAllowed(q.client_id, q.redirect_uri)
    BY <1>6, VettedRequest DEF IssueCode
  <2>2. CodeRedirect(q).location = q.redirect_uri
    BY DEF CodeRedirect, Answer
  <2>3. Respond(q, CodeRedirect(q))
    BY <1>6 DEF IssueCode
  <2> QED
    BY <1>1, <2>1, <2>2, <2>3
<1>7. ASSUME NEW r \in TokenRequests, RefuseToken(r)
      PROVE  RedirectsAreRegistered'
  BY <1>2, <1>7, TokenLocations DEF RefuseToken
<1>8. ASSUME NEW r \in TokenRequests, ClientCredentials(r) \/ UnknownToken(r)
      PROVE  RedirectsAreRegistered'
  BY <1>2, <1>3, <1>8 DEF ClientCredentials, UnknownToken
<1>9. ASSUME NEW h \in Handlers, NEW r \in TokenRequests, RedeemCode(h, r) \/ RedeemRefresh(h, r)
      PROVE  RedirectsAreRegistered'
  BY <1>0, <1>2, <1>3, <1>9 DEF RedeemCode, RedeemRefresh, Settle
<1>10. ASSUME NEW h \in Handlers, Finish(h) \/ GiveUp(h)
       PROVE  RedirectsAreRegistered'
  BY <1>2, <1>3, <1>10 DEF Finish, GiveUp
<1>11. CASE Restart
  BY <1>11 DEF Restart, RedirectsAreRegistered, NoReply, NoAnswer, Answer
<1>12. CASE UNCHANGED vars
  BY <1>0, <1>12 DEF vars
<1> QED
  BY <1>4, <1>5, <1>6, <1>7, <1>8, <1>9, <1>10, <1>11, <1>12 DEF Next

(* No open redirect: for every request, whatever is wrong with it and      *)
(* whichever check finds it first.                                         *)
THEOREM RedirectsRegistered == Spec => []RedirectsAreRegistered
<1>1. Init => RedirectsAreRegistered
  <2>1. NoReply.answer.location = ""
    BY DEF NoReply, NoAnswer, Answer
  <2> QED
    BY <2>1 DEF Init, RedirectsAreRegistered
<1> QED
  BY <1>1, NextRedirects, PTL DEF Spec

-------------------------------------------------------------------------------
(* What a step may never do *)

(* Live tokens after each store operation. *)
LEMMA RedeemTakes ==
  ASSUME TypeOK, NEW h, NEW r, RedeemCode(h, r) \/ RedeemRefresh(h, r)
  PROVE  LiveTokens' = LiveTokens \ {TokenOf(r)} /\ TokenOf(r) \in LiveTokens
<1>1. DOMAIN codes \intersect DOMAIN refresh = {}
  BY DEF TypeOK
<1>2. CASE RedeemCode(h, r)
  <2>1. TokenOf(r) = r.code /\ TakeCode(r.code)
    BY <1>2 DEF RedeemCode, TokenOf
  <2> QED
    BY <1>1, <2>1 DEF TakeCode, Delete, Restrict, LiveTokens
<1>3. CASE RedeemRefresh(h, r)
  <2>1. TokenOf(r) = r.refresh_token /\ TakeRefresh(r.refresh_token)
    BY <1>3 DEF RedeemRefresh, TokenOf
  <2> QED
    BY <1>1, <2>1 DEF TakeRefresh, Delete, Restrict, LiveTokens
<1> QED
  BY <1>2, <1>3

LEMMA DrawsOne ==
  ASSUME \/ \E q \in AuthorizeRequests : IssueCode(q)
         \/ \E h \in Handlers : Finish(h)
  PROVE  LiveTokens \subseteq LiveTokens'
<1>1. ASSUME NEW q \in AuthorizeRequests, IssueCode(q) PROVE LiveTokens \subseteq LiveTokens'
  BY <1>1 DEF IssueCode, NewCode, Put, LiveTokens
<1>2. ASSUME NEW h \in Handlers, Finish(h) PROVE LiveTokens \subseteq LiveTokens'
  BY <1>2 DEF Finish, NewRefresh, Put, LiveTokens
<1> QED
  BY <1>1, <1>2

LEMMA KeepsStore ==
  ASSUME UNCHANGED storeVars
  PROVE  LiveTokens' = LiveTokens
BY DEF storeVars, LiveTokens

-------------------------------------------------------------------------------

(* Client authentication comes before the store: of all the answers, 401   *)
(* is given only where neither a code nor a refresh token, pending or held *)
(* by a handler, has changed.                                              *)
THEOREM AuthenticatedFirst == Spec => UnauthenticatedTouchesNothing
<1>1. [Next]_vars => [Answers(401) => UNCHANGED <<storeVars, inflight>>]_vars
  <2> SUFFICES ASSUME Next, Answers(401)
               PROVE  UNCHANGED <<storeVars, inflight>>
    OBVIOUS
  <2>0. reply' # reply /\ reply'.answer.status = 401
    BY DEF Answers
  <2>1. /\ InvalidGrant.status # 401 /\ ServerError.status # 401
        /\ TokensIssued.status # 401 /\ NoReply.answer.status # 401
        /\ \A q : CodeRedirect(q).status # 401
    <3>1. InvalidGrant.status = 400 /\ ServerError.status = 500
      BY DEF InvalidGrant, ServerError, Refuse, Answer
    <3>2. TokensIssued.status = 200 /\ NoReply.answer.status = 0
      BY DEF TokensIssued, NoReply, NoAnswer, Answer
    <3>3. \A q : CodeRedirect(q).status = 302
      BY DEF CodeRedirect, Answer
    <3> QED
      BY <3>1, <3>2, <3>3
  <2>2. ASSUME NEW m, NEW a, Respond(m, a) PROVE a.status = 401
    BY <2>0, <2>2 DEF Respond
  <2>3. ASSUME NEW q \in AuthorizeRequests, IssueCode(q) PROVE FALSE
    BY <2>1, <2>2, <2>3 DEF IssueCode
  <2>4. ASSUME NEW h \in Handlers, NEW r \in TokenRequests, RedeemCode(h, r) \/ RedeemRefresh(h, r)
        PROVE  FALSE
    BY <2>0, <2>1, <2>2, <2>4 DEF RedeemCode, RedeemRefresh, Settle
  <2>5. ASSUME NEW h \in Handlers, Finish(h) \/ GiveUp(h) PROVE FALSE
    BY <2>1, <2>2, <2>5 DEF Finish, GiveUp
  <2>6. CASE Restart
    BY <2>0, <2>1, <2>6 DEF Restart
  <2> QED
    BY <2>3, <2>4, <2>5, <2>6
    DEF Next, RefuseAuthorize, ShowPicker, RefuseToken, ClientCredentials, UnknownToken
<1> QED
  BY <1>1, PTL DEF Spec, UnauthenticatedTouchesNothing

(* No error answer hands out a token: signing fails before the successor   *)
(* is drawn, and everything else fails before that.                        *)
THEOREM FailuresDrawNothing == Spec => ErrorsIssueNothing
<1>1. TypeOK /\ [Next]_vars => [reply' # reply /\ reply'.answer.error # ""
                                  => LiveTokens' \subseteq LiveTokens]_vars
  <2> SUFFICES ASSUME TypeOK, Next, reply' # reply, reply'.answer.error # ""
               PROVE  LiveTokens' \subseteq LiveTokens
    OBVIOUS
  <2>1. TokensIssued.error = "" /\ \A q : CodeRedirect(q).error = ""
    BY DEF TokensIssued, CodeRedirect, Answer
  <2>2. ASSUME NEW q \in AuthorizeRequests, IssueCode(q) PROVE FALSE
    BY <2>1, <2>2 DEF IssueCode, Respond
  <2>3. ASSUME NEW h \in Handlers, Finish(h) PROVE FALSE
    BY <2>1, <2>3 DEF Finish, Respond
  <2>4. ASSUME NEW h \in Handlers, NEW r \in TokenRequests, RedeemCode(h, r) \/ RedeemRefresh(h, r)
        PROVE  LiveTokens' \subseteq LiveTokens
    BY <2>4, RedeemTakes
  <2>5. ASSUME UNCHANGED storeVars PROVE LiveTokens' \subseteq LiveTokens
    BY <2>5, KeepsStore
  <2>6. CASE Restart
    BY <2>6 DEF Restart, NoTokens, LiveTokens
  <2> QED
    BY <2>2, <2>3, <2>4, <2>5, <2>6
    DEF Next, RefuseAuthorize, ShowPicker, RefuseToken, ClientCredentials, UnknownToken, GiveUp
<1> QED
  BY <1>1, TypeCorrect, PTL DEF Spec, ErrorsIssueNothing

-------------------------------------------------------------------------------
(* A client that behaves passes every check behind the store.              *)

LEMMA VettedMethod ==
  ASSUME NEW q, Passes(AuthorizeChecks(q))
  PROVE  ValidChallengeMethod(q.code_challenge_method)
<1>1. DOMAIN AuthorizeChecks(q) = 1..10
  BY AuthorizeCheckList
<1>2. AuthorizeChecks(q)[7].fails <=> ~ValidChallengeMethod(q.code_challenge_method)
  BY DEF AuthorizeChecks, Check
<1> QED
  BY <1>1, <1>2 DEF Passes

LEMMA ConformingCode ==
  ASSUME NEW r, NEW q, Passes(AuthorizeChecks(q)), ~WantsPicker(q),
         Conforms(r, q), r.grant_type = "authorization_code"
  PROVE  CodeRedeemable(r, GrantFor(q))
<1>1. /\ ClientOf(r) = q.client_id /\ r.redirect_uri = q.redirect_uri
      /\ q.code_challenge # "" =>
            \E v \in Verifiers :
               /\ r.code_verifier = v
               /\ q.code_challenge = IF q.code_challenge_method = "S256" THEN S256[v] ELSE v
  BY DEF Conforms
<1>2. CASE q.code_challenge # ""
  <2>1. VerifyPKCE(q.code_challenge, q.code_challenge_method, r.code_verifier)
    BY <1>1, <1>2, VettedMethod DEF VerifyPKCE, ValidVerifier, Derived
  <2> QED
    BY <1>1, <1>2, <2>1 DEF CodeRedeemable, GrantFor
<1>3. CASE q.code_challenge = ""
  <2>1. ~LacksChallenge(q) /\ RedirectAllowed(q.client_id, q.redirect_uri)
    BY VettedRequest
  <2>2. Authed(r)
    BY <1>1, <1>3, <2>1 DEF LacksChallenge, RedirectAllowed, Public, Confidential, Authed
  <2> QED
    BY <1>1, <1>3, <2>2 DEF CodeRedeemable, GrantFor
<1> QED
  BY <1>2, <1>3

LEMMA ConformingRefresh ==
  ASSUME NEW r, NEW q, Conforms(r, q)
  PROVE  RefreshRedeemable(r, GrantFor(q))
BY DEF Conforms, RefreshRedeemable, GrantFor

(* What becomes of the token that a request takes. *)
LEMMA SettleLoses ==
  ASSUME NEW h, NEW r, NEW q, NEW g, NEW ok, h \notin DOMAIN inflight, Settle(h, r, g, ok),
         Conforms(r, q) => ok
  PROVE  \/ \E x \in DOMAIN inflight' \ DOMAIN inflight : TokenOf(inflight'[x].req) = TokenOf(r)
         \/ ~Conforms(reply'.to, q)
<1>1. CASE ok /\ inflight' = Put(inflight, h, [req |-> r, grant |-> g])
  <2>1. h \in DOMAIN inflight' /\ inflight'[h].req = r
    BY <1>1 DEF Put
  <2> QED
    BY <2>1
<1>2. CASE ~ok /\ Respond(r, InvalidGrant)
  <2>1. reply'.to = r
    BY <1>2 DEF Respond
  <2> QED
    BY <1>2, <2>1
<1> QED
  BY <1>1, <1>2 DEF Settle

(* No session is lost to a client that behaves, for any requests of the    *)
(* others and any interleaving: a token leaves the store for a handler, or *)
(* because a request that does not conform has presented it, or with the   *)
(* process.                                                                *)
THEOREM OnlyMisuseLoses == Spec => LostOnlyByMisuse
<1>1. TypeOK /\ GrantsAsAuthorized /\ OriginsVetted /\ [Next]_vars =>
        [\A t \in LiveTokens \ LiveTokens' :
           \/ \E h \in DOMAIN inflight' \ DOMAIN inflight : TokenOf(inflight'[h].req) = t
           \/ reply' = NoReply
           \/ ~Conforms(reply'.to, origin[Number(t)].request)]_vars
  <2> SUFFICES ASSUME TypeOK, GrantsAsAuthorized, OriginsVetted, Next,
                      NEW t \in LiveTokens \ LiveTokens'
               PROVE  \/ \E h \in DOMAIN inflight' \ DOMAIN inflight : TokenOf(inflight'[h].req) = t
                      \/ reply' = NoReply
                      \/ ~Conforms(reply'.to, origin[Number(t)].request)
    OBVIOUS
  <2> DEFINE q == origin[Number(t)].request
  <2>1. Passes(AuthorizeChecks(q)) /\ ~WantsPicker(q)
    BY LineageDrawn DEF OriginsVetted
  <2> HIDE DEF q
  <2>2. ASSUME NEW h \in Handlers, NEW r \in TokenRequests, RedeemCode(h, r)
        PROVE  \/ \E x \in DOMAIN inflight' \ DOMAIN inflight : TokenOf(inflight'[x].req) = t
               \/ ~Conforms(reply'.to, q)
    <3>1. /\ h \notin DOMAIN inflight /\ r.grant_type = "authorization_code"
          /\ r.code \in DOMAIN codes /\ TokenOf(r) = r.code
          /\ Settle(h, r, codes[r.code], CodeRedeemable(r, codes[r.code]))
      BY <2>2 DEF RedeemCode, Free, TakeCode, TokenOf
    <3>2. t = r.code
      BY <2>2, <3>1, RedeemTakes
    <3>3. codes[r.code] = GrantFor(q)
      BY <3>1, <3>2 DEF GrantsAsAuthorized, q
    <3>4. Conforms(r, q) => CodeRedeemable(r, codes[r.code])
      BY <2>1, <3>1, <3>3, ConformingCode
    <3>5. PICK ok : Settle(h, r, codes[r.code], ok) /\ (Conforms(r, q) => ok)
      BY <3>1, <3>4
    <3> QED
      BY <3>1, <3>2, <3>5, SettleLoses
  <2>3. ASSUME NEW h \in Handlers, NEW r \in TokenRequests, RedeemRefresh(h, r)
        PROVE  \/ \E x \in DOMAIN inflight' \ DOMAIN inflight : TokenOf(inflight'[x].req) = t
               \/ ~Conforms(reply'.to, q)
    <3>1. /\ h \notin DOMAIN inflight
          /\ r.refresh_token \in DOMAIN refresh /\ TokenOf(r) = r.refresh_token
          /\ Settle(h, r, refresh[r.refresh_token],
                    RefreshRedeemable(r, refresh[r.refresh_token]))
      BY <2>3 DEF RedeemRefresh, Free, TakeRefresh, TokenOf
    <3>2. t = r.refresh_token
      BY <2>3, <3>1, RedeemTakes
    <3>3. refresh[r.refresh_token] = GrantFor(q)
      BY <3>1, <3>2 DEF GrantsAsAuthorized, q
    <3>4. Conforms(r, q) => RefreshRedeemable(r, refresh[r.refresh_token])
      BY <3>3, ConformingRefresh
    <3>5. PICK ok : Settle(h, r, refresh[r.refresh_token], ok) /\ (Conforms(r, q) => ok)
      BY <3>1, <3>4
    <3> QED
      BY <3>1, <3>2, <3>5, SettleLoses
  <2>4. ASSUME \/ UNCHANGED storeVars
               \/ \E p \in AuthorizeRequests : IssueCode(p)
               \/ \E h \in Handlers : Finish(h)
        PROVE  FALSE
    BY <2>4, KeepsStore, DrawsOne
  <2>5. CASE Restart
    BY <2>5 DEF Restart
  <2> QED
    BY <2>2, <2>3, <2>4, <2>5
    DEF Next, RefuseAuthorize, ShowPicker, RefuseToken, ClientCredentials, UnknownToken, GiveUp, q
<1>2. Spec => []OriginsVetted
  BY OriginsAlwaysVetted
<1> QED
  BY <1>1, <1>2, TypeCorrect, GrantsPreserved, PTL DEF Spec, LostOnlyByMisuse

-------------------------------------------------------------------------------
(* The picker is shown only to a request that has passed every check, and  *)
(* picking a persona changes nothing the checks look at but the persona.   *)

(* A refusal is not the picker. *)

LEMMA AuthorizeCheckNumbers == \A q : DOMAIN AuthorizeChecks(q) = 1..10
BY AuthorizeCheckList

LEMMA OneToTen ==
  \A i \in 1..10 : \/ i = 1 \/ i = 2 \/ i = 3 \/ i = 4 \/ i = 5
                   \/ i = 6 \/ i = 7 \/ i = 8 \/ i = 9 \/ i = 10
OBVIOUS

LEMMA Statuses ==
  /\ Picker.status = 200 /\ NoReply.answer.status = 0
  /\ \A code, e : Refuse(code, e).status = code
  /\ \A q, e : RedirectError(q, e).status = 302
  /\ \A q : CodeRedirect(q).status = 302
BY DEF Picker, NoReply, NoAnswer, Refuse, RedirectError, CodeRedirect, Answer

LEMMA NotThePicker ==
  /\ \A e : Refuse(400, e) # Picker /\ Refuse(405, e) # Picker
  /\ \A q, e : RedirectError(q, e) # Picker
  /\ \A q : CodeRedirect(q) # Picker
  /\ NoReply.answer # Picker
BY Statuses

LEMMA AuthorizeStatus ==
  ASSUME NEW q
  PROVE  \A i \in 1..10 : AuthorizeChecks(q)[i].answer # Picker
<1> DEFINE checks == AuthorizeChecks(q)
<1>1. checks[1].answer = Refuse(405, "invalid_request")
  BY DEF AuthorizeChecks, Check
<1>2. checks[2].answer = Refuse(400, "invalid_request")
  BY DEF AuthorizeChecks, Check
<1>3. checks[3].answer = Refuse(400, "invalid_request")
  BY DEF AuthorizeChecks, Check
<1>4. checks[4].answer = Refuse(400, "invalid_request")
  BY DEF AuthorizeChecks, Check
<1>5. checks[5].answer = RedirectError(q, "unsupported_response_type")
  BY DEF AuthorizeChecks, Check
<1>6. checks[6].answer = RedirectError(q, "invalid_scope")
  BY DEF AuthorizeChecks, Check
<1>7. checks[7].answer = RedirectError(q, "invalid_request")
  BY DEF AuthorizeChecks, Check
<1>8. checks[8].answer = RedirectError(q, "invalid_request")
  BY DEF AuthorizeChecks, Check
<1>9. checks[9].answer = RedirectError(q, "invalid_request")
  BY DEF AuthorizeChecks, Check
<1>10. checks[10].answer = RedirectError(q, "access_denied")
  BY DEF AuthorizeChecks, Check
<1> HIDE DEF checks
<1>11. /\ \A e : RedirectError(q, e) # Picker
       /\ \A e : Refuse(400, e) # Picker
       /\ \A e : Refuse(405, e) # Picker
  BY NotThePicker
<1>12. \A i \in 1..10 : checks[i].answer # Picker
  BY <1>1, <1>2, <1>3, <1>4, <1>5, <1>6, <1>7, <1>8, <1>9, <1>10, <1>11, OneToTen
<1> QED
  BY <1>12 DEF checks

LEMMA RefusalIsNoPicker ==
  ASSUME NEW q, ~Passes(AuthorizeChecks(q))
  PROVE  FirstFailure(AuthorizeChecks(q)) # Picker
<1> DEFINE checks == AuthorizeChecks(q)
<1>1. DOMAIN checks = 1..10 /\ ~Passes(checks)
  BY AuthorizeCheckNumbers
<1>2. \A i \in 1..10 : checks[i].answer # Picker
  BY AuthorizeStatus
<1> HIDE DEF checks
<1>3. PICK i \in Failing(checks) : FirstFailure(checks) = checks[i].answer
  BY <1>1, FirstFailing
<1>4. FirstFailure(checks) # Picker
  BY <1>1, <1>2, <1>3 DEF Failing
<1> QED
  BY <1>4 DEF checks

-------------------------------------------------------------------------------
(* The link of the picker. *)

LEMMA PickedFields ==
  ASSUME NEW q \in AuthorizeRequests, NEW link \in PickerLinks(q)
  PROVE  /\ link.method = "GET" /\ link.persona \in PersonaNames
         /\ link.parses = q.parses /\ link.client_id = q.client_id
         /\ link.redirect_uri = q.redirect_uri /\ link.response_type = q.response_type
         /\ link.scope = q.scope /\ link.code_challenge = q.code_challenge
         /\ link.code_challenge_method = q.code_challenge_method
<1>1. AuthorizeFields \subseteq DOMAIN q
  BY ProviderAssumption
<1>2. PICK name \in PersonaNames : link = [q EXCEPT !.method = "GET", !.persona = name]
  BY DEF PickerLinks
<1> QED
  BY <1>1, <1>2 DEF AuthorizeFields

LEMMA PersonaIsNamed == \A name \in PersonaNames : name # ""
BY DeploymentAssumption DEF ValidatedConfig

LEMMA AllAuthorizeChecks ==
  ASSUME NEW q
  PROVE  Passes(AuthorizeChecks(q)) <=>
           /\ q.method \in {"GET", "POST"}
           /\ q.parses
           /\ KnownClient(q.client_id)
           /\ RedirectAllowed(q.client_id, q.redirect_uri)
           /\ q.response_type = "code"
           /\ HasScope(SplitScope(q.scope), "openid")
           /\ ValidChallengeMethod(q.code_challenge_method)
           /\ ~LacksChallenge(q)
           /\ ~(q.code_challenge = "" /\ q.code_challenge_method # "")
           /\ WantsPicker(q) \/ KnownPersona(q.persona)
<1> DEFINE checks == AuthorizeChecks(q)
<1>1. checks[1].fails <=> q.method \notin {"GET", "POST"}
  BY DEF AuthorizeChecks, Check
<1>2. checks[2].fails <=> ~q.parses
  BY DEF AuthorizeChecks, Check
<1>3. checks[3].fails <=> ~KnownClient(q.client_id)
  BY DEF AuthorizeChecks, Check
<1>4. checks[4].fails <=> ~RedirectAllowed(q.client_id, q.redirect_uri)
  BY DEF AuthorizeChecks, Check
<1>5. checks[5].fails <=> q.response_type # "code"
  BY DEF AuthorizeChecks, Check
<1>6. checks[6].fails <=> ~HasScope(SplitScope(q.scope), "openid")
  BY DEF AuthorizeChecks, Check
<1>7. checks[7].fails <=> ~ValidChallengeMethod(q.code_challenge_method)
  BY DEF AuthorizeChecks, Check
<1>8. checks[8].fails <=> LacksChallenge(q)
  BY DEF AuthorizeChecks, Check
<1>9. checks[9].fails <=> (q.code_challenge = "" /\ q.code_challenge_method # "")
  BY DEF AuthorizeChecks, Check
<1>10. checks[10].fails <=> (~WantsPicker(q) /\ ~KnownPersona(q.persona))
  BY DEF AuthorizeChecks, Check
<1>11. DOMAIN checks = 1..10
  BY AuthorizeCheckNumbers
<1> HIDE DEF checks
<1>12. Passes(checks) <=> \A i \in 1..10 : ~checks[i].fails
  BY <1>11 DEF Passes
<1>13. Passes(checks) <=>
         /\ ~checks[1].fails /\ ~checks[2].fails /\ ~checks[3].fails /\ ~checks[4].fails
         /\ ~checks[5].fails /\ ~checks[6].fails /\ ~checks[7].fails /\ ~checks[8].fails
         /\ ~checks[9].fails /\ ~checks[10].fails
  BY <1>12, OneToTen
<1>14. Passes(AuthorizeChecks(q)) <=> Passes(checks)
  BY DEF checks
<1> QED
  BY <1>1, <1>2, <1>3, <1>4, <1>5, <1>6, <1>7, <1>8, <1>9, <1>10, <1>13, <1>14, Zenon

LEMMA PickPasses ==
  ASSUME NEW q \in AuthorizeRequests, NEW link \in PickerLinks(q), Passes(AuthorizeChecks(q))
  PROVE  Passes(AuthorizeChecks(link)) /\ ~WantsPicker(link)
<1>1. /\ link.method = "GET" /\ link.persona \in PersonaNames
      /\ link.parses = q.parses /\ link.client_id = q.client_id
      /\ link.redirect_uri = q.redirect_uri /\ link.response_type = q.response_type
      /\ link.scope = q.scope /\ link.code_challenge = q.code_challenge
      /\ link.code_challenge_method = q.code_challenge_method
  BY PickedFields
<1>2. ~WantsPicker(link)
  BY <1>1, PersonaIsNamed DEF WantsPicker
<1>3. KnownPersona(link.persona) /\ link.method \in {"GET", "POST"}
  BY <1>1 DEF KnownPersona
<1>4. LacksChallenge(link) <=> LacksChallenge(q)
  BY <1>1 DEF LacksChallenge
<1>5. /\ q.parses
      /\ KnownClient(q.client_id)
      /\ RedirectAllowed(q.client_id, q.redirect_uri)
      /\ q.response_type = "code"
      /\ HasScope(SplitScope(q.scope), "openid")
      /\ ValidChallengeMethod(q.code_challenge_method)
      /\ ~LacksChallenge(q)
      /\ ~(q.code_challenge = "" /\ q.code_challenge_method # "")
  BY AllAuthorizeChecks
<1>6. Passes(AuthorizeChecks(link))
  BY <1>1, <1>3, <1>4, <1>5, AllAuthorizeChecks, Zenon
<1> QED
  BY <1>2, <1>6

-------------------------------------------------------------------------------
(* The invariant: who sees the picker has passed. *)

PickerIsVetted ==
  reply.answer = Picker /\ reply.to \in AuthorizeRequests =>
    Passes(AuthorizeChecks(reply.to))

LEMMA NextPicker == TypeOK /\ PickerIsVetted /\ [Next]_vars => PickerIsVetted'
<1> SUFFICES ASSUME TypeOK, PickerIsVetted, [Next]_vars PROVE PickerIsVetted'
  OBVIOUS
<1>0. ASSUME UNCHANGED reply PROVE PickerIsVetted'
  BY <1>0 DEF PickerIsVetted
<1>1. ASSUME NEW m, NEW a, Respond(m, a), a # Picker PROVE PickerIsVetted'
  BY <1>1 DEF Respond, PickerIsVetted
<1>2. ASSUME NEW r \in TokenRequests, NEW a, Respond(r, a) PROVE PickerIsVetted'
  BY <1>2, ProviderAssumption DEF Respond, PickerIsVetted
<1>3. ASSUME NEW q \in AuthorizeRequests, RefuseAuthorize(q) PROVE PickerIsVetted'
  BY <1>1, <1>3, RefusalIsNoPicker DEF RefuseAuthorize
<1>4. ASSUME NEW q \in AuthorizeRequests, ShowPicker(q) PROVE PickerIsVetted'
  BY <1>4 DEF ShowPicker, Respond, PickerIsVetted
<1>5. ASSUME NEW q \in AuthorizeRequests, IssueCode(q) PROVE PickerIsVetted'
  <2>1. CodeRedirect(q) # Picker
    BY NotThePicker
  <2> QED
    BY <1>1, <1>5, <2>1 DEF IssueCode
<1>6. ASSUME NEW r \in TokenRequests, RefuseToken(r) \/ ClientCredentials(r) \/ UnknownToken(r)
      PROVE  PickerIsVetted'
  BY <1>2, <1>6 DEF RefuseToken, ClientCredentials, UnknownToken
<1>7. ASSUME NEW h \in Handlers, NEW r \in TokenRequests, RedeemCode(h, r) \/ RedeemRefresh(h, r)
      PROVE  PickerIsVetted'
  BY <1>0, <1>2, <1>7 DEF RedeemCode, RedeemRefresh, Settle
<1>8. ASSUME NEW h \in Handlers, Finish(h) \/ GiveUp(h) PROVE PickerIsVetted'
  <2>1. h \in DOMAIN inflight /\ inflight[h].req \in TokenRequests
    BY <1>8 DEF Finish, GiveUp, TypeOK, Work
  <2> QED
    BY <1>2, <1>8, <2>1 DEF Finish, GiveUp
<1>9. CASE Restart
  <2>1. NoReply.answer # Picker
    BY NotThePicker
  <2> QED
    BY <1>9, <2>1 DEF Restart, PickerIsVetted
<1>10. CASE UNCHANGED vars
  BY <1>0, <1>10 DEF vars
<1> QED
  BY <1>3, <1>4, <1>5, <1>6, <1>7, <1>8, <1>9, <1>10 DEF Next

(* Nobody who has chosen a persona is refused: each link of every picker   *)
(* that is shown passes all checks of /authorize.                          *)
THEOREM PicksAreGranted == Spec => []EveryPickIsGranted
<1>1. Init => PickerIsVetted
  <2>1. NoReply.answer # Picker
    BY NotThePicker
  <2> QED
    BY <2>1 DEF Init, PickerIsVetted
<1>2. PickerIsVetted => EveryPickIsGranted
  BY PickPasses DEF PickerIsVetted, EveryPickIsGranted
<1> QED
  BY <1>1, <1>2, NextPicker, TypeCorrect, PTL DEF Spec

-------------------------------------------------------------------------------
(* GrantLedger. *)

(* How the state of an authorization is read off where it is held, when it *)
(* is held in one place. *)
Reads ==
  \A a :
    /\ \A t \in CodesOf(a) :
         PhaseOf(a) = "code" /\ GrantOf(a) = codes[t] /\ RedeemerOf(a) = ""
    /\ \A h \in HoldersOf(a) :
         /\ PhaseOf(a) = "redeeming"
         /\ GrantOf(a) = inflight[h].grant
         /\ RedeemerOf(a) = ClientOf(inflight[h].req)
    /\ \A t \in RefreshOf(a) :
         PhaseOf(a) = "refreshable" /\ GrantOf(a) = refresh[t] /\ RedeemerOf(a) = ""
    /\ CodesOf(a) \union HoldersOf(a) \union RefreshOf(a) = {} =>
         /\ PhaseOf(a) = IF Opened(a) THEN "dead" ELSE "unopened"
         /\ GrantOf(a) = [ClientID |-> ""]
         /\ RedeemerOf(a) = ""

LEMMA OneHolderReads == TypeOK /\ OneHolder => Reads
<1> SUFFICES ASSUME TypeOK, OneHolder, NEW a
             PROVE  Reads!(a)
  BY DEF Reads
<1>0. DOMAIN codes \intersect DOMAIN refresh = {}
  BY DEF TypeOK
<1>1. ASSUME NEW t \in CodesOf(a)
      PROVE  PhaseOf(a) = "code" /\ GrantOf(a) = codes[t] /\ RedeemerOf(a) = ""
  <2>1. CodesOf(a) = {t}
    BY <1>1 DEF OneHolder, CodesOf, LiveTokens
  <2>2. PhaseOf(a) = "code" /\ GrantOf(a) = codes[t]
    BY <2>1 DEF PhaseOf, GrantOf
  <2> QED
    BY <2>2 DEF RedeemerOf
<1>2. ASSUME NEW h \in HoldersOf(a)
      PROVE  /\ PhaseOf(a) = "redeeming"
             /\ GrantOf(a) = inflight[h].grant
             /\ RedeemerOf(a) = ClientOf(inflight[h].req)
  <2>1. HoldersOf(a) = {h} /\ CodesOf(a) = {}
    BY <1>2 DEF OneHolder, CodesOf, HoldersOf, LiveTokens
  <2>2. PhaseOf(a) = "redeeming" /\ GrantOf(a) = inflight[h].grant
    BY <2>1 DEF PhaseOf, GrantOf
  <2> QED
    BY <2>1, <2>2 DEF RedeemerOf
<1>3. ASSUME NEW t \in RefreshOf(a)
      PROVE  PhaseOf(a) = "refreshable" /\ GrantOf(a) = refresh[t] /\ RedeemerOf(a) = ""
  <2>1. RefreshOf(a) = {t} /\ CodesOf(a) = {} /\ HoldersOf(a) = {}
    BY <1>0, <1>3 DEF OneHolder, CodesOf, RefreshOf, HoldersOf, LiveTokens
  <2>2. PhaseOf(a) = "refreshable" /\ GrantOf(a) = refresh[t]
    BY <2>1 DEF PhaseOf, GrantOf
  <2> QED
    BY <2>2 DEF RedeemerOf
<1>4. ASSUME CodesOf(a) \union HoldersOf(a) \union RefreshOf(a) = {}
      PROVE  /\ PhaseOf(a) = IF Opened(a) THEN "dead" ELSE "unopened"
             /\ GrantOf(a) = [ClientID |-> ""]
             /\ RedeemerOf(a) = ""
  <2>1. CodesOf(a) = {} /\ HoldersOf(a) = {} /\ RefreshOf(a) = {}
    BY <1>4
  <2>2. /\ PhaseOf(a) = IF Opened(a) THEN "dead" ELSE "unopened"
        /\ GrantOf(a) = [ClientID |-> ""]
    BY <2>1 DEF PhaseOf, GrantOf
  <2> QED
    BY <2>2 DEF RedeemerOf
<1> QED
  BY <1>1, <1>2, <1>3, <1>4

-------------------------------------------------------------------------------
(* Steps of the ledger.                                                    *)

Same(a) ==
  PhaseOf(a)' = PhaseOf(a) /\ GrantOf(a)' = GrantOf(a) /\ RedeemerOf(a)' = RedeemerOf(a)

(* An authorization that is held where it was is as it was. *)
LEMMA HeldAsBefore ==
  ASSUME Reads, Reads', NEW a,
         CodesOf(a)' = CodesOf(a), \A t \in CodesOf(a) : codes'[t] = codes[t],
         HoldersOf(a)' = HoldersOf(a), \A h \in HoldersOf(a) : inflight'[h] = inflight[h],
         RefreshOf(a)' = RefreshOf(a), \A t \in RefreshOf(a) : refresh'[t] = refresh[t],
         Opened(a)' <=> Opened(a)
  PROVE  Same(a)
<1>1. ASSUME NEW t \in CodesOf(a) PROVE Same(a)
  <2>1. PhaseOf(a) = "code" /\ GrantOf(a) = codes[t] /\ RedeemerOf(a) = ""
    BY <1>1 DEF Reads
  <2>2. t \in CodesOf(a)' /\ codes'[t] = codes[t]
    BY <1>1
  <2>3. PhaseOf(a)' = "code" /\ GrantOf(a)' = codes'[t] /\ RedeemerOf(a)' = ""
    BY <2>2 DEF Reads
  <2> QED
    BY <2>1, <2>2, <2>3 DEF Same
<1>2. ASSUME NEW h \in HoldersOf(a) PROVE Same(a)
  <2>1. /\ PhaseOf(a) = "redeeming" /\ GrantOf(a) = inflight[h].grant
        /\ RedeemerOf(a) = ClientOf(inflight[h].req)
    BY <1>2 DEF Reads
  <2>2. h \in HoldersOf(a)' /\ inflight'[h] = inflight[h]
    BY <1>2
  <2>3. /\ PhaseOf(a)' = "redeeming" /\ GrantOf(a)' = inflight'[h].grant
        /\ RedeemerOf(a)' = ClientOf(inflight[h].req)
    BY <2>2 DEF Reads, ClientOf
  <2> QED
    BY <2>1, <2>2, <2>3 DEF Same
<1>3. ASSUME NEW t \in RefreshOf(a) PROVE Same(a)
  <2>1. PhaseOf(a) = "refreshable" /\ GrantOf(a) = refresh[t] /\ RedeemerOf(a) = ""
    BY <1>3 DEF Reads
  <2>2. t \in RefreshOf(a)' /\ refresh'[t] = refresh[t]
    BY <1>3
  <2>3. PhaseOf(a)' = "refreshable" /\ GrantOf(a)' = refresh'[t] /\ RedeemerOf(a)' = ""
    BY <2>2 DEF Reads
  <2> QED
    BY <2>1, <2>2, <2>3 DEF Same
<1>4. CASE CodesOf(a) \union HoldersOf(a) \union RefreshOf(a) = {}
  <2>1. /\ PhaseOf(a) = IF Opened(a) THEN "dead" ELSE "unopened"
        /\ GrantOf(a) = [ClientID |-> ""] /\ RedeemerOf(a) = ""
    BY <1>4 DEF Reads
  <2>2. CodesOf(a)' \union HoldersOf(a)' \union RefreshOf(a)' = {}
    BY <1>4
  <2>3. /\ PhaseOf(a)' = IF Opened(a)' THEN "dead" ELSE "unopened"
        /\ GrantOf(a)' = [ClientID |-> ""] /\ RedeemerOf(a)' = ""
    BY <2>2 DEF Reads
  <2> QED
    BY <2>1, <2>3 DEF Same
<1> QED
  BY <1>1, <1>2, <1>3, <1>4

LEMMA OneMoves ==
  ASSUME NEW a \in 1..MaxSeq, \A x \in 1..MaxSeq \ {a} : Same(x)
  PROVE  Ledger!Move(a, PhaseOf(a)', GrantOf(a)', RedeemerOf(a)')
BY DEF Ledger!Move, Same

LEMMA NoneMoves ==
  ASSUME \A x \in 1..MaxSeq : Same(x)
  PROVE  UNCHANGED Ledger!ledgerVars
BY DEF Ledger!ledgerVars, Same

-------------------------------------------------------------------------------
(* What is needed besides OneHolder: every lineage goes back to a code     *)
(* that was counted within the bound, and handlers can be counted.         *)

Rooted ==
  /\ \A n \in 1..seq : /\ origin[n].code \in 1..MaxSeq
                       /\ origin[origin[n].code].code = origin[n].code
  /\ IsFiniteSet(DOMAIN inflight)

(* Drawing a token keeps the lineages, if the new one has a root. *)
LEMMA DrawRooted ==
  ASSUME TypeOK, Rooted, seq' = seq + 1,
         NEW e \in [code : 1..(seq + 1), request : AuthorizeRequests],
         origin' = Put(origin, seq + 1, e), e.code \in 1..MaxSeq,
         e.code = seq + 1 \/ (e.code \in 1..seq /\ origin[e.code].code = e.code)
  PROVE  \A n \in 1..seq' : /\ origin'[n].code \in 1..MaxSeq
                            /\ origin'[origin'[n].code].code = origin'[n].code
<1>1. origin'[seq + 1] = e /\ \A n \in 1..seq : origin'[n] = origin[n]
  BY OriginGrows
<1>2. \A n \in 1..seq : origin[n].code \in 1..seq
  BY DEF TypeOK
<1>3. \A n \in 1..seq' : n \in 1..seq \/ n = seq + 1
  BY DEF TypeOK
<1> QED
  BY <1>1, <1>2, <1>3 DEF Rooted

LEMMA RoomForOne ==
  ASSUME TypeOK, Rooted, Room
  PROVE  seq + 1 \in 1..MaxSeq
<1>1. Cardinality(DOMAIN inflight) \in Nat
  BY FS_CardinalityType DEF Rooted
<1> QED
  BY <1>1, ProviderAssumption DEF Room, TypeOK

(* The entry of a token that continues the lineage of another. *)
LEMMA Continued ==
  ASSUME TypeOK, Rooted, NEW n \in 1..seq
  PROVE  /\ origin[n] \in [code : 1..(seq + 1), request : AuthorizeRequests]
         /\ origin[n].code \in 1..MaxSeq
         /\ origin[n].code \in 1..seq /\ origin[origin[n].code].code = origin[n].code
BY DEF TypeOK, Rooted

LEMMA NextRooted == TypeOK /\ Rooted /\ [Next]_vars => Rooted'
<1> SUFFICES ASSUME TypeOK, Rooted, [Next]_vars PROVE Rooted'
  OBVIOUS
<1>0. ASSUME UNCHANGED <<seq, origin>>, DOMAIN inflight' \subseteq DOMAIN inflight
      PROVE  Rooted'
  BY <1>0, FS_Subset DEF Rooted
<1>1. ASSUME NEW q \in AuthorizeRequests, IssueCode(q) PROVE Rooted'
  <2> DEFINE e == [code |-> seq + 1, request |-> q]
  <2>1. /\ e \in [code : 1..(seq + 1), request : AuthorizeRequests]
        /\ e.code = seq + 1
    BY DEF TypeOK
  <2>2. inflight' = inflight /\ seq' = seq + 1 /\ origin' = Put(origin, seq + 1, e)
    BY <1>1 DEF IssueCode, NewCode, Begins
  <2>3. seq + 1 \in 1..MaxSeq
    BY <1>1, RoomForOne DEF IssueCode
  <2> HIDE DEF e
  <2> QED
    BY <2>1, <2>2, <2>3, DrawRooted DEF Rooted
<1>2. ASSUME NEW h \in Handlers, Finish(h) PROVE Rooted'
  <2> DEFINE e == origin[Number(Taken(h))]
  <2>1. Number(Taken(h)) \in 1..seq
    BY <1>2 DEF Finish, TypeOK, Taken
  <2>2. seq' = seq + 1 /\ origin' = Put(origin, seq + 1, e)
    BY <1>2 DEF Finish, NewRefresh, Continues, Taken
  <2>3. /\ e \in [code : 1..(seq + 1), request : AuthorizeRequests]
        /\ e.code \in 1..MaxSeq /\ e.code \in 1..seq /\ origin[e.code].code = e.code
    BY <2>1, Continued
  <2> HIDE DEF e
  <2>4. \A n \in 1..seq' : /\ origin'[n].code \in 1..MaxSeq
                           /\ origin'[origin'[n].code].code = origin'[n].code
    BY <2>2, <2>3, DrawRooted
  <2>5. DOMAIN inflight' \subseteq DOMAIN inflight
    BY <1>2 DEF Finish, Delete, Restrict
  <2> QED
    BY <2>4, <2>5, FS_Subset DEF Rooted
<1>3. ASSUME NEW h \in Handlers, NEW r \in TokenRequests, RedeemCode(h, r) \/ RedeemRefresh(h, r)
      PROVE  Rooted'
  <2>1. UNCHANGED <<seq, origin>>
    BY <1>3 DEF RedeemCode, RedeemRefresh, TakeCode, TakeRefresh, Settle
  <2>2. DOMAIN inflight' = DOMAIN inflight \/ DOMAIN inflight' = DOMAIN inflight \union {h}
    BY <1>3 DEF RedeemCode, RedeemRefresh, Settle, Put
  <2>3. IsFiniteSet(DOMAIN inflight')
    BY <2>2, FS_AddElement DEF Rooted
  <2> QED
    BY <2>1, <2>3 DEF Rooted
<1>4. ASSUME NEW h \in Handlers, GiveUp(h) PROVE Rooted'
  BY <1>0, <1>4 DEF GiveUp, storeVars, Delete, Restrict
<1>5. CASE Restart
  <2>1. 1..seq' = {} /\ DOMAIN inflight' = {}
    BY <1>5, EmptyMap DEF Restart
  <2> QED
    BY <2>1, FS_EmptySet DEF Rooted
<1>6. ASSUME UNCHANGED <<storeVars, inflight, origin>> PROVE Rooted'
  BY <1>0, <1>6 DEF storeVars
<1> QED
  BY <1>1, <1>2, <1>3, <1>4, <1>5, <1>6
  DEF Next, vars, storeVars, RefuseAuthorize, ShowPicker, RefuseToken, ClientCredentials, UnknownToken

LEMMA AlwaysRooted == Spec => []Rooted
<1>1. Init => Rooted
  <2> SUFFICES ASSUME Init PROVE Rooted
    OBVIOUS
  <2>1. 1..seq = {} /\ DOMAIN inflight = {}
    BY EmptyMap DEF Init, StoreInit
  <2> QED
    BY <2>1, FS_EmptySet DEF Rooted
<1> QED
  BY <1>1, NextRooted, TypeCorrect, PTL DEF Spec

-------------------------------------------------------------------------------
(* Each step of the provider, as a step of the ledger.                     *)

(* A lineage without a token or a handler of its own. *)
LEMMA Unheld ==
  ASSUME TypeOK, NEW a
  PROVE  a \notin 1..seq => CodesOf(a) = {} /\ HoldersOf(a) = {} /\ RefreshOf(a) = {}
BY LineageDrawn DEF CodesOf, HoldersOf, RefreshOf, LiveTokens

LEMMA IssueOpens ==
  ASSUME TypeOK, Rooted, Reads, Reads', NEW q \in AuthorizeRequests, IssueCode(q)
  PROVE  Ledger!LedgerNext
<1> DEFINE e == [code |-> seq + 1, request |-> q]
<1>0. PICK new : new = <<"pc", seq + 1>>
  OBVIOUS
<1>a. PICK a : a = seq + 1
  OBVIOUS
<1>1. /\ codes' = Put(codes, new, GrantFor(q))
      /\ refresh' = refresh /\ inflight' = inflight /\ seq' = seq + 1
      /\ origin' = Put(origin, seq + 1, e)
  BY <1>0 DEF IssueCode, NewCode, NextToken, Begins
<1>2. e \in [code : 1..(seq + 1), request : AuthorizeRequests] /\ e.code = a
  BY <1>a DEF TypeOK
<1> HIDE DEF e
<1>3. origin'[a] = e /\ \A n \in 1..seq : origin'[n] = origin[n]
  BY <1>a, <1>1, <1>2, OriginGrows
<1>4. a \in 1..MaxSeq /\ a \notin 1..seq /\ 1..seq' = 1..seq \union {a}
  BY <1>a, <1>1, RoomForOne DEF IssueCode, TypeOK
<1>5. /\ new \notin DOMAIN codes /\ DOMAIN codes' = DOMAIN codes \union {new}
      /\ codes'[new] = GrantFor(q) /\ \A t \in DOMAIN codes : codes'[t] = codes[t]
  <2>1. new \notin DOMAIN codes
    BY <1>0 DEF TypeOK
  <2> QED
    BY <1>1, <2>1 DEF Put
<1>6. /\ \A t \in LiveTokens : Lineage(t)' = Lineage(t)
      /\ \A h \in DOMAIN inflight : Lineage(Taken(h))' = Lineage(Taken(h))
  BY <1>1, <1>3, LineageDrawn DEF Lineage, Taken, TokenOf, Number
<1>7. Lineage(new)' = a
  BY <1>0, <1>a, <1>2, <1>3 DEF Lineage, Number
<1>8. PhaseOf(a) = "unopened"
  <2>1. CodesOf(a) \union HoldersOf(a) \union RefreshOf(a) = {}
    BY <1>4, Unheld
  <2>2. ~Opened(a)
    BY <1>4 DEF Opened
  <2> QED
    BY <2>1, <2>2 DEF Reads
<1>9. PhaseOf(a)' = "code" /\ GrantOf(a)' = GrantFor(q) /\ RedeemerOf(a)' = ""
  <2>1. new \in CodesOf(a)'
    BY <1>5, <1>7 DEF CodesOf
  <2> QED
    BY <1>5, <2>1 DEF Reads
<1>10. ASSUME NEW x \in 1..MaxSeq \ {a} PROVE Same(x)
  <2>1. CodesOf(x)' = CodesOf(x)
    BY <1>5, <1>6, <1>7 DEF CodesOf, LiveTokens
  <2>2. HoldersOf(x)' = HoldersOf(x)
    BY <1>1, <1>6 DEF HoldersOf
  <2>3. RefreshOf(x)' = RefreshOf(x)
    BY <1>1, <1>6 DEF RefreshOf, LiveTokens
  <2>4. Opened(x)' <=> Opened(x)
    BY <1>3, <1>4 DEF Opened
  <2>5. \A t \in CodesOf(x) : codes'[t] = codes[t]
    BY <1>5 DEF CodesOf
  <2> QED
    BY <1>1, <2>1, <2>2, <2>3, <2>4, <2>5, HeldAsBefore
<1>11. Ledger!Move(a, "code", GrantFor(q), "")
  BY <1>4, <1>9, <1>10, OneMoves
<1>12. Ledger!Open(a, GrantFor(q))
  BY <1>4, <1>8, <1>11 DEF Ledger!Open
<1> QED
  BY <1>4, <1>12 DEF Ledger!LedgerNext, Grants

LEMMA TakeRedeems ==
  ASSUME TypeOK, Rooted, OneHolder, Reads, OneHolder', Reads',
         NEW h, NEW r, NEW g, NEW ok, h \notin DOMAIN inflight,
         NEW t, t = TokenOf(r), Settle(h, r, g, ok), seq' = seq,
         \/ t \in DOMAIN codes /\ codes' = Delete(codes, t) /\ refresh' = refresh /\ g = codes[t]
         \/ t \in DOMAIN refresh /\ refresh' = Delete(refresh, t) /\ codes' = codes /\ g = refresh[t],
         ok => g.ClientID = ClientOf(r)
  PROVE  Ledger!LedgerNext
<1>0. PICK a : a = Lineage(t)
  OBVIOUS
<1>1. t \in LiveTokens /\ Number(t) \in 1..seq
  BY LineageDrawn DEF LiveTokens
<1>2. a \in 1..MaxSeq /\ a \in 1..seq /\ Opened(a)
  BY <1>0, <1>1, Continued DEF Lineage, Opened
<1>3. origin' = origin /\ \A u : Lineage(u)' = Lineage(u)
  BY DEF Settle, Lineage, Number
<1>4. DOMAIN codes \intersect DOMAIN refresh = {}
  BY DEF TypeOK
<1>5. /\ DOMAIN codes' = DOMAIN codes \ {t} /\ DOMAIN refresh' = DOMAIN refresh \ {t}
      /\ \A u \in DOMAIN codes' : codes'[u] = codes[u]
      /\ \A u \in DOMAIN refresh' : refresh'[u] = refresh[u]
  BY <1>4 DEF Delete, Restrict
<1>6. \A u \in LiveTokens : Lineage(u) = a => u = t
  BY <1>0, <1>1 DEF OneHolder
<1>7. \A x \in DOMAIN inflight : Lineage(Taken(x)) # a
  BY <1>0, <1>1 DEF OneHolder
<1>8. CodesOf(a)' = {} /\ RefreshOf(a)' = {}
  BY <1>3, <1>5, <1>6 DEF CodesOf, RefreshOf, LiveTokens
<1>9. PhaseOf(a) \in {"code", "refreshable"} /\ GrantOf(a) = g
  <2>1. \/ t \in CodesOf(a) /\ g = codes[t]
        \/ t \in RefreshOf(a) /\ g = refresh[t]
    BY <1>0 DEF CodesOf, RefreshOf
  <2> QED
    BY <2>1 DEF Reads
<1>10. ASSUME NEW x \in 1..MaxSeq \ {a}, HoldersOf(x)' = HoldersOf(x),
              \A y \in HoldersOf(x) : inflight'[y] = inflight[y]
       PROVE  Same(x)
  <2>1. CodesOf(x)' = CodesOf(x) /\ RefreshOf(x)' = RefreshOf(x)
    BY <1>0, <1>3, <1>5, <1>10 DEF CodesOf, RefreshOf
  <2>2. Opened(x)' <=> Opened(x)
    BY <1>3 DEF Opened
  <2>3. /\ \A u \in CodesOf(x) : codes'[u] = codes[u]
        /\ \A u \in RefreshOf(x) : refresh'[u] = refresh[u]
    BY <1>5, <2>1 DEF CodesOf, RefreshOf
  <2> QED
    BY <1>10, <2>1, <2>2, <2>3, HeldAsBefore
<1>11. CASE ok /\ inflight' = Put(inflight, h, [req |-> r, grant |-> g])
  <2>1. /\ DOMAIN inflight' = DOMAIN inflight \union {h}
        /\ inflight'[h].req = r /\ inflight'[h].grant = g
        /\ \A x \in DOMAIN inflight : inflight'[x] = inflight[x]
    BY <1>11 DEF Put
  <2>2. Taken(h)' = t /\ \A x \in DOMAIN inflight : Taken(x)' = Taken(x)
    BY <2>1 DEF Taken, TokenOf
  <2>3. /\ Lineage(Taken(h))' = a
        /\ \A x \in DOMAIN inflight : Lineage(Taken(x))' = Lineage(Taken(x))
    BY <1>0, <1>3, <2>2 DEF Lineage
  <2>4. /\ PhaseOf(a)' = "redeeming" /\ GrantOf(a)' = g
        /\ RedeemerOf(a)' = ClientOf(r)
    <3>1. h \in HoldersOf(a)'
      BY <2>1, <2>3 DEF HoldersOf
    <3>2. /\ PhaseOf(a)' = "redeeming" /\ GrantOf(a)' = inflight'[h].grant
          /\ RedeemerOf(a)' = ClientOf(inflight'[h].req)
      BY <3>1 DEF Reads, ClientOf
    <3> QED
      BY <2>1, <3>2
  <2>5. \A x \in 1..MaxSeq \ {a} : Same(x)
    <3> SUFFICES ASSUME NEW x \in 1..MaxSeq \ {a} PROVE Same(x)
      OBVIOUS
    <3>1. HoldersOf(x)' = HoldersOf(x)
      BY <2>1, <2>3 DEF HoldersOf
    <3>2. \A y \in HoldersOf(x) : inflight'[y] = inflight[y]
      BY <2>1 DEF HoldersOf
    <3> QED
      BY <1>10, <3>1, <3>2
  <2>6. Ledger!Move(a, "redeeming", GrantOf(a), GrantOf(a).ClientID)
    BY <1>2, <1>9, <1>11, <2>4, <2>5, OneMoves
  <2>7. Ledger!Redeem(a)
    BY <1>2, <1>9, <2>6 DEF Ledger!Redeem
  <2> QED
    BY <1>2, <2>7 DEF Ledger!LedgerNext
<1>12. CASE inflight' = inflight
  <2>1. \A x : HoldersOf(x)' = HoldersOf(x)
    BY <1>3, <1>12 DEF HoldersOf, Taken, TokenOf, Lineage
  <2>2. PhaseOf(a)' = "dead" /\ GrantOf(a)' = [ClientID |-> ""] /\ RedeemerOf(a)' = ""
    <3>1. HoldersOf(a)' = {}
      BY <1>7, <2>1 DEF HoldersOf
    <3>2. Opened(a)'
      BY <1>2, <1>3 DEF Opened
    <3>3. (CodesOf(a) \union HoldersOf(a) \union RefreshOf(a))' = {}
      BY <1>8, <3>1
    <3> QED
      BY <3>2, <3>3 DEF Reads
  <2>3. \A x \in 1..MaxSeq \ {a} : Same(x)
    BY <1>10, <1>12, <2>1
  <2>4. Ledger!Move(a, "dead", [ClientID |-> ""], "")
    BY <1>2, <2>2, <2>3, OneMoves
  <2>5. Ledger!Misuse(a)
    BY <1>2, <1>9, <2>4 DEF Ledger!Misuse
  <2> QED
    BY <1>2, <2>5 DEF Ledger!LedgerNext
<1> QED
  BY <1>11, <1>12 DEF Settle

LEMMA FinishRotates ==
  ASSUME TypeOK, Rooted, Reads, Reads', OneHolder, NEW h \in Handlers, Finish(h)
  PROVE  Ledger!LedgerNext
<1> DEFINE e == origin[Number(Taken(h))]
<1>0. PICK new : new = <<"pr", seq + 1>>
  OBVIOUS
<1>a. PICK a : a = Lineage(Taken(h))
  OBVIOUS
<1>b. h \in DOMAIN inflight /\ Number(Taken(h)) \in 1..seq
  BY DEF Finish, TypeOK, Taken
<1>1. /\ refresh' = Put(refresh, new, inflight[h].grant)
      /\ codes' = codes /\ inflight' = Delete(inflight, h) /\ seq' = seq + 1
      /\ origin' = Put(origin, seq + 1, e)
  BY <1>0 DEF Finish, NewRefresh, NextToken, Continues, Taken
<1>2. /\ e \in [code : 1..(seq + 1), request : AuthorizeRequests] /\ e.code = a
      /\ a \in 1..MaxSeq /\ a \in 1..seq
  BY <1>a, <1>b, Continued DEF Lineage
<1> HIDE DEF e
<1>3. origin'[seq + 1] = e /\ \A n \in 1..seq : origin'[n] = origin[n]
  BY <1>1, <1>2, OriginGrows
<1>4. /\ \A t \in LiveTokens : Lineage(t)' = Lineage(t)
      /\ Lineage(new)' = a
  BY <1>0, <1>2, <1>3, LineageDrawn DEF Lineage, Number
<1>5. /\ new \notin DOMAIN refresh /\ DOMAIN refresh' = DOMAIN refresh \union {new}
      /\ refresh'[new] = inflight[h].grant /\ \A t \in DOMAIN refresh : refresh'[t] = refresh[t]
  <2>1. new \notin DOMAIN refresh
    BY <1>0 DEF TypeOK
  <2> QED
    BY <1>1, <2>1 DEF Put
<1>6. /\ DOMAIN inflight' = DOMAIN inflight \ {h}
      /\ \A x \in DOMAIN inflight' : inflight'[x] = inflight[x]
      /\ \A x \in DOMAIN inflight' : Lineage(Taken(x))' = Lineage(Taken(x))
  <2>1. /\ DOMAIN inflight' = DOMAIN inflight \ {h}
        /\ \A x \in DOMAIN inflight' : inflight'[x] = inflight[x]
    BY <1>1 DEF Delete, Restrict
  <2>2. \A x \in DOMAIN inflight' : Taken(x)' = Taken(x)
    BY <2>1 DEF Taken, TokenOf
  <2> QED
    BY <1>3, <2>1, <2>2, LineageDrawn DEF Lineage, Number
<1>7. PhaseOf(a) = "redeeming" /\ GrantOf(a) = inflight[h].grant
  <2>1. h \in HoldersOf(a)
    BY <1>a, <1>b DEF HoldersOf
  <2> QED
    BY <2>1 DEF Reads
<1>8. PhaseOf(a)' = "refreshable" /\ GrantOf(a)' = GrantOf(a) /\ RedeemerOf(a)' = ""
  <2>1. new \in RefreshOf(a)'
    BY <1>4, <1>5 DEF RefreshOf
  <2> QED
    BY <1>5, <1>7, <2>1 DEF Reads
<1>9. ASSUME NEW x \in 1..MaxSeq \ {a} PROVE Same(x)
  <2>1. CodesOf(x)' = CodesOf(x)
    BY <1>1, <1>4 DEF CodesOf, LiveTokens
  <2>2. RefreshOf(x)' = RefreshOf(x)
    BY <1>4, <1>5 DEF RefreshOf, LiveTokens
  <2>3. HoldersOf(x)' = HoldersOf(x) /\ \A y \in HoldersOf(x) : inflight'[y] = inflight[y]
    BY <1>6, <1>a DEF HoldersOf
  <2>4. Opened(x)' <=> Opened(x)
    <3>1. 1..seq' = 1..seq \union {seq + 1} /\ (seq + 1) \notin 1..seq
      BY <1>1 DEF TypeOK
    <3>2. x = seq + 1 => ~Opened(x)' /\ ~Opened(x)
      BY <1>2, <1>3, <3>1 DEF Opened
    <3>3. x # seq + 1 => (Opened(x)' <=> Opened(x))
      BY <1>3, <3>1 DEF Opened
    <3> QED
      BY <3>2, <3>3
  <2>5. \A t \in RefreshOf(x) : refresh'[t] = refresh[t]
    BY <1>5 DEF RefreshOf
  <2> QED
    BY <1>1, <2>1, <2>2, <2>3, <2>4, <2>5, HeldAsBefore
<1>10. Ledger!Move(a, "refreshable", GrantOf(a), "")
  BY <1>2, <1>8, <1>9, OneMoves
<1>11. Ledger!Rotate(a)
  BY <1>2, <1>7, <1>10 DEF Ledger!Rotate
<1> QED
  BY <1>2, <1>11 DEF Ledger!LedgerNext

LEMMA GiveUpAborts ==
  ASSUME TypeOK, Rooted, Reads, Reads', OneHolder, NEW h \in Handlers, GiveUp(h)
  PROVE  Ledger!LedgerNext
<1>a. PICK a : a = Lineage(Taken(h))
  OBVIOUS
<1>1. h \in DOMAIN inflight /\ Number(Taken(h)) \in 1..seq
  BY DEF GiveUp, TypeOK, Taken
<1>2. a \in 1..MaxSeq /\ a \in 1..seq /\ Opened(a)
  BY <1>a, <1>1, Continued DEF Lineage, Opened
<1>3. UNCHANGED <<seq, codes, refresh, origin>>
  BY DEF GiveUp, storeVars
<1>4. /\ DOMAIN inflight' = DOMAIN inflight \ {h}
      /\ \A x \in DOMAIN inflight' : inflight'[x] = inflight[x]
  BY DEF GiveUp, Delete, Restrict
<1>5. /\ \A t : Lineage(t)' = Lineage(t)
      /\ \A x \in DOMAIN inflight' : Lineage(Taken(x))' = Lineage(Taken(x))
  BY <1>3, <1>4 DEF Lineage, Number, Taken, TokenOf
<1>6. \A x : /\ CodesOf(x)' = CodesOf(x) /\ RefreshOf(x)' = RefreshOf(x)
             /\ Opened(x)' <=> Opened(x)
  BY <1>3, <1>5 DEF CodesOf, RefreshOf, Opened
<1>7. PhaseOf(a) = "redeeming"
  <2>1. h \in HoldersOf(a)
    BY <1>a, <1>1 DEF HoldersOf
  <2> QED
    BY <2>1 DEF Reads
<1>8. PhaseOf(a)' = "dead" /\ GrantOf(a)' = [ClientID |-> ""] /\ RedeemerOf(a)' = ""
  <2>1. HoldersOf(a)' = {}
    BY <1>a, <1>1, <1>4, <1>5 DEF HoldersOf, OneHolder
  <2>2. CodesOf(a) = {} /\ RefreshOf(a) = {}
    BY <1>a, <1>1 DEF CodesOf, RefreshOf, OneHolder, LiveTokens
  <2>3. (CodesOf(a) \union HoldersOf(a) \union RefreshOf(a))' = {} /\ Opened(a)'
    BY <1>2, <1>6, <2>1, <2>2
  <2> QED
    BY <2>3 DEF Reads
<1>9. ASSUME NEW x \in 1..MaxSeq \ {a} PROVE Same(x)
  <2>1. HoldersOf(x)' = HoldersOf(x) /\ \A y \in HoldersOf(x) : inflight'[y] = inflight[y]
    BY <1>a, <1>4, <1>5 DEF HoldersOf
  <2> QED
    BY <1>3, <1>6, <2>1, HeldAsBefore
<1>10. Ledger!Move(a, "dead", [ClientID |-> ""], "")
  BY <1>2, <1>8, <1>9, OneMoves
<1>11. Ledger!Abort(a)
  BY <1>2, <1>7, <1>10 DEF Ledger!Abort
<1> QED
  BY <1>2, <1>11 DEF Ledger!LedgerNext

(* With nothing drawn and nothing held, nothing is opened. *)
LEMMA StartsWithNothing == Init => Ledger!Nothing
<1> SUFFICES ASSUME Init PROVE Ledger!Nothing
  OBVIOUS
<1>1. TypeOK /\ Reads
  BY InitTypes, InitOneHolder, OneHolderReads
<1>2. seq = 0
  BY DEF Init, StoreInit
<1>3. ASSUME NEW a
      PROVE  PhaseOf(a) = "unopened" /\ GrantOf(a) = [ClientID |-> ""] /\ RedeemerOf(a) = ""
  <2>1. a \notin 1..seq
    BY <1>2
  <2>2. CodesOf(a) \union HoldersOf(a) \union RefreshOf(a) = {} /\ ~Opened(a)
    BY <1>1, <2>1, Unheld DEF Opened
  <2> QED
    BY <1>1, <2>2 DEF Reads
<1> QED
  BY <1>3 DEF Ledger!Nothing

LEMMA StepsOfLedger ==
  TypeOK /\ Rooted /\ OneHolder /\ Reads /\ OneHolder' /\ Reads' /\ [Next]_vars
    => [Ledger!LedgerNext]_(Ledger!ledgerVars)
<1> SUFFICES ASSUME TypeOK, Rooted, OneHolder, Reads, OneHolder', Reads', [Next]_vars
             PROVE  Ledger!LedgerNext \/ UNCHANGED Ledger!ledgerVars
  OBVIOUS
<1>1. ASSUME NEW q \in AuthorizeRequests, IssueCode(q) PROVE Ledger!LedgerNext
  BY <1>1, IssueOpens
<1>2. ASSUME NEW h \in Handlers, NEW r \in TokenRequests, RedeemCode(h, r)
      PROVE  Ledger!LedgerNext
  <2>1. /\ h \notin DOMAIN inflight /\ TokenOf(r) = r.code /\ r.code \in DOMAIN codes
        /\ codes' = Delete(codes, r.code) /\ refresh' = refresh /\ seq' = seq
        /\ Settle(h, r, codes[r.code], CodeRedeemable(r, codes[r.code]))
    BY <1>2 DEF RedeemCode, Free, TakeCode, TokenOf
  <2>2. CodeRedeemable(r, codes[r.code]) => codes[r.code].ClientID = ClientOf(r)
    BY DEF CodeRedeemable
  <2>3. PICK ok : /\ Settle(h, r, codes[r.code], ok)
                  /\ ok => codes[r.code].ClientID = ClientOf(r)
    BY <2>1, <2>2
  <2> QED
    BY <2>1, <2>3, TakeRedeems
<1>3. ASSUME NEW h \in Handlers, NEW r \in TokenRequests, RedeemRefresh(h, r)
      PROVE  Ledger!LedgerNext
  <2>1. /\ h \notin DOMAIN inflight /\ TokenOf(r) = r.refresh_token
        /\ r.refresh_token \in DOMAIN refresh
        /\ refresh' = Delete(refresh, r.refresh_token) /\ codes' = codes /\ seq' = seq
        /\ Settle(h, r, refresh[r.refresh_token],
                  RefreshRedeemable(r, refresh[r.refresh_token]))
    BY <1>3 DEF RedeemRefresh, Free, TakeRefresh, TokenOf
  <2>2. RefreshRedeemable(r, refresh[r.refresh_token])
          => refresh[r.refresh_token].ClientID = ClientOf(r)
    BY DEF RefreshRedeemable
  <2>3. PICK ok : /\ Settle(h, r, refresh[r.refresh_token], ok)
                  /\ ok => refresh[r.refresh_token].ClientID = ClientOf(r)
    BY <2>1, <2>2
  <2> QED
    BY <2>1, <2>3, TakeRedeems
<1>4. ASSUME NEW h \in Handlers, Finish(h) PROVE Ledger!LedgerNext
  BY <1>4, FinishRotates
<1>5. ASSUME NEW h \in Handlers, GiveUp(h) PROVE Ledger!LedgerNext
  BY <1>5, GiveUpAborts
<1>6. CASE Restart
  <2>1. Init'
    BY <1>6 DEF Restart, Init, StoreInit
  <2>2. Ledger!Nothing'
    BY <2>1, StartsWithNothing, PTL
  <2>3. Ledger!Forget
    BY <2>2 DEF Ledger!Nothing, Ledger!Forget
  <2> QED
    BY <2>3 DEF Ledger!LedgerNext
<1>7. ASSUME UNCHANGED <<storeVars, inflight, origin>> PROVE UNCHANGED Ledger!ledgerVars
  <2>1. \A t : Lineage(t)' = Lineage(t) /\ \A h : Taken(h)' = Taken(h)
    BY <1>7 DEF Lineage, Number, Taken, TokenOf
  <2>2. \A x : /\ CodesOf(x)' = CodesOf(x) /\ RefreshOf(x)' = RefreshOf(x)
               /\ HoldersOf(x)' = HoldersOf(x) /\ (Opened(x)' <=> Opened(x))
    BY <1>7, <2>1 DEF storeVars, CodesOf, RefreshOf, HoldersOf, Lineage, Opened
  <2>3. \A x : Same(x)
    BY <1>7, <2>2, HeldAsBefore DEF storeVars
  <2> QED
    BY <2>3, NoneMoves
<1> QED
  BY <1>1, <1>2, <1>3, <1>4, <1>5, <1>6, <1>7
  DEF Next, vars, storeVars, RefuseAuthorize, ShowPicker, RefuseToken, ClientCredentials, UnknownToken

(* Under every interleaving of handlers, with misuse, failure to sign and  *)
(* restarts, each authorization lives the life GrantLedger describes: it   *)
(* is redeemed by one request at a time and only for its client, keeps its *)
(* grant, and stays dead.                                                  *)
THEOREM LivesByTheLedger ==
  Spec => Ledger!Nothing /\ [][Ledger!LedgerNext]_(Ledger!ledgerVars)
<1>1. TypeOK /\ OneHolder => Reads
  BY OneHolderReads
<1> QED
  BY <1>1, StartsWithNothing, StepsOfLedger, TypeCorrect, SingleHolder, AlwaysRooted, PTL DEF Spec

===============================================================================
