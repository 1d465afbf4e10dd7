----------------------------- MODULE TokenProofs ------------------------------
(***************************************************************************)
(* What holds of a token for every set of persona files, every scope       *)
(* parameter, every mint command line, every length of a second and every  *)
(* course of the clock.                                                    *)
(*                                                                         *)
(* The strengthening behind all of it is Minted: the followed token is     *)
(* what one of the three minting functions returned, for the file,         *)
(* persona, client, nonce, scopes and instant the history names.  What the *)
(* functions put into a token is then read off their definitions, and the  *)
(* one fact about files it takes is that no custom claim has a reserved    *)
(* name.                                                                   *)
(***************************************************************************)
EXTENDS TokenLife, AnswerProofs

-------------------------------------------------------------------------------
(* Whole seconds *)

LEMMA UnixMonotone ==
  ASSUME NEW s \in Nat \ {0}, NEW a \in Int, NEW b \in Int, a <= b
  PROVE  a \div s <= b \div s
OBVIOUS

LEMMA TruncateWithin ==
  ASSUME NEW s \in Nat \ {0}, NEW a \in Int
  PROVE  (a - (a % s)) \div s = a \div s
OBVIOUS

LEMMA UnixShift ==
  ASSUME NEW s \in Nat \ {0}, NEW a \in Int, NEW k \in Int
  PROVE  (a + k * s) \div s = (a \div s) + k
OBVIOUS

LEMMA WholeSeconds ==
  ASSUME NEW s \in Nat \ {0}, NEW a \in Int
  PROVE  /\ a \div s \in Int
         /\ (a \div s) * s <= a
         /\ a < ((a \div s) * s) + s
OBVIOUS

LEMMA Remainder ==
  ASSUME NEW s \in Nat \ {0}, NEW a \in Int
  PROVE  a % s \in Int /\ 0 <= a % s /\ a - (a % s) \in Int
OBVIOUS

-------------------------------------------------------------------------------
(* Splitting a scope parameter drops duplicates only, so the scope claim,  *)
(* which is split already, asks for what was asked for. *)
AddWord(out, w) == IF Contains(out, w) THEN out ELSE Append(out, w)

IsSplit(f, words) ==
  /\ f[0] = <<>>
  /\ \A i \in 1..Len(words) : f[i] = AddWord(f[i - 1], words[i])

LEMMA SplitIsDefined ==
  ASSUME NEW words \in Seq(STRING)
  PROVE  \E f : IsSplit(f, words) /\ SplitScope(words) = f[Len(words)]
<1> DEFINE n == Len(words)
           X == Seq(STRING)
           step == [p \in (1..n) \X X |-> AddWord(p[2], words[p[1]])]
           Def(u) == [i \in 0..n |-> IF i = 0 THEN <<>> ELSE AddWord(u[i - 1], words[i])]
<1>1. n \in Nat /\ <<>> \in X /\ \A i \in 1..n : words[i] \in STRING
  OBVIOUS
<1>2. ASSUME NEW out \in X, NEW w \in STRING PROVE AddWord(out, w) \in X
  BY AppendProperties DEF AddWord
<1>3. step \in [(1..n) \X X -> X]
  <2>1. ASSUME NEW p \in (1..n) \X X PROVE AddWord(p[2], words[p[1]]) \in X
    <3>1. p[1] \in 1..n /\ p[2] \in X
      OBVIOUS
    <3> QED
      BY <1>1, <1>2, <3>1
  <2> QED
    BY <2>1
<1>4. \A i \in 1..n, out \in X : step[<<i, out>>] = AddWord(out, words[i])
  OBVIOUS
<1> HIDE DEF step, n, X
<1>5. PICK f : f \in [0..n -> X] /\ Unfolds(f, n, <<>>, step)
  BY <1>1, <1>3, Recursion
<1>6. IsFunctionOn(Def(f), 0..n) /\ IsFunctionOn(f, 0..n)
  BY <1>5 DEF IsFunctionOn
<1>7. ASSUME NEW i \in 0..n PROVE f[i] = Def(f)[i]
  <2>1. CASE i = 0
    BY <1>5, <2>1 DEF Unfolds
  <2>2. CASE i # 0
    <3>1. i \in 1..n /\ i - 1 \in 0..n
      BY <1>1, <2>2
    <3>2. f[i] = step[<<i, f[i - 1]>>] /\ f[i - 1] \in X
      BY <1>5, <3>1 DEF Unfolds
    <3> QED
      BY <1>4, <2>2, <3>1, <3>2
  <2> QED
    BY <2>1, <2>2
<1>8. f = Def(f)
  <2> DEFINE g == Def(f)
             D == 0..n
  <2>1. IsFunctionOn(g, D)
    BY <1>6
  <2>2. IsFunctionOn(f, D)
    BY <1>6
  <2>3. \A i \in D : f[i] = g[i]
    BY <1>7
  <2> HIDE DEF g, D
  <2>4. f = g
    BY <2>1, <2>2, <2>3, SameFunction
  <2> QED
    BY <2>4 DEF g
<1> DEFINE h == CHOOSE u : u = Def(u)
<1>9. SplitScope(words) = h[n]
  BY DEF SplitScope, AddWord, n
<1>10. h = Def(h)
  <2> HIDE DEF Def
  <2> QED
    BY <1>8
<1> HIDE DEF h
<1>11. ASSUME NEW i \in 0..n PROVE h[i] = IF i = 0 THEN <<>> ELSE AddWord(h[i - 1], words[i])
  <2>1. Def(h)[i] = IF i = 0 THEN <<>> ELSE AddWord(h[i - 1], words[i])
    OBVIOUS
  <2> HIDE DEF Def
  <2> QED
    BY <1>10, <2>1
<1>12. IsSplit(h, words)
  <2>1. h[0] = <<>>
    BY <1>1, <1>11
  <2>2. ASSUME NEW i \in 1..n PROVE h[i] = AddWord(h[i - 1], words[i])
    BY <1>1, <1>11
  <2> QED
    BY <2>1, <2>2 DEF IsSplit, n
<1> QED
  BY <1>9, <1>12 DEF n

LEMMA SplitKeepsWords ==
  ASSUME NEW words \in Seq(STRING)
  PROVE  /\ SplitScope(words) \in Seq(STRING)
         /\ \A w : HasScope(SplitScope(words), w) <=> HasScope(words, w)
<1>1. PICK f : IsSplit(f, words) /\ SplitScope(words) = f[Len(words)]
  BY SplitIsDefined
<1> DEFINE n == Len(words)
           Said(out, m) == \A w : Contains(out, w) <=> \E i \in 1..m : words[i] = w
           S == {m \in Nat : m <= n => f[m] \in Seq(STRING) /\ Said(f[m], m)}
<1>2. n \in Nat /\ \A i \in 1..n : words[i] \in STRING
  OBVIOUS
<1>3. 0 \in S
  <2>1. f[0] = <<>> /\ <<>> \in Seq(STRING) /\ Len(<<>>) = 0
    BY <1>1 DEF IsSplit
  <2>2. \A w : ~Contains(<<>>, w)
    BY DEF Contains
  <2>3. \A w : ~\E i \in 1..0 : words[i] = w
    OBVIOUS
  <2> QED
    BY <2>1, <2>2, <2>3
<1>4. ASSUME NEW m \in Nat, m \in S PROVE m + 1 \in S
  <2> SUFFICES ASSUME m + 1 <= n PROVE f[m + 1] \in Seq(STRING) /\ Said(f[m + 1], m + 1)
    OBVIOUS
  <2> DEFINE out == f[m]
             w == words[m + 1]
  <2>1. out \in Seq(STRING) /\ Said(out, m) /\ w \in STRING
    BY <1>2, <1>4
  <2>2. f[m + 1] = AddWord(out, w)
    <3>1. m + 1 \in 1..n /\ (m + 1) - 1 = m
      BY <1>2
    <3>2. f[m + 1] = AddWord(f[(m + 1) - 1], words[m + 1])
      BY <1>1, <3>1 DEF IsSplit
    <3> QED
      BY <3>1, <3>2
  <2>3. \A v : (\E i \in 1..(m + 1) : words[i] = v) <=> (\E i \in 1..m : words[i] = v) \/ w = v
    OBVIOUS
  <2> HIDE DEF out, w
  <2>4. CASE Contains(out, w)
    <3>1. f[m + 1] = out
      BY <2>2, <2>4 DEF AddWord
    <3> QED
      BY <2>1, <2>3, <2>4, <3>1
  <2>5. CASE ~Contains(out, w)
    <3>1. f[m + 1] = Append(out, w)
      BY <2>2, <2>5 DEF AddWord
    <3>2. \A v : Contains(Append(out, w), v) <=> Contains(out, v) \/ w = v
      <4> DEFINE more == Append(out, w)
      <4>1. /\ Len(more) = Len(out) + 1 /\ Len(out) \in Nat /\ more[Len(out) + 1] = w
            /\ \A i \in 1..Len(out) : more[i] = out[i]
        <5>1. out \in Seq(STRING) /\ w \in STRING
          BY <2>1
        <5>2. Len(more) = Len(out) + 1 /\ more[Len(out) + 1] = w
          BY <5>1, AppendProperties
        <5>3. \A i \in 1..Len(out) : more[i] = out[i]
          BY <5>1, AppendProperties
        <5> QED
          BY <5>1, <5>2, <5>3
      <4> HIDE DEF more
      <4>2. \A v : (\E i \in 1..Len(more) : more[i] = v) <=> (\E i \in 1..Len(out) : out[i] = v) \/ w = v
        BY <4>1
      <4> QED
        BY <4>2 DEF Contains, more
    <3>3. Append(out, w) \in Seq(STRING)
      BY <2>1, AppendProperties
    <3> QED
      BY <2>1, <2>3, <3>1, <3>2, <3>3
  <2> QED
    BY <2>4, <2>5
<1> HIDE DEF S
<1>5. n \in S
  BY <1>2, <1>3, <1>4, Induction
<1>6. f[n] \in Seq(STRING) /\ Said(f[n], n)
  BY <1>2, <1>5 DEF S
<1>7. \A w : HasScope(words, w) <=> \E i \in 1..n : words[i] = w
  BY DEF HasScope, Contains
<1> QED
  BY <1>1, <1>6, <1>7 DEF HasScope

-------------------------------------------------------------------------------
(* What the minting functions put into a token *)

LEMMA ReleasedNames ==
  ASSUME NEW p, NEW scopes
  PROVE  DOMAIN Released(p, scopes)
           \subseteq {"email", "email_verified", "groups"} \union DOMAIN p.claims
<1> DEFINE email  == SetIf(HasScope(scopes, "email") /\ p.email # "", Nothing,
                           [email |-> p.email, email_verified |-> p.email_verified])
           groups == SetIf(HasScope(scopes, "groups") /\ p.groups # "", email,
                           [groups |-> p.groups])
<1>1. DOMAIN email \subseteq {"email", "email_verified"}
  <2>1. DOMAIN email \subseteq
          DOMAIN Nothing \union
          DOMAIN [email |-> p.email, email_verified |-> p.email_verified]
    BY DEF SetIf, SetAll
  <2> HIDE DEF email
  <2> QED
    BY <2>1 DEF Nothing
<1>2. DOMAIN groups \subseteq DOMAIN email \union {"groups"}
  <2> HIDE DEF email
  <2>1. DOMAIN groups \subseteq DOMAIN email \union DOMAIN [groups |-> p.groups]
    BY DEF SetIf, SetAll
  <2> QED
    BY <2>1
<1>3. DOMAIN SetIf(HasScope(scopes, "profile"), groups, p.claims)
        \subseteq DOMAIN groups \union DOMAIN p.claims
  <2> HIDE DEF groups
  <2> QED
    BY DEF SetIf, SetAll
<1>4. Released(p, scopes) = SetIf(HasScope(scopes, "profile"), groups, p.claims)
  BY DEF Released
<1> HIDE DEF email, groups
<1> QED
  BY <1>1, <1>2, <1>3, <1>4

(* What a persona releases leaves the reserved claims alone. *)
LEMMA ReservedAreOurs ==
  ASSUME NEW o, NEW p, NEW scopes, DOMAIN p.claims \cap ReservedClaims = {},
         NEW x \in ReservedClaims
  PROVE  LET claims == SetAll(o, Released(p, scopes))
         IN /\ x \in DOMAIN claims <=> x \in DOMAIN o
            /\ x \in DOMAIN o => claims[x] = o[x]
<1>1. x \notin {"email", "email_verified", "groups"}
  BY DEF ReservedClaims
<1>2. x \notin DOMAIN Released(p, scopes)
  BY <1>1, ReleasedNames
<1> DEFINE released == Released(p, scopes)
<1>3. x \notin DOMAIN released
  BY <1>2
<1> HIDE DEF released
<1>4. /\ x \in DOMAIN SetAll(o, released) <=> x \in DOMAIN o
      /\ x \in DOMAIN o => SetAll(o, released)[x] = o[x]
  BY <1>3 DEF SetAll
<1> QED
  BY <1>4 DEF released

Carries(t, name, value) == name \in DOMAIN t.claims /\ t.claims[name] = value
Lacks(t, names) == DOMAIN t.claims \cap names = {}

Registers(t, f, sub, client, at) ==
  /\ t.key = f.key
  /\ Carries(t, "iss", f.issuer) /\ Carries(t, "sub", sub) /\ Carries(t, "aud", client)
  /\ Carries(t, "exp", Unix(at + f.ttl)) /\ Carries(t, "iat", Unix(at))
  /\ Lacks(t, {"azp"})

(* What only an ID token says, and what only an access token does. *)
Identifies(t, nonce, at) ==
  /\ Carries(t, "auth_time", Unix(at))
  /\ IF nonce = "" THEN Lacks(t, {"nonce"}) ELSE Carries(t, "nonce", nonce)
  /\ Lacks(t, {"client_id", "jti", "scope", "token_use"})

GivesAccess(t, client, scopes) ==
  /\ Carries(t, "client_id", client)
  /\ Carries(t, "scope", scopes)
  /\ Carries(t, "token_use", "access")
  /\ Lacks(t, {"auth_time", "nonce"})

Identity(f, sub, client, nonce, at) ==
  SetIf(nonce # "", SetAll(Registered(f, sub, client, at), [auth_time |-> Unix(at)]),
        [nonce |-> nonce])

Identified(ours, f, sub, client, nonce, at) ==
  /\ {"iss", "sub", "aud", "exp", "iat", "auth_time"} \subseteq DOMAIN ours
  /\ DOMAIN ours \subseteq {"iss", "sub", "aud", "exp", "iat", "auth_time", "nonce"}
  /\ ours["iss"] = f.issuer /\ ours["sub"] = sub /\ ours["aud"] = client
  /\ ours["exp"] = Unix(at + f.ttl) /\ ours["iat"] = Unix(at)
  /\ ours["auth_time"] = Unix(at)
  /\ IF nonce = "" THEN "nonce" \notin DOMAIN ours
                   ELSE "nonce" \in DOMAIN ours /\ ours["nonce"] = nonce

LEMMA BeforeIdentity ==
  ASSUME NEW f, NEW sub, NEW client, NEW nonce, NEW at
  PROVE  Identified(Identity(f, sub, client, nonce, at), f, sub, client, nonce, at)
<1> DEFINE plain == SetAll(Registered(f, sub, client, at), [auth_time |-> Unix(at)])
           ours  == Identity(f, sub, client, nonce, at)
           more  == [nonce |-> nonce]
<1>1. /\ DOMAIN plain = {"iss", "sub", "aud", "exp", "iat", "auth_time"}
      /\ plain["iss"] = f.issuer /\ plain["sub"] = sub /\ plain["aud"] = client
      /\ plain["exp"] = Unix(at + f.ttl) /\ plain["iat"] = Unix(at)
      /\ plain["auth_time"] = Unix(at)
  BY DEF SetAll, Registered
<1>2. DOMAIN more = {"nonce"} /\ more["nonce"] = nonce
  OBVIOUS
<1>3. ours = IF nonce # "" THEN SetAll(plain, more) ELSE plain
  BY DEF Identity, SetIf
<1> SUFFICES Identified(ours, f, sub, client, nonce, at)
  OBVIOUS
<1> HIDE DEF plain, ours, more
<1>4. CASE nonce = ""
  <2>1. ours = plain
    BY <1>3, <1>4
  <2> QED
    BY <1>1, <1>4, <2>1 DEF Identified
<1>5. CASE nonce # ""
  <2>1. ours = SetAll(plain, more)
    BY <1>3, <1>5
  <2>2. /\ DOMAIN ours = DOMAIN plain \union {"nonce"} /\ ours["nonce"] = nonce
        /\ \A x \in DOMAIN plain : x # "nonce" => ours[x] = plain[x]
    BY <1>2, <2>1 DEF SetAll
  <2> QED
    BY <1>1, <1>5, <2>2 DEF Identified
<1> QED
  BY <1>4, <1>5

LEMMA IDTokenClaims ==
  ASSUME NEW f, NEW p, NEW client, NEW nonce, NEW scopes, NEW at,
         DOMAIN p.claims \cap ReservedClaims = {}
  PROVE  LET t == IDToken(f, p, client, nonce, scopes, at)
         IN Registers(t, f, p.subject, client, at) /\ Identifies(t, nonce, at)
<1> DEFINE ours == Identity(f, p.subject, client, nonce, at)
           t    == IDToken(f, p, client, nonce, scopes, at)
<1>1. Identified(ours, f, p.subject, client, nonce, at)
  BY BeforeIdentity
<1>2. t.key = f.key /\ t.claims = SetAll(ours, Released(p, scopes))
  BY DEF IDToken, SignJWT, Identity
<1> HIDE DEF ours, t
<1>3. \A x \in ReservedClaims :
         /\ x \in DOMAIN t.claims <=> x \in DOMAIN ours
         /\ x \in DOMAIN ours => t.claims[x] = ours[x]
  BY <1>2, ReservedAreOurs
<1>4. {"iss", "sub", "aud", "exp", "iat", "nonce", "jti", "auth_time", "azp",
       "client_id", "scope", "token_use"} \subseteq ReservedClaims
  BY DEF ReservedClaims
<1>5. Registers(t, f, p.subject, client, at)
  <2>1. /\ {"iss", "sub", "aud", "exp", "iat"} \subseteq DOMAIN ours
        /\ "azp" \notin DOMAIN ours
        /\ ours["iss"] = f.issuer /\ ours["sub"] = p.subject /\ ours["aud"] = client
        /\ ours["exp"] = Unix(at + f.ttl) /\ ours["iat"] = Unix(at)
    BY <1>1 DEF Identified
  <2> QED
    BY <1>2, <1>3, <1>4, <2>1 DEF Registers, Carries, Lacks
<1>6. Identifies(t, nonce, at)
  <2>1. Carries(t, "auth_time", Unix(at))
    BY <1>1, <1>3, <1>4 DEF Identified, Carries
  <2>2. IF nonce = "" THEN Lacks(t, {"nonce"}) ELSE Carries(t, "nonce", nonce)
    BY <1>1, <1>3, <1>4, ZenonT(30) DEF Identified, Carries, Lacks
  <2>3. Lacks(t, {"client_id", "jti", "scope", "token_use"})
    BY <1>1, <1>3, <1>4 DEF Identified, Lacks
  <2> QED
    BY <2>1, <2>2, <2>3 DEF Identifies
<1> QED
  BY <1>5, <1>6 DEF t

LEMMA BeforeRelease ==
  ASSUME NEW f, NEW sub, NEW client, NEW scopes, NEW at
  PROVE  LET ours == SetAll(Registered(f, sub, client, at), Access(client, scopes))
         IN /\ DOMAIN ours = {"iss", "sub", "aud", "exp", "iat",
                              "client_id", "scope", "token_use"}
            /\ ours["iss"] = f.issuer /\ ours["sub"] = sub /\ ours["aud"] = client
            /\ ours["exp"] = Unix(at + f.ttl) /\ ours["iat"] = Unix(at)
            /\ ours["client_id"] = client
            /\ ours["token_use"] = "access" /\ ours["scope"] = scopes
BY DEF SetAll, Registered, Access

LEMMA AccessTokenClaims ==
  ASSUME NEW f, NEW p, NEW client, NEW scopes, NEW at,
         DOMAIN p.claims \cap ReservedClaims = {}
  PROVE  LET t == AccessToken(f, p, client, scopes, at)
         IN Registers(t, f, p.subject, client, at) /\ GivesAccess(t, client, scopes)
<1> DEFINE ours == SetAll(Registered(f, p.subject, client, at), Access(client, scopes))
           t    == AccessToken(f, p, client, scopes, at)
<1>1. /\ DOMAIN ours = {"iss", "sub", "aud", "exp", "iat",
                        "client_id", "scope", "token_use"}
      /\ ours["iss"] = f.issuer /\ ours["sub"] = p.subject /\ ours["aud"] = client
      /\ ours["exp"] = Unix(at + f.ttl) /\ ours["iat"] = Unix(at)
      /\ ours["client_id"] = client
      /\ ours["token_use"] = "access" /\ ours["scope"] = scopes
  BY BeforeRelease
<1>2. t.key = f.key /\ t.claims = SetAll(ours, Released(p, scopes))
  BY DEF AccessToken, SignJWT
<1> HIDE DEF ours, t
<1>3. \A x \in ReservedClaims :
         /\ x \in DOMAIN t.claims <=> x \in DOMAIN ours
         /\ x \in DOMAIN ours => t.claims[x] = ours[x]
  BY <1>2, ReservedAreOurs
<1>4. {"iss", "sub", "aud", "exp", "iat", "nonce", "auth_time", "azp",
       "client_id", "scope", "token_use"} \subseteq ReservedClaims
  BY DEF ReservedClaims
<1>5. Registers(t, f, p.subject, client, at)
  BY <1>1, <1>2, <1>3, <1>4 DEF Registers, Carries, Lacks
<1>6. GivesAccess(t, client, scopes)
  BY <1>1, <1>3, <1>4 DEF GivesAccess, Carries, Lacks
<1> QED
  BY <1>5, <1>6 DEF t

LEMMA MachineTokenClaims ==
  ASSUME NEW f, NEW client, NEW scopes, NEW at
  PROVE  LET t == ClientCredentialsToken(f, client, scopes, at)
         IN Registers(t, f, client, client, at) /\ GivesAccess(t, client, scopes)
<1> DEFINE ours == SetAll(Registered(f, client, client, at), Access(client, scopes))
           t    == ClientCredentialsToken(f, client, scopes, at)
<1>1. /\ DOMAIN ours = {"iss", "sub", "aud", "exp", "iat",
                        "client_id", "scope", "token_use"}
      /\ ours["iss"] = f.issuer /\ ours["sub"] = client /\ ours["aud"] = client
      /\ ours["exp"] = Unix(at + f.ttl) /\ ours["iat"] = Unix(at)
      /\ ours["client_id"] = client
      /\ ours["token_use"] = "access" /\ ours["scope"] = scopes
  BY BeforeRelease
<1>2. t.key = f.key /\ t.claims = ours
  BY DEF ClientCredentialsToken, SignJWT
<1> HIDE DEF ours, t
<1>3. Registers(t, f, client, client, at)
  BY <1>1, <1>2 DEF Registers, Carries, Lacks
<1>4. GivesAccess(t, client, scopes)
  BY <1>1, <1>2 DEF GivesAccess, Carries, Lacks
<1> QED
  BY <1>3, <1>4 DEF t

-------------------------------------------------------------------------------
(* The invariant *)

(* The instant a server running from f stamps its tokens with. *)
Stamp(f, now) == IF f.issued_at # Live THEN f.issued_at ELSE Truncate(now)

(* t is what the issuer returns when it is asked for o. *)
MintedFor(t, o) ==
  \/ /\ o.kind = "machine"
     /\ t = ClientCredentialsToken(o.file, o.client, o.scopes, o.at)
  \/ /\ o.persona \in DOMAIN o.file.personas
     /\ LET p == o.file.personas[o.persona]
        IN \/ /\ o.kind = "id"
              /\ t = IDToken(o.file, p, o.client, o.nonce, o.scopes, o.at)
           \/ /\ o.kind = "access"
              /\ t = AccessToken(o.file, p, o.client, o.scopes, o.at)

Handed(t, o) ==
  /\ o.file \in Files /\ ValidFile(o.file)
  /\ o.client \in o.file.clients /\ o.scopes \in Seq(STRING) /\ o.at \in Int
  /\ o.served => o.clock \in Nat /\ o.at = Stamp(o.file, o.clock)
  /\ MintedFor(t, o)

Minted == (issued = NotIssued /\ token = NoToken) \/ Handed(token, issued)

Serving ==
  /\ clock \in 0..MaxClock
  /\ running \in Files /\ ValidFile(running)
  /\ reply.to \in {"", "mint", "userinfo", "introspect"}

TokenInv == Serving /\ Minted /\ UserinfoOnlyForAccessTokens /\ UserinfoAgreesWithToken

LEMMA StampIsInteger ==
  ASSUME NEW f \in Files, NEW now \in Int
  PROVE  Stamp(f, now) \in Int
<1>1. f.issued_at \in Int
  BY TimeAssumption DEF Live
<1>2. Truncate(now) \in Int
  BY TimeAssumption, Remainder DEF Truncate
<1> QED
  BY <1>1, <1>2 DEF Stamp

LEMMA MintCheckNumbers == \A f, m : DOMAIN MintChecks(f, m) = 1..5
BY DEF MintChecks

LEMMA MintPasses ==
  ASSUME NEW f, NEW m, Passes(MintChecks(f, m))
  PROVE  /\ ValidFile(f)
         /\ m.persona \in DOMAIN f.personas
         /\ m.client \in f.clients
         /\ m.kind \in {"id", "access"}
<1>1. DOMAIN MintChecks(f, m) = 1..5
  BY MintCheckNumbers
<1>2. \A i \in 1..5 : ~MintChecks(f, m)[i].fails
  BY <1>1 DEF Passes
<1>3. MintChecks(f, m)[1].fails <=> ~ValidFile(f)
  BY DEF MintChecks, Check
<1>4. MintChecks(f, m)[2].fails <=> m.persona \notin DOMAIN f.personas
  BY DEF MintChecks, Check
<1>5. MintChecks(f, m)[3].fails <=> m.client \notin f.clients
  BY DEF MintChecks, Check
<1>6. MintChecks(f, m)[5].fails <=> m.kind \notin {"id", "access"}
  BY DEF MintChecks, Check
<1> QED
  BY <1>2, <1>3, <1>4, <1>5, <1>6

LEMMA UserinfoPasses ==
  ASSUME NEW method, NEW t, Passes(UserinfoChecks(method, t))
  PROVE  /\ Verifies(t)
         /\ StringClaim(t, "iss") = running.issuer
         /\ StringClaim(t, "token_use") = "access"
         /\ PersonasBySubject(running, StringClaim(t, "sub")) # {}
<1>1. DOMAIN UserinfoChecks(method, t) = 1..6
  BY DEF UserinfoChecks, Check
<1>2. \A i \in 1..6 : ~UserinfoChecks(method, t)[i].fails
  BY <1>1 DEF Passes
<1>3. UserinfoChecks(method, t)[2].fails <=> ~Verifies(t)
  BY DEF UserinfoChecks, Check
<1>4. UserinfoChecks(method, t)[3].fails <=> StringClaim(t, "iss") # running.issuer
  BY DEF UserinfoChecks, Check
<1>5. UserinfoChecks(method, t)[4].fails <=> StringClaim(t, "token_use") # "access"
  BY DEF UserinfoChecks, Check
<1>6. UserinfoChecks(method, t)[6].fails
        <=> PersonasBySubject(running, StringClaim(t, "sub")) = {}
  BY DEF UserinfoChecks, Check
<1> QED
  BY <1>2, <1>3, <1>4, <1>5, <1>6

LEMMA ClockIsNatural == TokenInv => clock \in Nat
<1>1. MaxClock \in Nat
  BY TimeAssumption
<1>2. clock \in 0..MaxClock => clock \in Nat
  BY <1>1
<1> QED
  BY <1>2 DEF TokenInv, Serving

LEMMA HandedIsMinted ==
  ASSUME NEW t, NEW what, Hand(t, what), Handed(t, what)
  PROVE  Minted'
<1>1. token' = t /\ issued' = what
  BY DEF Hand
<1>2. Handed(token', issued')
  BY <1>1
<1> QED
  BY <1>2 DEF Minted, Handed, MintedFor, ClientCredentialsToken, IDToken, AccessToken

LEMMA InvInit == TokenInit => TokenInv
<1> SUFFICES ASSUME TokenInit PROVE TokenInv
  OBVIOUS
<1>1. reply.to = ""
  BY DEF TokenInit, NoReply
<1>2. Serving
  BY <1>1 DEF TokenInit, Serving
<1>3. Minted
  BY DEF TokenInit, Minted
<1>4. UserinfoOnlyForAccessTokens /\ UserinfoAgreesWithToken
  BY <1>1 DEF UserinfoOnlyForAccessTokens, UserinfoAgreesWithToken, UserinfoAnswered
<1> QED
  BY <1>2, <1>3, <1>4 DEF TokenInv

(* What a step does to the token: it mints one, or leaves it alone. *)
LEMMA NextMinted == TokenInv /\ [TokenNext]_tokenVars => Minted'
<1> SUFFICES ASSUME TokenInv, [TokenNext]_tokenVars PROVE Minted'
  OBVIOUS
<1>r. running \in Files /\ ValidFile(running) /\ IssueTime(running) \in Int
  <2>1. running \in Files /\ ValidFile(running)
    BY DEF TokenInv, Serving
  <2>2. IssueTime(running) = Stamp(running, clock)
    BY DEF IssueTime, Stamp
  <2> QED
    BY <2>1, <2>2, ClockIsNatural, StampIsInteger
<1>s. \A words \in Seq(STRING) : SplitScope(words) \in Seq(STRING)
  BY SplitKeepsWords
<1>w. ScopeWords \subseteq Seq(STRING) /\ \A m \in MintRequests : m.scope \in Seq(STRING)
  BY TimeAssumption
<1>0. ASSUME UNCHANGED <<token, issued>> PROVE Minted'
  BY <1>0 DEF TokenInv, Minted
<1>c. clock \in Nat /\ IssueTime(running) = Stamp(running, clock)
  BY ClockIsNatural DEF IssueTime, Stamp
<1>1. ASSUME NEW client \in running.clients, NEW words \in ScopeWords,
             NEW n \in DOMAIN running.personas, NEW nonce,
             PersonaTokens(n, client, nonce, words)
      PROVE  Minted'
  <2> DEFINE p      == running.personas[n]
             scopes == SplitScope(words)
             at     == IssueTime(running)
             id     == IDToken(running, p, client, nonce, scopes, at)
             access == AccessToken(running, p, client, scopes, at)
             What(kind, said) ==
               [kind |-> kind, file |-> running, persona |-> n, client |-> client, nonce |-> said,
                scopes |-> scopes, at |-> at, clock |-> clock, served |-> TRUE]
  <2>1. Hand(id, What("id", nonce)) \/ Hand(access, What("access", ""))
    BY <1>1 DEF PersonaTokens
  <2>2. scopes \in Seq(STRING)
    BY <1>s, <1>w
  <2>3. Handed(id, What("id", nonce))
    BY <2>2, <1>r, <1>c DEF Handed, MintedFor
  <2>4. Handed(access, What("access", ""))
    BY <2>2, <1>r, <1>c DEF Handed, MintedFor
  <2> HIDE DEF id, access, What
  <2> QED
    BY <2>1, <2>3, <2>4, HandedIsMinted
<1>2. ASSUME NEW client \in running.clients, NEW words \in ScopeWords,
             MachineToken(client, words)
      PROVE  Minted'
  <2> DEFINE scopes == SplitScope(words)
             at     == IssueTime(running)
             t      == ClientCredentialsToken(running, client, scopes, at)
             what   == [kind |-> "machine", file |-> running, persona |-> "", client |-> client,
                        nonce |-> "", scopes |-> scopes, at |-> at, clock |-> clock,
                        served |-> TRUE]
  <2>1. Hand(t, what)
    BY <1>2 DEF MachineToken
  <2>2. scopes \in Seq(STRING)
    BY <1>s, <1>w
  <2>3. Handed(t, what)
    BY <2>2, <1>r, <1>c DEF Handed, MintedFor
  <2> HIDE DEF t, what
  <2> QED
    BY <2>1, <2>3, HandedIsMinted
<1>3. ASSUME NEW f \in Files, NEW m \in MintRequests, Mint(f, m)
      PROVE  Minted'
  <2> DEFINE p      == f.personas[m.persona]
             scopes == SplitScope(m.scope)
             at     == IF m.at = Live THEN IssueTime(f) ELSE m.at
             id     == IDToken(f, p, m.client, m.nonce, scopes, at)
             access == AccessToken(f, p, m.client, scopes, at)
             what   == [kind |-> m.kind, file |-> f, persona |-> m.persona,
                        client |-> m.client, nonce |-> m.nonce, scopes |-> scopes,
                        at |-> at, clock |-> clock, served |-> FALSE]
  <2>1. /\ ValidFile(f) /\ m.client \in f.clients
        /\ m.persona \in DOMAIN f.personas /\ m.kind \in {"id", "access"}
    BY <1>3, MintPasses DEF Mint
  <2>2. at \in Int
    <3>1. IssueTime(f) = Stamp(f, clock)
      BY DEF IssueTime, Stamp
    <3> QED
      BY <3>1, ClockIsNatural, StampIsInteger, TimeAssumption
  <2>3. IF m.kind = "id" THEN Hand(id, what) ELSE Hand(access, what)
    BY <1>3 DEF Mint
  <2>4. scopes \in Seq(STRING)
    BY <1>s, <1>w
  <2> HIDE DEF at
  <2>5. m.kind = "id" => Handed(id, what)
    BY <2>1, <2>2, <2>4 DEF Handed, MintedFor
  <2>6. m.kind = "access" => Handed(access, what)
    BY <2>1, <2>2, <2>4 DEF Handed, MintedFor
  <2> HIDE DEF id, access, what
  <2> QED
    BY <2>1, <2>3, <2>5, <2>6, HandedIsMinted
<1>4. ASSUME NEW f \in Files, NEW m \in MintRequests, MintFails(f, m)
      PROVE  Minted'
  BY <1>4, <1>0 DEF MintFails
<1>5. ASSUME NEW method, NEW t, Userinfo(method, t)
      PROVE  Minted'
  BY <1>5, <1>0 DEF Userinfo
<1>6. ASSUME NEW method, NEW parses, NEW authenticates, NEW t,
             Introspect(method, parses, authenticates, t)
      PROVE  Minted'
  BY <1>6, <1>0 DEF Introspect
<1>7. ASSUME NEW f \in Files, Serve(f) PROVE Minted'
  BY <1>7, <1>0 DEF Serve
<1>8. CASE Tick
  BY <1>8, <1>0 DEF Tick
<1>9. ASSUME NEW now, SetBack(now) PROVE Minted'
  BY <1>9, <1>0 DEF SetBack
<1>10. CASE UNCHANGED tokenVars
  BY <1>10, <1>0 DEF tokenVars
<1> QED
  BY <1>1, <1>2, <1>3, <1>4, <1>5, <1>6, <1>7, <1>8, <1>9, <1>10 DEF TokenNext

LEMMA RespondsTo == \A to, answer, body : Respond(to, answer, body) => reply'.to = to
BY DEF Respond

LEMMA NextServing == Serving /\ [TokenNext]_tokenVars => Serving'
<1> SUFFICES ASSUME Serving, [TokenNext]_tokenVars PROVE Serving'
  OBVIOUS
<1>c. clock \in 0..MaxClock /\ MaxClock \in Nat
  BY TimeAssumption DEF Serving
<1>0. ASSUME clock' \in 0..MaxClock, running' = running,
             reply'.to \in {"", "mint", "userinfo", "introspect"}
      PROVE  Serving'
  <2>1. ValidFile(running')
    BY <1>0 DEF Serving
  <2> QED
    BY <1>0, <2>1 DEF Serving
<1>1. ASSUME NEW client, NEW words, NEW nonce, NEW n, PersonaTokens(n, client, nonce, words)
      PROVE  Serving'
  BY <1>1, <1>0, <1>c DEF PersonaTokens, NoReply
<1>2. ASSUME NEW client, NEW words, MachineToken(client, words)
      PROVE  Serving'
  BY <1>2, <1>0, <1>c DEF MachineToken, NoReply
<1>3. ASSUME NEW f, NEW m, Mint(f, m) PROVE Serving'
  BY <1>3, <1>0, <1>c DEF Mint, Respond
<1>4. ASSUME NEW f, NEW m, MintFails(f, m) PROVE Serving'
  BY <1>4, <1>0, <1>c DEF MintFails, Respond
<1>5. ASSUME NEW method, NEW t, Userinfo(method, t)
      PROVE  Serving'
  <2>1. reply'.to = "userinfo"
    <3>1. CASE Passes(UserinfoChecks(method, t))
      <4>1. \E body : Respond("userinfo", Refuse(200, ""), body)
        BY <1>5, <3>1, Zenon DEF Userinfo
      <4> QED
        BY <4>1, RespondsTo, Zenon
    <3>2. CASE ~Passes(UserinfoChecks(method, t))
      BY <1>5, <3>2 DEF Userinfo, Respond
    <3> QED
      BY <3>1, <3>2
  <2> QED
    BY <1>5, <2>1, <1>0, <1>c DEF Userinfo
<1>6. ASSUME NEW method, NEW parses, NEW authenticates, NEW t,
             Introspect(method, parses, authenticates, t)
      PROVE  Serving'
  <2>1. reply'.to = "introspect"
    <3>1. CASE Passes(IntrospectChecks(method, parses, authenticates))
      <4>1. \E body : Respond("introspect", Refuse(200, ""), body)
        BY <1>6, <3>1, Zenon DEF Introspect
      <4> QED
        BY <4>1, RespondsTo, Zenon
    <3>2. CASE ~Passes(IntrospectChecks(method, parses, authenticates))
      BY <1>6, <3>2 DEF Introspect, Respond
    <3> QED
      BY <3>1, <3>2
  <2> QED
    BY <1>6, <2>1, <1>0, <1>c DEF Introspect
<1>7. ASSUME NEW f \in Files, Serve(f) PROVE Serving'
  <2>1. ValidFile(running') /\ running' \in Files
    BY <1>7 DEF Serve
  <2> QED
    BY <1>7, <2>1, <1>c DEF Serve, Serving, NoReply
<1>8. CASE Tick
  <2>1. clock' \in 0..MaxClock
    BY <1>8, <1>c DEF Tick
  <2> QED
    BY <1>8, <2>1, <1>0 DEF Tick, NoReply
<1>9. ASSUME NEW now \in 0..MaxClock, SetBack(now) PROVE Serving'
  BY <1>9, <1>0, <1>c DEF SetBack, NoReply
<1>10. CASE UNCHANGED tokenVars
  BY <1>10, <1>0, <1>c DEF tokenVars, Serving
<1> QED
  BY <1>1, <1>2, <1>3, <1>4, <1>5, <1>6, <1>7, <1>8, <1>9, <1>10 DEF TokenNext

(* What a token says of itself, in every state. *)
Subject(o) == IF o.kind = "machine" THEN o.client ELSE o.file.personas[o.persona].subject

LEMMA MintedClaims ==
  ASSUME NEW t, NEW o, Handed(t, o)
  PROVE  /\ o.kind \in {"id", "access", "machine"}
         /\ Registers(t, o.file, Subject(o), o.client, o.at)
         /\ IF o.kind = "id" THEN Identifies(t, o.nonce, o.at)
                             ELSE GivesAccess(t, o.client, o.scopes)
<1>1. CASE /\ o.kind = "machine"
           /\ t = ClientCredentialsToken(o.file, o.client, o.scopes, o.at)
  <2>1. Registers(t, o.file, o.client, o.client, o.at) /\ GivesAccess(t, o.client, o.scopes)
    BY <1>1, MachineTokenClaims
  <2> QED
    BY <1>1, <2>1 DEF Subject
<1> DEFINE p == o.file.personas[o.persona]
<1>2. o.persona \in DOMAIN o.file.personas => DOMAIN p.claims \cap ReservedClaims = {}
  BY DEF Handed, ValidFile
<1> HIDE DEF p
<1>3. CASE /\ o.persona \in DOMAIN o.file.personas /\ o.kind = "id"
           /\ t = IDToken(o.file, p, o.client, o.nonce, o.scopes, o.at)
  <2>1. Registers(t, o.file, p.subject, o.client, o.at) /\ Identifies(t, o.nonce, o.at)
    BY <1>2, <1>3, IDTokenClaims
  <2> QED
    BY <1>3, <2>1 DEF Subject, p
<1>4. CASE /\ o.persona \in DOMAIN o.file.personas /\ o.kind = "access"
           /\ t = AccessToken(o.file, p, o.client, o.scopes, o.at)
  <2>1. Registers(t, o.file, p.subject, o.client, o.at) /\ GivesAccess(t, o.client, o.scopes)
    BY <1>2, <1>4, AccessTokenClaims
  <2> QED
    BY <1>4, <2>1 DEF Subject, p
<1> QED
  BY <1>1, <1>3, <1>4 DEF Handed, MintedFor, p

LEMMA AcceptedIsAccess ==
  ASSUME TokenInv, NEW method, NEW t \in {token, NoToken},
         Passes(UserinfoChecks(method, t))
  PROVE  /\ issued.kind \in {"access", "machine"}
         /\ issued.file.issuer = running.issuer /\ issued.file.key = running.key
         /\ issued.kind = "machine" =>
              \E n \in DOMAIN running.personas : running.personas[n].subject = issued.client
<1>1. /\ Verifies(t)
      /\ StringClaim(t, "iss") = running.issuer
      /\ StringClaim(t, "token_use") = "access"
      /\ PersonasBySubject(running, StringClaim(t, "sub")) # {}
  BY UserinfoPasses
<1>2. StringClaim(NoToken, "token_use") = ""
  BY DEF StringClaim, NoToken, Nothing
<1>3. t = token /\ token # NoToken
  BY <1>1, <1>2
<1>4. Handed(token, issued)
  BY <1>3 DEF TokenInv, Minted
<1>5. /\ token.key = issued.file.key
      /\ StringClaim(token, "iss") = issued.file.issuer
      /\ issued.kind \in {"id", "access", "machine"}
      /\ issued.kind = "id" => StringClaim(token, "token_use") = ""
      /\ issued.kind = "machine" => StringClaim(token, "sub") = issued.client
  <2>1. /\ issued.kind \in {"id", "access", "machine"}
        /\ Registers(token, issued.file, Subject(issued), issued.client, issued.at)
        /\ issued.kind = "id" => Identifies(token, issued.nonce, issued.at)
    BY <1>4, MintedClaims
  <2> QED
    BY <2>1 DEF Registers, Identifies, Carries, Lacks, StringClaim, Subject
<1>6. issued.kind \in {"access", "machine"}
  BY <1>1, <1>3, <1>5
<1>7. token.key = running.key
  BY <1>1, <1>3 DEF Verifies
<1>8. issued.kind = "machine" =>
        \E n \in DOMAIN running.personas : running.personas[n].subject = issued.client
  BY <1>1, <1>3, <1>5 DEF PersonasBySubject
<1> QED
  BY <1>1, <1>3, <1>5, <1>6, <1>7, <1>8

(* A refusal of /userinfo is not an answer. *)
LEMMA UserinfoCheckNumbers ==
  \A method, t : DOMAIN UserinfoChecks(method, t) = 1..6
BY DEF UserinfoChecks

LEMMA UserinfoStatus ==
  ASSUME NEW method, NEW t
  PROVE  \A i \in 1..6 : UserinfoChecks(method, t)[i].answer.status # 200
<1> DEFINE checks == UserinfoChecks(method, t)
<1>1. checks[1].answer = Refuse(405, "invalid_request")
  BY DEF UserinfoChecks, Check
<1>2. checks[2].answer = Refuse(401, "invalid_token")
  BY DEF UserinfoChecks, Check
<1>3. checks[3].answer = Refuse(401, "invalid_token")
  BY DEF UserinfoChecks, Check
<1>4. checks[4].answer = Refuse(401, "invalid_token")
  BY DEF UserinfoChecks, Check
<1>5. checks[5].answer = Refuse(401, "invalid_token")
  BY DEF UserinfoChecks, Check
<1>6. checks[6].answer = Refuse(401, "invalid_token")
  BY DEF UserinfoChecks, Check
<1> HIDE DEF checks
<1>a. Refuse(405, "invalid_request").status # 200 /\ Refuse(401, "invalid_token").status # 200
  BY DEF Refuse, Answer
<1>7. \A i \in 1..6 : i = 1 \/ i = 2 \/ i = 3 \/ i = 4 \/ i = 5 \/ i = 6
  OBVIOUS
<1>8. \A i \in 1..6 : checks[i].answer.status # 200
  BY <1>1, <1>2, <1>3, <1>4, <1>5, <1>6, <1>7, <1>a
<1> QED
  BY <1>8 DEF checks

LEMMA RefusalIsNoAnswer ==
  ASSUME NEW method, NEW t, ~Passes(UserinfoChecks(method, t))
  PROVE  FirstFailure(UserinfoChecks(method, t)).status # 200
<1> DEFINE checks == UserinfoChecks(method, t)
<1>1. DOMAIN checks = 1..6 /\ ~Passes(checks)
  BY UserinfoCheckNumbers
<1>2. \A i \in 1..6 : checks[i].answer.status # 200
  BY UserinfoStatus
<1> HIDE DEF checks
<1>3. PICK i \in Failing(checks) : FirstFailure(checks) = checks[i].answer
  BY <1>1, FirstFailing
<1>4. FirstFailure(checks).status # 200
  BY <1>1, <1>2, <1>3 DEF Failing
<1> QED
  BY <1>4 DEF checks

(* Only /userinfo answers as /userinfo. *)
LEMMA WhoReplies ==
  ASSUME [TokenNext]_tokenVars, reply'.to = "userinfo"
  PROVE  \/ UNCHANGED tokenVars
         \/ \E method, t : t \in {token, NoToken} /\ Userinfo(method, t)
<1>n. NoReply.to # "userinfo"
  BY DEF NoReply
<1>1. ASSUME NEW client, NEW words, NEW nonce, NEW n, PersonaTokens(n, client, nonce, words)
      PROVE  FALSE
  BY <1>1, <1>n DEF PersonaTokens
<1>2. ASSUME NEW client, NEW words, MachineToken(client, words) PROVE FALSE
  BY <1>2, <1>n DEF MachineToken
<1>3. ASSUME NEW f, NEW m, Mint(f, m) PROVE FALSE
  BY <1>3, RespondsTo DEF Mint
<1>4. ASSUME NEW f, NEW m, MintFails(f, m) PROVE FALSE
  BY <1>4, RespondsTo DEF MintFails
<1>5. ASSUME NEW method, NEW parses, NEW authenticates, NEW t,
             Introspect(method, parses, authenticates, t)
      PROVE  FALSE
  <2>1. \E answer, body : Respond("introspect", answer, body)
    BY <1>5, Zenon DEF Introspect
  <2> QED
    BY <2>1, RespondsTo
<1>6. ASSUME NEW f, Serve(f) PROVE FALSE
  BY <1>6, <1>n DEF Serve
<1>7. ASSUME Tick PROVE FALSE
  BY <1>7, <1>n DEF Tick
<1>8. ASSUME NEW now, SetBack(now) PROVE FALSE
  BY <1>8, <1>n DEF SetBack
<1> QED
  BY <1>1, <1>2, <1>3, <1>4, <1>5, <1>6, <1>7, <1>8 DEF TokenNext

LEMMA NextUserinfo ==
  TokenInv /\ [TokenNext]_tokenVars => UserinfoOnlyForAccessTokens'
<1> SUFFICES ASSUME TokenInv, [TokenNext]_tokenVars, reply'.to = "userinfo"
             PROVE  UserinfoOnlyForAccessTokens'
  BY DEF UserinfoOnlyForAccessTokens, UserinfoAnswered
<1>1. ASSUME NEW method, NEW t \in {token, NoToken}, Userinfo(method, t)
      PROVE  UserinfoOnlyForAccessTokens'
  <2>1. CASE Passes(UserinfoChecks(method, t))
    BY <1>1, <2>1, AcceptedIsAccess DEF Userinfo, UserinfoOnlyForAccessTokens
  <2>2. CASE ~Passes(UserinfoChecks(method, t))
    <3>1. Respond("userinfo", FirstFailure(UserinfoChecks(method, t)), Nothing)
      BY <1>1, <2>2 DEF Userinfo
    <3>2. reply'.answer = FirstFailure(UserinfoChecks(method, t))
      BY <3>1 DEF Respond
    <3> QED
      BY <2>2, <3>2, RefusalIsNoAnswer DEF UserinfoOnlyForAccessTokens, UserinfoAnswered
  <2> QED
    BY <2>1, <2>2
<1>2. CASE UNCHANGED tokenVars
  BY <1>2 DEF tokenVars, TokenInv, UserinfoOnlyForAccessTokens, UserinfoAnswered
<1> QED
  BY <1>1, <1>2, WhoReplies

(* What /userinfo shows and what an access token carries start from sets   *)
(* of claims the issuer reserves, and get the same claims of the persona.  *)
LEMMA SameRelease ==
  ASSUME NEW p, NEW scopes, DOMAIN p.claims \cap ReservedClaims = {},
         NEW o, DOMAIN o \subseteq ReservedClaims, "sub" \in DOMAIN o, o["sub"] = p.subject
  PROVE  LET body   == UserinfoClaims(p, scopes)
             claims == SetAll(o, Released(p, scopes))
         IN /\ DOMAIN body = (DOMAIN claims \ ReservedClaims) \union {"sub"}
            /\ \A name \in DOMAIN body : body[name] = claims[name]
<1> DEFINE released == Released(p, scopes)
           sub == [sub |-> p.subject]
<1>1. DOMAIN released \cap ReservedClaims = {}
  <2>1. {"email", "email_verified", "groups"} \cap ReservedClaims = {}
    BY DEF ReservedClaims
  <2> QED
    BY <2>1, ReleasedNames
<1>2. DOMAIN sub = {"sub"} /\ sub["sub"] = p.subject
  OBVIOUS
<1>3. UserinfoClaims(p, scopes) = SetAll(sub, released)
  BY DEF UserinfoClaims
<1> HIDE DEF released, sub
<1> DEFINE body == SetAll(sub, released)
           claims == SetAll(o, released)
<1>4. /\ DOMAIN body = {"sub"} \union DOMAIN released
      /\ DOMAIN claims = DOMAIN o \union DOMAIN released
      /\ \A x \in DOMAIN released : body[x] = released[x] /\ claims[x] = released[x]
      /\ "sub" \notin DOMAIN released => body["sub"] = p.subject /\ claims["sub"] = o["sub"]
  BY <1>2 DEF SetAll
<1>5. "sub" \in ReservedClaims
  BY DEF ReservedClaims
<1> HIDE DEF body, claims
<1>6. /\ DOMAIN body = (DOMAIN claims \ ReservedClaims) \union {"sub"}
      /\ \A name \in DOMAIN body : body[name] = claims[name]
  BY <1>1, <1>4, <1>5
<1> QED
  BY <1>3, <1>6 DEF released, body, claims

LEMMA SplitReleases ==
  ASSUME NEW p, NEW scopes \in Seq(STRING)
  PROVE  Released(p, SplitScope(scopes)) = Released(p, scopes)
<1>1. \A w : HasScope(SplitScope(scopes), w) = HasScope(scopes, w)
  <2>1. \A s, w : HasScope(s, w) \in BOOLEAN
    BY DEF HasScope, Contains
  <2> QED
    BY <2>1, SplitKeepsWords
<1>2. \A c, d, o, more : c = d => SetIf(c, o, more) = SetIf(d, o, more)
  OBVIOUS
<1>3. /\ (HasScope(SplitScope(scopes), "email") /\ p.email # "") = (HasScope(scopes, "email") /\ p.email # "")
      /\ (HasScope(SplitScope(scopes), "groups") /\ p.groups # "") = (HasScope(scopes, "groups") /\ p.groups # "")
  BY <1>1
<1> DEFINE email(s) == SetIf(HasScope(s, "email") /\ p.email # "", Nothing,
                             [email |-> p.email, email_verified |-> p.email_verified])
           groups(s) == SetIf(HasScope(s, "groups") /\ p.groups # "", email(s), [groups |-> p.groups])
<1>4. email(SplitScope(scopes)) = email(scopes)
  BY <1>2, <1>3
<1>5. groups(SplitScope(scopes)) = groups(scopes)
  <2> HIDE DEF email
  <2> QED
    BY <1>2, <1>3, <1>4
<1>6. \A s : Released(p, s) = SetIf(HasScope(s, "profile"), groups(s), p.claims)
  BY Zenon DEF Released
<1> HIDE DEF groups
<1> QED
  BY <1>1, <1>5, <1>6

LEMMA NextAgrees == TokenInv /\ [TokenNext]_tokenVars => UserinfoAgreesWithToken'
<1> SUFFICES ASSUME TokenInv, [TokenNext]_tokenVars, UserinfoAnswered',
                    issued'.kind = "access", issued'.file = running'
             PROVE  /\ DOMAIN reply'.body = (DOMAIN token'.claims \ ReservedClaims) \union {"sub"}
                    /\ \A name \in DOMAIN reply'.body : reply'.body[name] = token'.claims[name]
  BY DEF UserinfoAgreesWithToken
<1>1. CASE UNCHANGED tokenVars
  BY <1>1 DEF tokenVars, TokenInv, UserinfoAgreesWithToken, UserinfoAnswered
<1>2. ASSUME NEW method, NEW t \in {token, NoToken}, Userinfo(method, t)
      PROVE  /\ DOMAIN reply'.body = (DOMAIN token.claims \ ReservedClaims) \union {"sub"}
             /\ \A name \in DOMAIN reply'.body : reply'.body[name] = token.claims[name]
  <2> DEFINE n == CHOOSE n \in PersonasBySubject(running, StringClaim(t, "sub")) : TRUE
             words == SplitScope(ScopeClaim(t))
  <2>1. Passes(UserinfoChecks(method, t))
    <3> SUFFICES ASSUME ~Passes(UserinfoChecks(method, t)) PROVE FALSE
      OBVIOUS
    <3>1. Respond("userinfo", FirstFailure(UserinfoChecks(method, t)), Nothing)
      BY <1>2 DEF Userinfo
    <3>2. reply'.answer = FirstFailure(UserinfoChecks(method, t))
      BY <3>1 DEF Respond
    <3> QED
      BY <3>2, RefusalIsNoAnswer DEF UserinfoAnswered
  <2>2. reply'.body = UserinfoClaims(running.personas[n], words)
    <3>1. Respond("userinfo", Refuse(200, ""), UserinfoClaims(running.personas[n], words))
      BY <1>2, <2>1, Zenon DEF Userinfo
    <3> QED
      BY <3>1 DEF Respond
  <2>3. issued.kind = "access" /\ issued.file = running
    BY <1>2 DEF Userinfo
  <2>4. t = token /\ PersonasBySubject(running, StringClaim(t, "sub")) # {}
    <3>1. StringClaim(NoToken, "token_use") # "access"
      BY DEF StringClaim, NoToken, Nothing
    <3> QED
      BY <2>1, <3>1, UserinfoPasses
  <2> DEFINE k  == issued.persona
             at == issued.at
  <2>5. /\ k \in DOMAIN running.personas /\ issued.scopes \in Seq(STRING)
        /\ token = AccessToken(running, running.personas[k], issued.client, issued.scopes, at)
    <3>1. NotIssued.kind = "none"
      BY DEF NotIssued
    <3>2. Handed(token, issued)
      BY <2>3, <3>1 DEF TokenInv, Minted
    <3> QED
      BY <2>3, <3>2 DEF Handed, MintedFor
  <2> DEFINE p == running.personas[k]
             ours == SetAll(Registered(running, p.subject, issued.client, at),
                            Access(issued.client, issued.scopes))
  <2>6. ValidFile(running) /\ DOMAIN p.claims \cap ReservedClaims = {}
    BY <2>5 DEF TokenInv, Serving, ValidFile
  <2>7. StringClaim(token, "sub") = p.subject /\ ScopeClaim(token) = issued.scopes
    <3>1. Registers(token, running, p.subject, issued.client, at)
          /\ GivesAccess(token, issued.client, issued.scopes)
      BY <2>5, <2>6, AccessTokenClaims
    <3> QED
      BY <3>1 DEF Registers, GivesAccess, Carries, StringClaim, ScopeClaim
  <2>8. n = k
    <3>1. n \in PersonasBySubject(running, p.subject)
      BY <2>4, <2>7
    <3> HIDE DEF n
    <3> QED
      BY <2>5, <2>6, <3>1 DEF PersonasBySubject, ValidFile
  <2>9. reply'.body = UserinfoClaims(p, issued.scopes)
    <3>1. reply'.body = UserinfoClaims(p, SplitScope(issued.scopes))
      BY <2>2, <2>4, <2>7, <2>8
    <3> QED
      BY <2>5, <3>1, SplitReleases DEF UserinfoClaims
  <2>10. token.claims = SetAll(ours, Released(p, issued.scopes))
    BY <2>5 DEF AccessToken, SignJWT
  <2>11. DOMAIN ours \subseteq ReservedClaims /\ "sub" \in DOMAIN ours /\ ours["sub"] = p.subject
    <3>1. /\ DOMAIN ours = {"iss", "sub", "aud", "exp", "iat", "client_id", "scope", "token_use"}
          /\ ours["sub"] = p.subject
      BY BeforeRelease
    <3> HIDE DEF ours
    <3> QED
      BY <3>1 DEF ReservedClaims
  <2> HIDE DEF ours, p, n, words
  <2> QED
    BY <2>6, <2>9, <2>10, <2>11, SameRelease, SMTT(30), ZenonT(30)
<1>3. reply'.to = "userinfo"
  BY DEF UserinfoAnswered
<1>4. ASSUME NEW method, NEW t, Userinfo(method, t) PROVE token' = token
  BY <1>4 DEF Userinfo
<1> QED
  BY <1>1, <1>2, <1>3, <1>4, WhoReplies

LEMMA Invariance == TokenSpec => []TokenInv
<1>1. TokenInv /\ [TokenNext]_tokenVars => TokenInv'
  BY NextServing, NextMinted, NextUserinfo, NextAgrees DEF TokenInv
<1> QED
  BY <1>1, InvInit, PTL DEF TokenSpec

-------------------------------------------------------------------------------
(* Theorems *)

(* The server always runs from a valid file, and the token followed was    *)
(* minted from one, for a client of it, with its key.                      *)
THEOREM TokenTypeCorrect == TokenSpec => []TokenTypeOK
<1>1. TokenInv => TokenTypeOK
  <2> SUFFICES ASSUME TokenInv PROVE TokenTypeOK
    OBVIOUS
  <2>1. Serving /\ Minted
    BY DEF TokenInv
  <2>2. CASE issued = NotIssued /\ token = NoToken
    BY <2>1, <2>2 DEF TokenTypeOK, Serving
  <2>3. CASE Handed(token, issued)
    <3>1. /\ issued.file \in Files /\ ValidFile(issued.file)
          /\ issued.client \in issued.file.clients
      BY <2>3 DEF Handed
    <3>2. token.key = issued.file.key /\ issued.kind \in {"id", "access", "machine"}
      BY <2>3, MintedClaims DEF Registers
    <3> QED
      BY <2>1, <3>1, <3>2 DEF TokenTypeOK, Serving
  <2> QED
    BY <2>1, <2>2, <2>3 DEF Minted
<1> QED
  BY <1>1, Invariance, PTL

(* No custom claim of any persona, whatever it is called, makes a token    *)
(* say anything but what was asked for, of the persona it was asked for,   *)
(* and when: of the claims the issuer computes each has the value computed *)
(* from the request and the file, and none of the other kind is present.   *)
THEOREM NoTokenLies == TokenSpec => []TokensDoNotLie
<1>1. TokenInv => TokensDoNotLie
  <2> SUFFICES ASSUME TokenInv, issued.kind # "none" PROVE TokensDoNotLie
    BY DEF TokensDoNotLie
  <2>1. NotIssued.kind = "none"
    BY DEF NotIssued
  <2>2. Handed(token, issued)
    BY <2>1 DEF TokenInv, Minted
  <2>3. /\ Registers(token, issued.file, Subject(issued), issued.client, issued.at)
        /\ IF issued.kind = "id" THEN Identifies(token, issued.nonce, issued.at)
                                 ELSE GivesAccess(token, issued.client, issued.scopes)
    BY <2>2, MintedClaims
  <2>4. \A name, value : Carries(token, name, value) <=> Says(name, value)
    BY DEF Carries, Says
  <2>5. \A names : Lacks(token, names) <=> Omits(names)
    BY DEF Lacks, Omits
  <2> QED
    BY <2>3, <2>4, <2>5 DEF TokensDoNotLie, Registers, Identifies, GivesAccess, Subject
<1> QED
  BY <1>1, Invariance, PTL

(* /userinfo answers only to an access token of the issuer and key it runs *)
(* with, whatever files the server was started from in between.            *)
THEOREM OnlyAccessTokens == TokenSpec => []UserinfoOnlyForAccessTokens
<1>1. TokenInv => UserinfoOnlyForAccessTokens
  BY DEF TokenInv
<1> QED
  BY <1>1, Invariance, PTL

(* "Scopes gate claim release the same way everywhere" (README.md:100):    *)
(* while the file stays the same, /userinfo shows what the access token    *)
(* carries of the persona, although it splits the scope claim once more    *)
(* and looks the persona up by the subject.                                *)
THEOREM UserinfoAgrees == TokenSpec => []UserinfoAgreesWithToken
<1>1. TokenInv => UserinfoAgreesWithToken
  BY DEF TokenInv
<1> QED
  BY <1>1, Invariance, PTL

(* exp - iat is the lifetime, to the second; stated for the two stamps.    *)
LEMMA LiveLifetime ==
  ASSUME NEW s \in Nat \ {0}, NEW ttl \in Int, NEW born \in Int, NEW now \in Int
  PROVE  LET exp == (born - (born % s) + ttl) \div s
         IN /\ now < born + (ttl \div s) * s => ~(exp < now \div s)
            /\ now >= born + ttl + s => exp < now \div s
<1> DEFINE whole == born - (born % s)
           k     == ttl \div s
           exp   == (whole + ttl) \div s
<1>1. whole \in Int /\ whole <= born /\ whole \div s = born \div s
  <2>1. born % s \in Int /\ 0 <= born % s /\ whole \in Int
    BY Remainder
  <2>2. whole <= born
    BY <2>1
  <2>3. whole \div s = born \div s
    BY TruncateWithin
  <2> QED
    BY <2>1, <2>2, <2>3
<1>2. k \in Int /\ k * s \in Int /\ k * s <= ttl
  BY WholeSeconds
<1>3. exp \in Int /\ now \div s \in Int /\ (born + ttl) \div s \in Int
  BY <1>1, WholeSeconds
<1> HIDE DEF whole, k
<1>4. (whole + k * s) \div s <= exp
  BY <1>1, <1>2, UnixMonotone
<1>5. (whole + k * s) \div s = (born \div s) + k /\ (born + k * s) \div s = (born \div s) + k
  BY <1>1, <1>2, UnixShift
<1>6. now < born + k * s => now \div s <= (born + k * s) \div s
  BY <1>2, UnixMonotone
<1>7. born \div s \in Int
  BY WholeSeconds
<1>8. now < born + k * s => ~(exp < now \div s)
  BY <1>2, <1>3, <1>4, <1>5, <1>6, <1>7
<1>9. exp <= (born + ttl) \div s
  BY <1>1, UnixMonotone
<1>10. (born + ttl + 1 * s) \div s = ((born + ttl) \div s) + 1
  BY UnixShift
<1>11. born + ttl + 1 * s = born + ttl + s /\ born + ttl + s \in Int
  OBVIOUS
<1>12. now >= born + ttl + s => (born + ttl + s) \div s <= now \div s
  BY <1>11, UnixMonotone
<1>13. now >= born + ttl + s => exp < now \div s
  BY <1>3, <1>9, <1>10, <1>11, <1>12
<1> QED
  BY <1>8, <1>13 DEF whole, k

(* A token from the server is good for expires_in seconds, and with a live *)
(* clock for less than one more.                                           *)
THEOREM LifetimeKept == TokenSpec => []LifetimeHonoured
<1>1. TokenInv => LifetimeHonoured
  <2> SUFFICES ASSUME TokenInv, issued.served, issued.file = running
               PROVE  /\ clock < issued.clock + (running.ttl \div Second) * Second => Active(token)
                      /\ running.issued_at = Live /\ clock >= issued.clock + running.ttl + Second
                           => ~Active(token)
    BY DEF LifetimeHonoured
  <2> DEFINE ttl == running.ttl
             at  == issued.at
  <2>1. ~NotIssued.served
    BY DEF NotIssued
  <2>2. /\ Handed(token, issued)
        /\ at \in Int /\ issued.file \in Files /\ ValidFile(issued.file)
        /\ issued.clock \in Nat /\ at = Stamp(running, issued.clock)
    BY <2>1 DEF TokenInv, Minted, Handed
  <2>3. token.key = running.key /\ IntClaim(token, "exp") = Unix(at + ttl)
    BY <2>2, MintedClaims DEF Registers, Carries, IntClaim
  <2>4. Active(token) <=> ~(Unix(at + ttl) < Unix(IssueTime(running)))
    BY <2>3 DEF Active, Verifies, Expired
  <2>5. Second \in Nat \ {0} /\ ttl \in Int /\ ttl > 0 /\ clock \in Int /\ issued.clock \in Int
    <3>1. ValidFile(running)
      BY DEF TokenInv, Serving
    <3> QED
      BY <2>2, <3>1, TimeAssumption, ClockIsNatural DEF ValidFile
  <2>6. CASE running.issued_at # Live
    <3>1. IssueTime(running) = at
      BY <2>2, <2>6 DEF Stamp, IssueTime
    <3>2. Unix(at) <= Unix(at + ttl) /\ Unix(at) \in Int /\ Unix(at + ttl) \in Int
      <4>1. at \in Int /\ at + ttl \in Int /\ at <= at + ttl
        BY <2>2, <2>5
      <4>2. at \div Second <= (at + ttl) \div Second
        BY <2>5, <4>1, UnixMonotone
      <4>3. at \div Second \in Int /\ (at + ttl) \div Second \in Int
        BY <2>5, <4>1, WholeSeconds
      <4> QED
        BY <4>2, <4>3 DEF Unix
    <3> QED
      BY <2>4, <2>6, <3>1, <3>2
  <2>7. CASE running.issued_at = Live
    <3>1. at = issued.clock - (issued.clock % Second)
      BY <2>2, <2>7 DEF Stamp, Truncate
    <3>2. Unix(IssueTime(running)) = clock \div Second
      BY <2>5, <2>7, TruncateWithin DEF IssueTime, Truncate, Unix
    <3>3. Unix(at + ttl) = (issued.clock - (issued.clock % Second) + ttl) \div Second
      BY <3>1 DEF Unix
    <3> QED
      BY <2>4, <2>5, <3>2, <3>3, LiveLifetime
  <2> QED
    BY <2>6, <2>7
<1> QED
  BY <1>1, Invariance, PTL

(* An expired token stays expired as long as the file stays the same and   *)
(* the clock is not set back.                                              *)
THEOREM ExpiredForGood == TokenSpec => ExpiryIsFinal
<1> DEFINE Final == token' = token /\ running' = running /\ clock' >= clock
                      /\ token # NoToken /\ ~Active(token) => ~Active(token)'
<1>1. TokenInv /\ TokenInv' => Final
  <2> SUFFICES ASSUME TokenInv, TokenInv', token' = token, running' = running,
                      clock' >= clock, token # NoToken, ~Active(token)
               PROVE  ~Active(token)'
    OBVIOUS
  <2>1. CASE ~Verifies(token)
    BY <2>1 DEF Active, Verifies
  <2>2. CASE Expired(token)
    <3>1. Handed(token, issued) /\ issued.file \in Files /\ issued.at \in Int
      BY DEF TokenInv, Minted, Handed
    <3>2. IntClaim(token, "exp") = Unix(issued.at + issued.file.ttl)
      BY <3>1, MintedClaims DEF Registers, Carries, IntClaim
    <3>3. Second \in Nat \ {0} /\ issued.file.ttl \in Int /\ running \in Files
      BY <3>1, TimeAssumption DEF TokenInv, Serving
    <3>4. IntClaim(token, "exp") \in Int
      BY <3>1, <3>2, <3>3, WholeSeconds DEF Unix
    <3>5. clock \in Int /\ clock' \in Int
      <4>1. MaxClock \in Nat
        BY TimeAssumption
      <4>2. clock \in 0..MaxClock /\ clock' \in 0..MaxClock
        BY DEF TokenInv, Serving
      <4> QED
        BY <4>1, <4>2
    <3>6. /\ Unix(IssueTime(running)) \in Int /\ Unix(IssueTime(running))' \in Int
          /\ Unix(IssueTime(running)) <= Unix(IssueTime(running))'
      <4>1. CASE running.issued_at # Live
        <5>1. running.issued_at \in Int
          BY <3>3, TimeAssumption DEF Live
        <5>2. IssueTime(running) = running.issued_at /\ IssueTime(running)' = running.issued_at
          BY <4>1 DEF IssueTime
        <5> QED
          BY <3>3, <5>1, <5>2, WholeSeconds DEF Unix
      <4>2. CASE running.issued_at = Live
        <5>1. /\ Unix(IssueTime(running)) = clock \div Second
              /\ Unix(IssueTime(running))' = clock' \div Second
          BY <3>3, <3>5, <4>2, TruncateWithin DEF IssueTime, Truncate, Unix
        <5> QED
          BY <3>3, <3>5, <5>1, WholeSeconds, UnixMonotone
      <4> QED
        BY <4>1, <4>2
    <3>7. IntClaim(token, "exp")' = IntClaim(token, "exp")
      BY DEF IntClaim
    <3>8. Expired(token)'
      BY <2>2, <3>4, <3>6, <3>7 DEF Expired
    <3> QED
      BY <3>8 DEF Active
  <2> QED
    BY <2>1, <2>2 DEF Active
<1>2. TokenSpec => [][Final]_tokenVars
  BY <1>1, Invariance, PTL
<1> QED
  BY <1>2 DEF ExpiryIsFinal

===============================================================================
