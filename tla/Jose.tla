--------------------------------- MODULE Jose ---------------------------------
(***************************************************************************)
(* Ordered JSON objects, compact JWTs and signing keys (internal/jose).    *)
(*                                                                         *)
(* An object is a sequence of pairs, and so is its encoding: that each     *)
(* segment is base64url of the JSON text is left out, that its order is    *)
(* the order of the pairs is the point.  A signature is what was signed    *)
(* and with which key; the key's thumbprint stands for the key.            *)
(***************************************************************************)
EXTENDS Integers, FiniteSets, SequencesExt

CONSTANTS
  NameOrder   \* every name of a claim, in ascending order

NewObj == <<>>

Names(o) == {o[i][1] : i \in DOMAIN o}

Get(o, key) == (CHOOSE pair \in ToSet(o) : pair[1] = key)[2]

(* An entry keeps its place when it is set again. *)
Set(o, key, value) ==
  IF key \in Names(o)
  THEN [i \in DOMAIN o |-> IF o[i][1] = key THEN <<key, value>> ELSE o[i]]
  ELSE Append(o, <<key, value>>)

SetAll(o, pairs) ==
  LET after[i \in 0..Len(pairs)] ==
        IF i = 0 THEN o ELSE Set(after[i - 1], pairs[i][1], pairs[i][2])
  IN after[Len(pairs)]

(* The names of a sequence that are in a set, in their order. *)
Keep(names, set) ==
  LET kept[i \in 0..Len(names)] ==
        IF i = 0 THEN <<>>
        ELSE kept[i - 1] \o (IF names[i] \in set THEN <<names[i]>> ELSE <<>>)
  IN kept[Len(names)]

(* Mutant: the names stay in the order of the map. *)
SortedLeft(names) == names

Sorted(names) == Keep(NameOrder, ToSet(names))

(* The names of a Go map, in the order in which it is walked this time. *)
Walked(m, walk) == Keep(walk, DOMAIN m)

SetSorted(o, m, walk) ==
  LET names == Sorted(Walked(m, walk))
  IN SetAll(o, [i \in DOMAIN names |-> <<names[i], m[names[i]]>>])

-------------------------------------------------------------------------------
(* Keys *)

NoKey == [alg |-> "", kid |-> "", signs |-> FALSE]

NewEdSigner(seed) == [alg |-> "EdDSA", kid |-> seed, signs |-> TRUE]

(* A key file is a PEM block of some form, with a key that may be too      *)
(* small to sign a SHA-256 digest with. *)
LoadsRSAPEM(pem) == pem.form \in {"PKCS#1", "PKCS#8 RSA"}

(* Mutant: Alg is copied from the other signer. *)
RSASignerCopied(pem) == [alg |-> "EdDSA", kid |-> pem.key, signs |-> pem.signs]

RSASigner(pem) == [alg |-> "RS256", kid |-> pem.key, signs |-> pem.signs]

PublicJWK(key) ==
  << <<"kty", IF key.alg = "EdDSA" THEN "OKP" ELSE "RSA">>, <<"kid", key.kid>>,
     <<"use", "sig">>, <<"alg", key.alg>> >>

-------------------------------------------------------------------------------
(* Tokens *)

Signature(key, header, claims) == [key |-> key, input |-> <<header, claims>>]

SignJWT(key, claims) ==
  LET header == << <<"alg", key.alg>>, <<"kid", key.kid>>, <<"typ", "JWT">> >>
  IN [header |-> header, claims |-> claims, sig |-> Signature(key, header, claims)]

(* Not three segments, or one that does not decode. *)
NoToken == [header |-> NewObj, claims |-> NewObj, sig |-> Signature(NoKey, NewObj, NewObj)]

Decodes(t) == t # NoToken

(* Mutant: alg and kid are thought to be enough. *)
VerifiesByHeader(key, t) ==
  /\ Decodes(t)
  /\ Get(t.header, "alg") = key.alg
  /\ Get(t.header, "kid") = key.kid

Verifies(key, t) ==
  /\ Decodes(t)
  /\ Get(t.header, "alg") = key.alg
  /\ Get(t.header, "kid") = key.kid
  /\ t.sig = Signature(key, t.header, t.claims)

(* The claims as a map, as decodeSegment gives them. *)
AsMap(o) == [n \in Names(o) |-> Get(o, n)]

===============================================================================
