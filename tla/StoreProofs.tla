----------------------------- MODULE StoreProofs ------------------------------
(***************************************************************************)
(* Theorems about the store over several runs of the server, for every set *)
(* of grants and any number of tokens and runs.                            *)
(***************************************************************************)
EXTENDS StoreRuns, SequenceTheorems, TLAPS

Strings == {"pc", "pr"} \X Nat

LEMMA ToSetAppend ==
  ASSUME NEW S, NEW s \in Seq(S), NEW e \in S
  PROVE  ToSet(Append(s, e)) = ToSet(s) \union {e}
<1>1. /\ DOMAIN s = 1..Len(s) /\ DOMAIN Append(s, e) = 1..(Len(s) + 1)
      /\ Append(s, e)[Len(s) + 1] = e /\ Len(s) \in Nat
      /\ \A i \in 1..Len(s) : Append(s, e)[i] = s[i]
  OBVIOUS
<1>2. QED
  BY <1>1 DEF ToSet

(* Putting into a map and deleting from it. *)
LEMMA PutMaps ==
  ASSUME NEW m, NEW k, NEW S, m \in [DOMAIN m -> S], NEW v \in S
  PROVE  Put(m, k, v) \in [DOMAIN Put(m, k, v) -> S] /\ DOMAIN Put(m, k, v) = DOMAIN m \union {k}
BY DEF Put

LEMMA DeleteMaps ==
  ASSUME NEW m, NEW k, NEW S, m \in [DOMAIN m -> S]
  PROVE  Delete(m, k) \in [DOMAIN Delete(m, k) -> S] /\ DOMAIN Delete(m, k) = DOMAIN m \ {k}
BY DEF Delete, Restrict

(* Type correctness of the store: what is live was handed out in this run, *)
(* as its kind, and the counter is the number of strings handed out.       *)
THEOREM StoreTypeCorrect == RunsSpec => []StoreTypeOK
<1>1. RunsInit => StoreTypeOK
  <2> SUFFICES ASSUME RunsInit PROVE StoreTypeOK
    OBVIOUS
  <2>1. DOMAIN codes = {} /\ DOMAIN refresh = {} /\ handed = <<>> /\ earlier = <<>> /\ seq = 0
    BY DEF RunsInit, StoreInit, NoTokens
  <2>2. /\ codes \in [DOMAIN codes -> StoreGrants]
        /\ refresh \in [DOMAIN refresh -> StoreGrants]
    BY <2>1 DEF RunsInit, StoreInit, NoTokens
  <2> QED
    BY <2>1, <2>2 DEF StoreTypeOK
<1>2. StoreTypeOK /\ [RunsNext]_runVars => StoreTypeOK'
  <2> SUFFICES ASSUME StoreTypeOK, [RunsNext]_runVars
               PROVE  StoreTypeOK'
    OBVIOUS
  <2>0. seq = Len(handed) /\ handed \in Seq(Strings) /\ seq \in Nat
    BY DEF StoreTypeOK, Strings
  <2>1. ASSUME NEW g \in StoreGrants, HandCode(g) PROVE StoreTypeOK'
    <3>1. NextToken("pc") \in Strings /\ Kind(NextToken("pc")) = "pc"
      BY <2>0 DEF NextToken, Strings, Kind
    <3>2. ToSet(handed') = ToSet(handed) \union {NextToken("pc")}
      BY <2>0, <2>1, <3>1, ToSetAppend DEF HandCode
    <3>3. /\ codes' \in [DOMAIN codes' -> StoreGrants]
          /\ DOMAIN codes' = DOMAIN codes \union {NextToken("pc")}
      BY <2>1, PutMaps DEF HandCode, NewCode, StoreTypeOK
    <3>4. handed' \in Seq(Strings) /\ seq' = Len(handed')
      BY <2>0, <2>1, <3>1 DEF HandCode, NewCode
    <3> QED
      BY <2>1, <3>1, <3>2, <3>3, <3>4 DEF StoreTypeOK, HandCode, NewCode, Strings
  <2>2. ASSUME NEW g \in StoreGrants, HandRefresh(g) PROVE StoreTypeOK'
    <3>1. NextToken("pr") \in Strings /\ Kind(NextToken("pr")) = "pr"
      BY <2>0 DEF NextToken, Strings, Kind
    <3>2. ToSet(handed') = ToSet(handed) \union {NextToken("pr")}
      BY <2>0, <2>2, <3>1, ToSetAppend DEF HandRefresh
    <3>3. /\ refresh' \in [DOMAIN refresh' -> StoreGrants]
          /\ DOMAIN refresh' = DOMAIN refresh \union {NextToken("pr")}
      BY <2>2, PutMaps DEF HandRefresh, NewRefresh, StoreTypeOK
    <3>4. handed' \in Seq(Strings) /\ seq' = Len(handed')
      BY <2>0, <2>2, <3>1 DEF HandRefresh, NewRefresh
    <3> QED
      BY <2>2, <3>1, <3>2, <3>3, <3>4 DEF StoreTypeOK, HandRefresh, NewRefresh, Strings
  <2>3. ASSUME NEW t \in LiveTokens, Redeem(t) PROVE StoreTypeOK'
    <3>0. /\ codes \in [DOMAIN codes -> StoreGrants]
          /\ refresh \in [DOMAIN refresh -> StoreGrants]
      BY DEF StoreTypeOK
    <3>1. /\ codes' \in [DOMAIN codes' -> StoreGrants]
          /\ refresh' \in [DOMAIN refresh' -> StoreGrants]
          /\ DOMAIN codes' \subseteq DOMAIN codes /\ DOMAIN refresh' \subseteq DOMAIN refresh
      <4>1. CASE TakeCode(t)
        <5>1. codes' = Delete(codes, t) /\ refresh' = refresh
          BY <4>1 DEF TakeCode
        <5> QED
          BY <3>0, <5>1, DeleteMaps
      <4>2. CASE TakeRefresh(t)
        <5>1. refresh' = Delete(refresh, t) /\ codes' = codes
          BY <4>2 DEF TakeRefresh
        <5> QED
          BY <3>0, <5>1, DeleteMaps
      <4> QED
        BY <2>3, <4>1, <4>2 DEF Redeem
    <3> QED
      BY <2>3, <3>1 DEF Redeem, TakeCode, TakeRefresh, StoreTypeOK
  <2>4. CASE StartOver
    <3>1. DOMAIN codes' = {} /\ DOMAIN refresh' = {} /\ handed' = <<>> /\ seq' = 0
      BY <2>4 DEF StartOver, NoTokens
    <3>2. /\ codes' \in [DOMAIN codes' -> StoreGrants]
          /\ refresh' \in [DOMAIN refresh' -> StoreGrants]
      BY <2>4, <3>1 DEF StartOver, NoTokens
    <3>3. earlier' \in Seq(Seq(Strings))
      BY <2>0, <2>4 DEF StartOver, StoreTypeOK, Strings
    <3> QED
      BY <3>1, <3>2, <3>3 DEF StoreTypeOK, Strings
  <2>5. CASE UNCHANGED runVars
    BY <2>5 DEF runVars, StoreTypeOK
  <2> QED
    BY <2>1, <2>2, <2>3, <2>4, <2>5 DEF RunsNext
<1> QED
  BY <1>1, <1>2, PTL DEF RunsSpec

-------------------------------------------------------------------------------
(* The strengthening: in every run, now and earlier, the string at place i *)
(* has the number i. *)

Numbered(tokens) == \A i \in DOMAIN tokens : Number(tokens[i]) = i

RunsNumbered == Numbered(handed) /\ \A i \in DOMAIN earlier : Numbered(earlier[i])

LEMMA NumberedAppend ==
  ASSUME NEW s \in Seq(Strings), Numbered(s), NEW kind
  PROVE  Numbered(Append(s, <<kind, Len(s) + 1>>))
BY DEF Numbered, Number

LEMMA AlwaysNumbered == RunsSpec => []RunsNumbered
<1>1. RunsInit => RunsNumbered
  BY DEF RunsInit, RunsNumbered, Numbered
<1>2. StoreTypeOK /\ RunsNumbered /\ [RunsNext]_runVars => RunsNumbered'
  <2> SUFFICES ASSUME StoreTypeOK, RunsNumbered, [RunsNext]_runVars
               PROVE  RunsNumbered'
    OBVIOUS
  <2>0. seq = Len(handed) /\ handed \in Seq(Strings)
    BY DEF StoreTypeOK, Strings
  <2>1. ASSUME NEW g \in StoreGrants, HandCode(g) PROVE RunsNumbered'
    <3>1. Numbered(handed')
      BY <2>0, <2>1, NumberedAppend DEF HandCode, NextToken, RunsNumbered
    <3> QED
      BY <2>1, <3>1 DEF RunsNumbered, HandCode
  <2>2. ASSUME NEW g \in StoreGrants, HandRefresh(g) PROVE RunsNumbered'
    <3>1. Numbered(handed')
      BY <2>0, <2>2, NumberedAppend DEF HandRefresh, NextToken, RunsNumbered
    <3> QED
      BY <2>2, <3>1 DEF RunsNumbered, HandRefresh
  <2>3. ASSUME NEW t \in LiveTokens, Redeem(t) PROVE RunsNumbered'
    BY <2>3 DEF Redeem, RunsNumbered
  <2>4. CASE StartOver
    <3>1. Numbered(handed')
      BY <2>4 DEF StartOver, Numbered
    <3>2. \A i \in DOMAIN earlier' : Numbered(earlier'[i])
      BY <2>4 DEF StartOver, RunsNumbered, StoreTypeOK
    <3> QED
      BY <3>1, <3>2 DEF RunsNumbered
  <2>5. CASE UNCHANGED runVars
    BY <2>5 DEF runVars, RunsNumbered
  <2> QED
    BY <2>1, <2>2, <2>3, <2>4, <2>5 DEF RunsNext
<1> QED
  BY <1>1, <1>2, StoreTypeCorrect, PTL DEF RunsSpec

-------------------------------------------------------------------------------

(* Determinism: whatever was requested and redeemed in which order, two    *)
(* runs that are asked for the same kinds of tokens in the same order hand *)
(* out the same strings.                                                   *)
THEOREM Deterministic == RunsSpec => []SameRequestsSameTokens
<1>1. StoreTypeOK /\ RunsNumbered => SameRequestsSameTokens
  <2> SUFFICES ASSUME StoreTypeOK, RunsNumbered,
                      NEW i \in DOMAIN earlier,
                      NEW n \in DOMAIN earlier[i] \intersect DOMAIN handed,
                      SubSeq(Kinds(earlier[i]), 1, n) = SubSeq(Kinds(handed), 1, n)
               PROVE  earlier[i][n] = handed[n]
    BY DEF SameRequestsSameTokens
  <2> DEFINE then == earlier[i]
  <2>1. then \in Seq(Strings) /\ handed \in Seq(Strings)
    BY DEF StoreTypeOK, Strings
  <2>2. /\ n \in 1..Len(then) /\ n \in 1..Len(handed)
        /\ then[n] \in Strings /\ handed[n] \in Strings
    BY <2>1
  <2>3. Number(then[n]) = n /\ Number(handed[n]) = n
    BY <2>2 DEF RunsNumbered, Numbered
  <2>4. /\ Kinds(then) = [j \in 1..Len(then) |-> Kind(then[j])]
        /\ Kinds(handed) = [j \in 1..Len(handed) |-> Kind(handed[j])]
    BY <2>1 DEF Kinds
  <2> HIDE DEF then
  <2>5. ASSUME NEW s \in Seq(Strings), n \in 1..Len(s)
        PROVE  SubSeq(Kinds(s), 1, n)[n] = Kind(s[n])
    <3>1. Kinds(s) = [j \in 1..Len(s) |-> Kind(s[j])]
      BY DEF Kinds
    <3>2. Len(s) \in Nat /\ n \in Nat /\ 1 <= n /\ n <= Len(s)
      BY <2>5
    <3>3. SubSeq(Kinds(s), 1, n) = [j \in 1..(1 + n - 1) |-> Kinds(s)[1 + j - 1]]
      BY <3>1, <3>2
    <3> QED
      BY <3>1, <3>2, <3>3
  <2>6. Kind(then[n]) = Kind(handed[n])
    BY <2>1, <2>2, <2>5 DEF then
  <2>7. \A s, t \in Strings : s[1] = t[1] /\ s[2] = t[2] => s = t
    BY DEF Strings
  <2>8. then[n] = handed[n]
    BY <2>2, <2>3, <2>6, <2>7 DEF Kind, Number
  <2> QED
    BY <2>8 DEF then
<1> QED
  BY <1>1, StoreTypeCorrect, AlwaysNumbered, PTL

(* Single use: what was handed out and is not live any more stays so until *)
(* the server is restarted, for whatever is drawn and taken in between.    *)
THEOREM TakenIsGone == RunsSpec => NeverRevived
<1>1. StoreTypeOK /\ RunsNumbered /\ [RunsNext]_runVars
        => [earlier' = earlier =>
              \A t \in ToSet(handed) \ LiveTokens : t \notin LiveTokens']_runVars
  <2> SUFFICES ASSUME StoreTypeOK, RunsNumbered, RunsNext, earlier' = earlier,
                      NEW t \in ToSet(handed) \ LiveTokens
               PROVE  t \notin LiveTokens'
    OBVIOUS
  <2>0. seq = Len(handed) /\ handed \in Seq(Strings)
    BY DEF StoreTypeOK, Strings
  <2>1. PICK i \in DOMAIN handed : t = handed[i]
    BY DEF ToSet
  <2>2. Number(t) = i /\ i \in 1..seq /\ seq \in Nat
    BY <2>0, <2>1 DEF RunsNumbered, Numbered
  <2>3. \A kind : t # NextToken(kind)
    BY <2>2 DEF NextToken, Number
  <2>4. ASSUME NEW g \in StoreGrants, HandCode(g) PROVE t \notin LiveTokens'
    BY <2>3, <2>4 DEF HandCode, NewCode, Put, LiveTokens
  <2>5. ASSUME NEW g \in StoreGrants, HandRefresh(g) PROVE t \notin LiveTokens'
    BY <2>3, <2>5 DEF HandRefresh, NewRefresh, Put, LiveTokens
  <2>6. ASSUME NEW u \in LiveTokens, Redeem(u) PROVE t \notin LiveTokens'
    BY <2>6 DEF Redeem, TakeCode, TakeRefresh, Delete, Restrict, LiveTokens
  <2>7. CASE StartOver
    BY <2>7 DEF StartOver, NoTokens, LiveTokens
  <2> QED
    BY <2>4, <2>5, <2>6, <2>7 DEF RunsNext
<1> QED
  BY <1>1, StoreTypeCorrect, AlwaysNumbered, PTL DEF RunsSpec, NeverRevived

===============================================================================
