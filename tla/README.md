# personad: a verification development

[personad](../src/README.md) is a deterministic OpenID Connect provider for
development and CI. It reads a TOML *persona file*, derives a signing key from
the seed in it, and serves the authorization code flow with PKCE, refresh
rotation, client credentials, userinfo and introspection; the same tokens can be
minted on the command line. This directory holds TLA+ models of it, the TLC
configurations that check them, and theorems proved with TLAPS.

References such as `server.go:269` are to `src/internal/oidc/` unless a path is
given.

## 1. Inventory

| Component | State it keeps | Operations |
|---|---|---|
| Persona file (`config/config.go`) | none at run time: a `Config` is read once; while loading, the first error met | `Load`, `decoder`, `validate`, look up persona, client, redirect URI |
| TOML reader, scanner (`toml/toml.go`) | while parsing: position, line counter | the loop of `Parse`, keys, strings, numbers, arrays, comments |
| TOML reader, tree (`toml/toml.go`) | while parsing: the tree, the current table, the set of headers seen | headers, array headers, keys |
| Grant store (`store.go`) | pending codes, live refresh tokens, a counter; one mutex | `NewCode`, `TakeCode`, `NewRefresh`, `TakeRefresh` |
| `/authorize` (`server.go:78`) | none | validates, shows the picker, issues a code |
| `/token` (`server.go:197`) | a grant in a local variable between taking it and drawing its successor | authenticates the client, redeems a code or refresh token, client credentials |
| `/userinfo`, `/introspect` (`server.go:355`, `:408`) | none | verify a token against key, issuer, use and clock |
| PKCE (`pkce.go`) | none | `ValidVerifier`, `VerifyPKCE` |
| Token minting (`issuer.go`) | reads the clock, unless `issued_at` freezes it | ID, access and machine tokens, scope release |
| JWT, keys, ordered JSON (`jose/`) | none; an `Obj` keeps its keys in the order of insertion | sign, decode, verify; derive or parse a key; `Set`, `SetSorted` |
| Documents (`issuer.go:152-216`) | none | discovery, JWKS |
| Command line (`cli/`) | none between commands | `serve`, `mint`, `decode`, `personas`, `jwks`, `discovery`, `validate`, `version`; exit codes 0, 1, 2 |

**How they interact.** Every command reads the persona file through `Load`:
`toml.Parse` scans the text and grows a tree in one pass, a decoder walks the
tree, `validate` looks at the result. `loadIssuer` then reads the key file that
the configuration names, in a second read of the disk, and builds an `Issuer`.
`cmdServe` adds a `Server` with an empty `Store`, and gives the handlers to `net/http`, which runs
each request in a goroutine of its own. The handlers call the store directly.
The store is the only mutable state they share; its mutex is held from the
first to the last line of each operation and never across a call out of the
package. Tokens go back and forth with the clients and carry the rest of the
state in themselves.

**What is hard here.**

* *Interleaving.* A `/token` request uses the store twice: it takes the old
  string and later draws the new one. In between the session exists only in the
  goroutine, and any other request can run.
* *Partial failure.* Signing can fail, and the checks on client, redirect URI
  and verifier come, after the code or refresh token has been burned.
* *Order.* Every handler is a chain of early returns, and some orders matter:
  no redirect before the redirect URI is known, no store access before the
  client is known.
* *Restart.* Nothing is persisted, and the counter starts over. Codes and
  refresh tokens die with the process; signed tokens do not, even when the file
  is edited in between.
* *Two reads.* A command reads the persona file and then the key file; someone
  may save either in between.
* *Map order.* Claims are Go maps. What is reported of two faults, or the order
  of claims in a token, must not depend on how a map happens to be walked.
* *Termination and lines.* The scanner is recursive, its loops consume what they
  see or must leave, and the line counter moves ahead of the statement.
* *Time.* Three roundings to whole seconds, a clock that may be frozen by the
  file or set back by the operator.
* *One tree, many references.* The TOML reader keeps references into the tree it
  grows, and a file may name one place in several ways.

**What makes each component correct.**

| Component | Requirement | Where |
|---|---|---|
| store, `/token` | an authorization is held in one place: code, handler or refresh token | `OneHolder` |
| `/token` | what is held is what was authorized, through every rotation | `GrantsAsAuthorized` |
| `/token` | tokens go to the client of the authorization, which has proved itself | `RedeemedByItsClient` |
| `/token` | a failed authentication touches nothing; an error leaves no new token; a session is lost only to a request that misuses it | `UnauthenticatedTouchesNothing`, `ErrorsIssueNothing`, `LostOnlyByMisuse` |
| `/token` | what has been taken is answered | `TakenIsAnswered` |
| `/authorize` | redirects go to a registered URI of the client; what is granted was vetted | `RedirectsAreRegistered`, `GrantsWereVetted` |
| store | a taken string never redeems again; equal runs get equal strings | `NeverRevived`, `SameRequestsSameTokens` |
| minting | no persona makes a token lie, least of all about who it is for | `TokensDoNotLie` |
| `/userinfo` | only access tokens of this issuer and key; shows what the token says | `UserinfoOnlyForAccessTokens`, `UserinfoAgreesWithToken` |
| lifetime | good for what `expires_in` promised, not more than a second longer, never revived | `LifetimeHonoured`, `ExpiryIsFinal` |
| `/authorize` | the picker offers nothing that is refused once picked | `EveryPickIsGranted` |
| life of an authorization | the handlers implement the abstract life, and finish it | `ImplementsLedger` |
| scanner | what is read is what was written, and legal text is accepted unless its statements clash; a fault is never read over; the reader stops | `ReadsBack`, `FaultsAreRefused`, `ReaderStops` |
| persona file | what is reported is wrong with the file; what loads has no fault, meets what the endpoints assume, and leaves nothing out | `ReportsAreTrue`, `LoadsOnlyFaultless`, `LoadedIsDeployable`, `EveryEntryIsFound`, `NoEditIgnored` |
| command line | equal files give equal bytes; exit code 2 means no file can help | `ByteStable`, `UsageErrorIsHopeless` |
| documents, `decode` | `decode` accepts what was minted and shows it; discovery announces every claim a token carries | `DecodesWhatWasMinted`, `DiscoveryAnnouncesClaims` |
| TOML reader | values land where the text says; nothing is overwritten; no redefinition | `LandsUnderItsHeader`, `NothingOverwritten`, `NoTableReopened` |

## 2. Modules

```
 Deployment   Pkce   Answers   Scope          Store ---- StoreRuns ---- StoreProofs
      \_________\_______/________/              |
                 Endpoints                      |        AnswerProofs
                     \_______________________   |         /
                                             Provider        /
                                             /      \       /
                               ProviderLedger   MCProvider /
                        (INSTANCE GrantLedger)            /
                              |       \__ ProviderProofs_/
                       MCProviderLedger

 Answers, Scope -- TokenLife -- MCTokenLife;  TokenLife, AnswerProofs -- TokenProofs

 Jose, Scope -- Issuer;  Issuer, Answers -- CommandLine -- MCCommandLine
                                            CommandLine, AnswerProofs -- CommandProofs
 TomlHeap -- TomlTree -- MCTomlTree;   TomlTree, AnswerProofs -- TreeProofs
 TomlScan (INSTANCE TomlHeap) -- TomlLayout -- MCTomlScan
                                 TomlLayout, AnswerProofs -- ScanProofs
 Answers -- PersonaFile (INSTANCE Deployment) -- MCPersonaFile
            PersonaFile, AnswerProofs -- FileProofs
```

Text becomes statements in TomlScan, statements become a tree in TomlTree, a
tree becomes a configuration in PersonaFile, and PersonaFile is checked to yield
what Deployment assumes, on which Endpoints and Provider rest.

* **Deployment** (`config.go`): the validated persona file as constants. What
  `validate` guarantees is the named assumption `ValidatedConfig`.
* **Pkce** (`pkce.go`): the verifier grammar is a set, SHA-256 with base64url a
  function from verifiers to verifiers, since a 43-character challenge is itself
  a legal verifier.
* **Answers**, **Scope**: the chain of checks with early returns that every
  handler is made of, and scope parameters as sequences of words.
* **Endpoints** (`server.go`): what `/authorize` and `/token` decide from a
  request and the configuration alone. `AuthorizeChecks` and `TokenChecks` list
  the checks of the handlers in their order, each with the answer it gives.
* **Store** (`store.go`): the two maps and the counter. A token string is
  `<<kind, number>>`: a hash of kind, seed and counter, taken to be free of
  collisions.
* **Provider** (`server.go`): the handlers over one store. A handler has as many
  steps as store operations. `RedeemCode` and `RedeemRefresh` take a grant and
  make every check behind it in one step; the goroutine is then `inflight`, and
  `Finish` or `GiveUp` is its second step. `Restart` loses everything. `reply`
  is the last response, and `origin` the lineage of every token: the code it
  goes back to and the request that asked for it. Both are history only.
* **GrantLedger**: the abstract life of an authorization, unopened, code,
  redeeming, refreshable, dead, with its grant and the client a redemption is
  under way for. **ProviderLedger** reads that state off the provider's.
* **StoreRuns**: the store alone over several runs of the server, with the
  strings each run has handed out as history. A refresh token is drawn only for
  a token that was taken, as in `tokenResponse`.
* **TokenLife** (`issuer.go`, `server.go:355-443`, `jwt.go`, `mint`): a signed
  token under a moving clock and an edited file. A token is its claims, as a
  function, and its key; time is in ticks so that a lifetime or frozen instant
  may be a fraction of a second. Tokens do not influence each other, so one is
  followed at a time; `issued` remembers what was asked for: kind, file, persona,
  client, nonce, scopes and the instant it was stamped with.
* **TomlHeap** (`toml.go:202-329`): the tree the reader builds and what each kind
  of statement does to it, as operators: `openTable`, `openArrayTable`, `descend`
  and the end of `parseKeyValue`, with every reason to refuse. Go maps are
  references, so the tree is a heap of tables with numbers for references.
* **TomlTree** (`toml.go`): the loop of `Parse` over that tree, one action per line.
* **TomlScan** (`toml.go`): `Parse` and the functions under it as one pushdown
  machine that looks at one symbol a step, as `peek` does. A symbol stands for a
  class of characters. A writer writes lines of which he knows what they say,
  some of them faulty, and closes the file at some point. `said`, `amiss`,
  `newlines` and `written` remember what he has written; `span` is the lines of
  the statement at hand. They are history only. A statement that has been read
  goes into `tree`, by the operators of TomlHeap; `conflict` is where it cannot.
  Numbers are plain decimals: a sign `+`, underscores, exponents and what does not
  fit 64 bits are left out.
* **TomlLayout**: the other side of TomlScan, the abstract specification of what
  it reads. `After` leads through every layout of a given statement, symbol by
  symbol, as the one who writes it goes: which character of which part of the key
  or of which value comes next, and where blanks, comments, quotes, escapes and
  line ends may stand. It knows the statement and makes no decision from the text;
  the reader makes every decision from one symbol and does not know the statement.
  `LaidOut(text, s)`: the text is a layout of *s*.
* **PersonaFile** (`config.go`): `Load` on a tree: the decoder that keeps its
  first error and walks on, then `validate` with the order of its checks. The
  operator edits and loads again.
* **Jose** (`jose/`): ordered objects as sequences of pairs, keys and tokens. A
  signature is what was signed and with which key: the cryptography is ideal.
* **Issuer** (`issuer.go`): tokens with the order of their claims and what `jti`
  is derived from; discovery and JWKS.
* **CommandLine** (`cli/`): one process after the other. `Start` and
  `ParseFlags`, then `LoadConfig`, `LoadKey` and `Work` or `Listen`; `Save` and
  `Tick` come between any two. `runs` is history: what each command was given,
  what its folder held, whether a file was saved meanwhile, and what it printed.
* **AnswerProofs**, **ProviderProofs**, **StoreProofs**, **TokenProofs**,
  **TreeProofs**, **ScanProofs**, **FileProofs**, **CommandProofs**: lemmas and
  theorems, see section 4. AnswerProofs holds what several of them share: the
  first of a chain of failing checks, sequences, and recursion in set form.
* **MC...**: instances for TLC. Definitions introduced by `(* Mutant: ... *)` in
  the other modules are variants with a plausible slip of the programmer. No
  specification uses them; each is there to show that one of the properties
  notices it when it replaces the definition that follows it.

### What stands for what

| Code | Model |
|---|---|
| request | a record of the fields the handler reads, `""` where absent; `parses`, `basic` for what `net/http` reports |
| response | status, OAuth error code, base of the `Location` header |
| `Grant` | a record with its fields' names |
| `http.Request` in its goroutine between two critical sections | an entry of `inflight` |
| `sync.Mutex` around each store operation | one step: each locks on entry and unlocks by `defer` |
| compact JWT | its claims and the key it is signed with: in TokenLife a function of names, in Jose ordered pairs |
| walk over a Go map | any of the orders in a constant, `ClaimOrders` or `Walks` |
| disk | folders of named files; a path is absolute or relative to the folder of the command, a key path to that of the persona file |
| TOML text | a sequence of symbols; a value is what the reader makes of it |
| call stack of the scanner | the stack of the pushdown machine |
| lost, repeated, replayed or stolen messages | nothing: any request may be sent at any time with any string of either kind |
| wall clock | `clock`, `Tick`, `SetBack` |
| stop, edit the file, start | `Restart`, `StartOver`, `Serve(f)` |

## 3. Runs

| Run | Question | Bounds |
|---|---|---|
| `provider_race` | two fair handlers, any token string of either kind, two clients: `TypeOK`, `OneHolder`, `GrantsAsAuthorized`, `TakenIsAnswered`, and that Provider implements GrantLedger | 4 tokens, so two sessions with a rotation each, or one with three |
| `provider_refusals` | every `/authorize` request up to two fields away from a good one, and a key that cannot sign: `GrantsWereVetted`, `RedirectsAreRegistered`, `EveryPickIsGranted`, `ErrorsIssueNothing` | one handler, 2 tokens; `/authorize` depends on the store for nothing |
| `provider_token` | `/token` requests one or two fields away from a good one, in every state of up to three tokens: `RedeemedByItsClient`, `UnauthenticatedTouchesNothing`, `LostOnlyByMisuse` | one handler; 3 tokens: code, refresh and a second refresh, or two sessions |
| `store_runs` | determinism and single use over several runs of the server | 3 runs of 3 tokens, 2 grants |
| `store_nthcode` | the claim that opens `store.go`; **violated** | 2 runs of 3 tokens |
| `token_life` | all of TokenLife | 7 files, among them a frozen clock, a collision of subject and client, another issuer, another seed and two that do not load, in one of which a persona claims another's `sub`; half-second ticks up to 3 s |
| `toml_tree` | all of TomlTree | every file of up to 6 lines over two array headers, three headers and five keys |
| `toml_claims` | custom claims for a second persona; **violated** | 6 lines |
| `toml_scan` | all of TomlScan but the line numbers, with liveness | every file of up to 2 lines, from 120 key lines (4 ways to write a key, 6 values, 5 line ends), headers, array headers, blank lines and 34 faults; two lines have room for every way in which statements clash |
| `toml_lines` | the claim that opens `toml.go`; **violated** | files of up to 3 short lines without a fault but a table or key given twice |
| `persona_file` | all of PersonaFile | up to 3 of 67 edits, loaded after any of them |
| `command_line` | all of CommandLine | 2 commands out of 17, from 5 places, with 1 save of 7 and 1 tick of the clock at any point |

**Why the bounds are enough.** An interleaving problem of the store needs two
handlers and one string: the race run has two of each and a restart at any
moment. The bound `MaxSeq` stops new tokens, not requests, and `Room` lets every
request in flight finish, so no state is an artefact of it. Checks interact in
pairs (either fails, both, neither), hence two changed fields. Lifetimes are
compared with one clock: a lifetime of 1.5 s, a frozen instant of 1.5 s and a
half-second tick contain every combination of roundings. In TomlTree a conflict
involves a header, an array header and a key, and the address of a value
depends on at most one nested array: six lines have room for all of that twice.
The scanner forgets everything between two lines but the line counter and the
tree, so a line and the one after it show what one may do to the other; every
reason to refuse a statement (opened twice, not a table on the way, set twice, an
array that cannot be extended) comes up there. For legal text a theorem says so
of any lines. Of two faults in a
persona file one can hide the other; the third edit repairs one or adds a
default. The properties of the command line relate two commands, and one save
is enough to make the persona file and the key file of one command differ in age.

Only runs of systems that really stop check no deadlock: the store with its
tokens used up, the parsers at the end of the file or after an error, and a
command line with its commands used up.

**Fairness.** Two runs assume any. `provider_race`: weak fairness of
`Finish(h) \/ GiveUp(h)` for each handler. A goroutine that has taken a grant
looks up a persona, signs twice and locks the mutex; it waits for nobody but the
holder of the mutex, which never blocks. Go schedules every runnable goroutine,
and `sync.Mutex` hands over to a waiter that starves. `toml_scan`: weak fairness
of `Parse`, which is a loop in one goroutine. Clients, writers and operators are
never fair: nobody has to send a request, redeem a code or finish a file.

### What the three violated runs show

* **`toml_claims`, a bug.** `[personas.claims]` can be given for one persona
  only. `openTable` remembers the path of each header in `explicit` (`toml.go:219`,
  `:226`) and nothing forgets it when a new `[[personas]]` begins, so the header
  under the second persona is refused as "defined twice". `docs/persona-format.md:44`
  promises "Arbitrary extra claims for the most recent `[[personas]]` entry".
  The counterexample has four lines. Clearing the set altogether would be wrong
  as well: that is the mutant of `NoTableReopened`.
* **`toml_lines`, a bug.** `toml.go:5` says the package "reports every error with
  a line number". `expectLineEnd` has consumed the newline and advanced the
  counter (`toml.go:106`) before the parser finds that a key or table repeats an
  earlier one (`:325`, and the calls at `:207` and `:209`), so the error names
  the line after the one at fault, unless that line ends with a comment or the
  file ends there.
* **`store_nthcode`, a comment that says too much.** "the Nth code a fresh
  server hands out is always the same string" (`store.go:2`): codes and refresh
  tokens share one counter, so the second code depends on whether the first was
  redeemed before. What does hold is `SameRequestsSameTokens`.

## 4. Theorems

The theorems hold for every deployment, set of requests, handlers, persona files
and command lines, every list of edits, statements and saves, every length of a
second and every value of the bounds that the assumptions below admit.

**ProviderProofs**, invariants

| Theorem | States | Argument |
|---|---|---|
| `TypeCorrect` | `Spec => []TypeOK` | inductive as it stands. The part that carries it: every live string, and the string behind every request in flight, bears a number already drawn, and `origin` is defined on exactly those |
| `SingleHolder` | `Spec => []OneHolder` | inductive relative to `TypeOK`. A new code has number `seq + 1`, which no lineage can have yet; every other step moves a lineage from one holder to the next: take removes the string in the step in which the handler gets it, `Finish` frees the handler in the step in which the successor appears |
| `GrantsPreserved` | `Spec => []GrantsAsAuthorized` | inductive relative to `TypeOK`: `Finish` copies the grant and `Continues` copies the lineage |
| `GrantsVetted` | `Spec => []GrantsWereVetted` | not inductive alone. Strengthened by `OriginsVetted`, that every recorded request has passed `AuthorizeChecks`; with `GrantsPreserved` this gives it. It makes "persona no longer exists" (`server.go:326`) and "public client redeemed a code without PKCE" (`server.go:287`) unreachable |
| `RedeemedByClient` | `Spec => []RedeemedByItsClient` | inductive relative to `TypeOK` and `GrantsAsAuthorized`: what the checks compare with the grant is what the lineage was authorized with. For a refresh by a public client the code asks for no secret and no verifier, so that nothing but its client_id is shown there |
| `RedirectsRegistered` | `Spec => []RedirectsAreRegistered` | whichever check of `/authorize` fails, the failing ones have a first, `<` being well-founded on the numbers; if it is one of the first four it redirects nowhere, else the fourth, which compares the URI, has passed |

**ProviderProofs**, action properties from those invariants

| Theorem | States | Argument |
|---|---|---|
| `AuthenticatedFirst` | `Spec => UnauthenticatedTouchesNothing` | a 401 comes from a request whose checks fail, and that step changes only the reply |
| `FailuresDrawNothing` | `Spec => ErrorsIssueNothing` | by action: those that add a token answer without an error |
| `OnlyMisuseLoses` | `Spec => LostOnlyByMisuse` | needs `TypeOK`, `GrantsAsAuthorized` and `OriginsVetted`: a request that conforms to the authorization passes every check behind the taking |

Last, `PicksAreGranted` (`EveryPickIsGranted`). The strengthening is
`PickerIsVetted`: a reply is the picker only for a request that has passed every
check of `/authorize`, since no refusal and no redirect looks like it. A link of
it differs in the method and the persona alone, and the checks that look at
those pass for any persona of the configuration: `validate` lets no name be
empty.

**ProviderProofs**, refinement: `LivesByTheLedger`, the safety half of the refinement,
`Spec => Ledger!Nothing /\ [][Ledger!LedgerNext]_(Ledger!ledgerVars)`. Each step
of Provider is, through the mapping of ProviderLedger, a step of one
authorization or a stutter. The mapping reads the abstract state off the holder,
so `SingleHolder` is what makes it a function; the strengthening `Rooted` adds
that every lineage goes back to a code within the bound.

**StoreProofs**: `StoreTypeCorrect`, `Deterministic`
(`SameRequestsSameTokens`) and `TakenIsGone` (`NeverRevived`). The strengthening
is `RunsNumbered`: in every run the string at place *i* bears the number *i*, so
its place and kind determine it, and a taken one cannot be drawn again.

**TokenProofs**

| Theorem | States | Argument |
|---|---|---|
| `TokenTypeCorrect`, `NoTokenLies` | `TokenTypeOK`, `TokensDoNotLie` | `Minted`: the token is what one of the three minting functions returned for the file, persona, client, nonce, scopes and instant of the history. What persona claims overwrite is read off `SetAll`, and no name of theirs is reserved because the file is valid. So each claim the issuer computes has the value it computed, `sub` that of the persona minted for, `exp` and `iat` those of the instant, and a claim that was not computed is absent; only `jti` is left out here and is checked in Issuer, through `ByteStable` |
| `OnlyAccessTokens` | `UserinfoOnlyForAccessTokens` | inductive together with `Minted`. A refusal is never a 200, whichever check is the first to fail |
| `LifetimeKept` | `LifetimeHonoured` | arithmetic of `\div` and `%` for every lifetime and every length of a second, in `LiveLifetime` |
| `ExpiredForGood` | `ExpiryIsFinal` | whole seconds are monotone in the clock |
| `UserinfoAgrees` | `UserinfoAgreesWithToken` | splitting a scope only drops what it has met before, so splitting the scope a token carries gives back the set that was joined: an induction over the fold in `SplitScope`. The rest is that persona claims overwrite no claim userinfo selects by |

**TreeProofs**: `TreeInvariant` is the inductive invariant, `TreeIsTyped`
(`TreeTypeOK`), `TablesOpenOnce` (`NoTableReopened`) and `ReaderOnlyAdds`
(`NothingOverwritten`) follow from it. Nothing in the text of `NoTableReopened`
is inductive: that a header finds a table nobody opened rests on the shape of
the heap. The strengthening `TreeInv` says that being a child is a tree
(`IsTree`) and that there is a naming of tables by paths (`IsNaming`), under
which a table is opened by the header that spells its name, so that two headers
that reach one table are the same path and the second is in `explicit`. The
descent along a path is a recursive function; `DescendWalk` turns it into a walk
of which each step hangs one table or none.

`ValuesLand` (`LandsUnderItsHeader`) compares the tree with a reading of the text
that knows no tree, so its strengthening `LandInv` has to relate the two: there is
a map from paths to tables, closed under "the latest table below" (`IsLatest`),
in which the last header of the text names `current`, and under each name of
which the tree has as many elements as the text has begun (`Counted`). A key or a
`[path]` only extends the map. A `[[path]]` replaces `path` and drops every name
below it, and the count of the text drops the same names to 0 (`OneMore`). A value
is then set at the end of the route along its address (`LatestReached`), and stays
there, since arrays only grow at their end (`ReachKept`).

**ScanProofs**, for every set of lines, whatever they say

| Theorem | States | Argument |
|---|---|---|
| `ScanIsTyped` | `ScanTypeOK` | by mode of the pushdown machine. What carries it: which modes have an array open, that a header has no value, and that the text of a number is complete before it is judged |
| `ReadingIsBounded` | a budget falls in every step of `Parse`: of the symbols left and the rank of the mode, in that order | every step either consumes a symbol or goes to a mode of lower rank. It is the safety half of `ReaderStops`: no loop of the reader can spin, at the end of the text or elsewhere; what is left to fairness is only that the reader is scheduled |
| `ErrorsStayNear` | the line of an error is a line of the statement at fault or the one after it | the true form of the claim that `toml_lines` refutes: the counter is never ahead by more than the newline that ended the statement, and never behind |

The inductive invariant of these three is `Scanning`. Beside what `ScanTypeOK`
says it has `Located`: `p.line` is 1 plus the newlines consumed, which is the line
of the next symbol, so that `span` and the counter count the same thing from two
ends (from the text that is left, and from the text that is gone).

`LegalTextIsRead` (`ReadsBack`) is the correctness of the scanner: as long as every
line written is a layout of what it says, the reader has read what the lines said,
statement by statement, and reports no error. At the end of the file the tree is
what these statements grow; the reader gives up before only at a statement that
the tree grown so far cannot take, as `a = 1` followed by `[a]`. It holds for every statement, key, nested value and layout
of TomlLayout, whatever the lines of the instance are. The invariant is `InStep`, a
simulation: the writing of the statement *s* of the last line has got to some place
*c* of its layout, the rest of the source leads from there to the end of the line
(`Continues`), and

* the parser `Agrees` with *s* and *c*: per mode, what its buffer, its key, its
  kind and its stack of open arrays hold is the beginning of *s* up to *c*. For
  nested arrays `Nested` relates the two stacks level by level: each open array of
  the parser is the first items of an array of *s*, and that array is the value the
  level above is about to complete;
* what was said is what was read and what is still `Owed`: the statement in hand,
  and at a carriage return, where the reader waits to see whether a newline
  follows, perhaps the next line's as well.

The reader waits where it looks at a symbol without consuming it, and is ahead where
it applies a statement before the newline behind its comment; each `Follows...`
lemma is one parse function.
Where the reader decides by several symbols at once, as for the three quotes it
refuses, the rest of the layout decides it (`NotTripled`): after two quotes the
string is empty and complete, and a third leads nowhere.

**FileProofs**, from `FileInvariant`

| Theorem | States | Argument |
|---|---|---|
| `ReportsAreFaults` | `ReportsAreTrue` | for each check of the decoder and of `validate`: what it reports first is one of the faults that the reference definition `Faults` lists. The delicate part is that a default stands in for a key of the wrong type while the walk goes on; it never reports a fault that is not there, since the decoder's own error comes first |
| `OnlyFaultlessLoad` | `LoadsOnlyFaultless` | the converse, check by check: if none fires, no fault of its kind is anywhere in the file |
| `EntriesAreFound` | `EveryEntryIsFound` | lookups take the first match; what loads has no second one |
| `LoadedFilesDeploy` | `LoadedIsDeployable` | the configuration of a file that loads satisfies `ValidatedConfig`, on which the theorems about Provider rest |
| `FileIsTyped` | `FileTypeOK` | from the same |
| `EveryEditCounts` | `NoEditIgnored` | the effect of every key is a function of the configuration, and two files that load with the same configuration therefore have the same effect at every key: string by string, list by list, table by table |

`FileInv`: a report is `Loaded` or a fault of the file it is about; what is loaded
or running has no fault (`Good`); the file is made of values. It needs to say so
of `before` too, the file the server runs on, or an edit could not be compared
with it.

**CommandProofs**, from `CommandInvariant`

| Theorem | States | Argument |
|---|---|---|
| `CommandIsTyped` | `CommandTypeOK` | by stage of the process |
| `UsageErrorsStay` | `UsageErrorIsHopeless` | `cmdMint` looks at `--kind` and `--at` after it has read the files, so a usage error may be hidden by exit code 1, never the other way round |
| `ClaimsAreAnnounced` | `DiscoveryAnnouncesClaims` | each claim of an ID token comes from `MintIDToken` or from a persona; the first are in the fixed list, the second in `claimsSupported`, for any order of the maps |
| `DecodeVouches` | `DecodesWhatWasMinted` | every token any command printed is `Signed` with the key that command had loaded; `decode` accepts it if and only if it has loaded the same key |
| `SameFilesSameBytes` | `ByteStable` | two walks of one map, once sorted, are equal (`SortedWalk`: a sorted sequence without repetition is determined by its set); two paths that resolve to the same file give the same key path, absolute or not. All other data is a function of the file |

`CommandInv` says of every process, by the stage it has reached, what it has
loaded and how it ended. A process that was disturbed by a save between its two
reads keeps its configuration and a key that do not belong together; that
is why the properties are about undisturbed commands.

**Assumptions.** All are named `ASSUME`s, evaluated by TLC in the runs.

| Assumption | Says | Because |
|---|---|---|
| `ValidatedConfig` | what `validate` guarantees | proved of what loads: `LoadedFilesDeploy` |
| `PkceAssumption` | S256 maps verifiers to verifiers, none of which is empty | 43 characters of base64url |
| `ProviderAssumption` | requests have the fields `/authorize` reads, strings presented at `/token` have the form of a token, known or not, no request is for both endpoints | the router, and the abstraction of strings |
| `TimeAssumption` | a second has ticks; lifetimes and instants are numbers; scopes are sequences of words | `time.Duration`, `time.Time` |
| `TomlAssumption` | paths are nonempty sequences of strings, a value is a scalar or an array, empty or not | `parseKeyPath` |
| `ScanAssumption` | a line is a sequence of symbols; the bound is a number | the text is a string |
| `LayoutAssumption` | a line that is not at fault is a layout of what it says | it defines what a legal line is, and TLC evaluates it for each line of the runs |
| `FileAssumption` | values are built of the forms the reader produces; the default lifetime parses and is positive; "" is a string and no duration, instant or absolute URL | `config.go:20`, `time.ParseDuration`, `time.Parse`, `url.Parse` |
| `FirstAssumption` | the file the server starts with loads for some order of its claims | `serve` exits otherwise |
| `CommandAssumption` | one alphabet of claim names holds every name that occurs; files on disk that load are validated configurations; every invocation has a token argument, perhaps "" | `Load`; a field of the model |

Beyond them the proofs rest on the abstraction of token strings: `<<kind, n>>`
are distinct for distinct `n`, that is, 128 bits of SHA-256 do not collide; and
on ideal signatures, as TokenLife and Jose state them.

**Recursion.** What is proved about folds, chains of checks and descents is
proved in set form: the recursive function is a set of pairs, and the set of
indices at which the claim holds contains 0 and is closed under successor
(`Induction` and `Recursion` in AnswerProofs).

**Checked by TLC only.**

* `FaultsAreRefused`: what makes a text faulty is what the constant `Lines` says of
  it. A theorem would need the converse of TomlLayout, that a text that is no layout
  of any statement stays none whatever lines follow it.
* What needs fairness: `TakenIsAnswered`, `ReaderStops` (but for
  `ReadingIsBounded`), the fair half of
  `ImplementsLedger`. With ENABLED it is out of the prover's reach.
* The three violated runs, by their nature.

## 5. Not modelled

* Text: error descriptions, HTML of the picker, formatting of listings, base64url
  and JSON text around the claims of a token. Stateless, and covered by the
  repository's unit tests.
* Cryptography: signing, key derivation, SHA-256. Taken as ideal functions; a
  key may be unable to sign.
* The router, the health document and the entry point: a table of paths, a count
  of personas, one call.
* `net/http` itself: connections, limits, shutdown. A request is read, handled
  and answered; a response that gets lost is covered, since no client action
  depends on having received it.
* The query of a redirect (`server.go:162`): parameters are set on the query of
  the registered URI and replace those of their names; `state` is echoed by one
  assignment. The base of the URI is what `RedirectsAreRegistered` is about.
* The inside of `sync.Mutex`. Each store operation locks on its first line,
  unlocks by `defer` and calls nothing that locks, so atomicity is the contract
  of the mutex and not of this code.
* Fields of the introspection document other than `active`: copies of claims.

`PROJECT.json` lists every component with its status, and every hazard with the
properties that cover it or the reason why none does.

## 6. Plan

Done: Deployment, Pkce, Answers, Scope, Store, Endpoints, Provider; GrantLedger
and the refinement; StoreRuns; TokenLife; TomlTree; TomlScan; PersonaFile, which
closes the gap between the reader and Deployment; Jose, Issuer and CommandLine.
Proved: every safety property of Provider, StoreRuns, TokenLife, TomlTree,
PersonaFile and CommandLine that a run checks, the safety of the refinement, and
that the scanner reads legal text back.

Left, in this order:

1. The redirect query as a function on sets of pairs: a parameter of the
   registered URI survives unless it has the name of one the answer sets.
