----------------------------- MODULE CommandLine ------------------------------
(***************************************************************************)
(* The personad command line (internal/cli): one command after the other,  *)
(* each a process that parses its flags, reads the persona file, reads the *)
(* key file the persona file names, and then does its work.  Between any   *)
(* two of these the author may save another version of a file.             *)
(*                                                                         *)
(* The disk has folders with files in them, and every path is at most a    *)
(* folder and a name.  A file is [kind, ...]: a configuration as           *)
(* PersonaFile builds it, a PEM file, or something that does not load.     *)
(***************************************************************************)
EXTENDS Issuer, Answers

CONSTANTS
  Arguments,   \* command lines, without the path of the persona file
  ConfigPaths, \* [cwd, path]: where a command is run, and what --config says
  FirstDisk,   \* folder -> name -> file
  Saves,       \* [folder, name, file]: what the author may save
  Walks,       \* orders in which a Go map may be walked
  MaxRuns,     \* bound: commands run
  MaxSaves,    \* bound: files saved
  MaxClock     \* bound: seconds that pass

VARIABLES
  disk,    \* the files
  clock,   \* the wall clock
  proc,    \* the process
  runs,    \* history: the commands that have ended
  saves    \* how many files have been saved

commandVars == <<disk, clock, proc, runs, saves>>

-------------------------------------------------------------------------------
(* Paths *)

Path(abs, parts) == [abs |-> abs, parts |-> parts]
NoPath == Path(FALSE, <<>>)

IsPath(path) == path = Path(path.abs, path.parts) /\ path.parts \in Seq(STRING)

(* A path of a file, if it is there. *)
IsFilePath(path) ==
  IsPath(path) /\ (path # NoPath => path.parts # <<>> /\ Last(path.parts) # "")

(* Of what validate guarantees, what the commands rely on. *)
GoodConfig(cfg) ==
  /\ cfg.Algorithm \in {"EdDSA", "RS256"}
  /\ IsPath(cfg.RSAKeyFile)
  /\ cfg.Personas \in Seq(ToSet(cfg.Personas))
  /\ \A p \in ToSet(cfg.Personas) : DOMAIN p.Claims \subseteq ToSet(NameOrder)

GoodFile(file) == file.kind = "config" => GoodConfig(file.cfg)

RegisteredNames ==
  {"iss", "sub", "aud", "exp", "iat", "auth_time", "nonce", "client_id", "jti", "scope",
   "token_use", "email", "email_verified", "groups", "alg", "kid", "typ"}

ASSUME CommandAssumption ==
  /\ NameOrder \in Seq(STRING) /\ RegisteredNames \subseteq ToSet(NameOrder)
  /\ \A walk \in Walks : walk \in Seq(STRING) /\ ToSet(walk) = ToSet(NameOrder)
  /\ \A folder \in DOMAIN FirstDisk :
       \A name \in DOMAIN FirstDisk[folder] : GoodFile(FirstDisk[folder][name])
  /\ \A s \in Saves : GoodFile(s.file)
  /\ \A a \in Arguments : "token" \in DOMAIN a
  /\ \A c \in ConfigPaths : c.cwd \in Seq(STRING) /\ IsFilePath(c.path)

Dir(path) == Path(path.abs, Front(path.parts))
Join(dir, path) == Path(dir.abs, dir.parts \o path.parts)

(* What the operating system finds: <<folder, name>>. *)
Resolve(cwd, path) == IF path.abs THEN path.parts ELSE cwd \o path.parts

Exists(at) == Len(at) = 2 /\ at[1] \in DOMAIN disk /\ at[2] \in DOMAIN disk[at[1]]
File(at)   == disk[at[1]][at[2]]

(* A relative key path is relative to the persona file. *)
KeyPath(config, key) == IF key.abs THEN key ELSE Join(Dir(config), key)

-------------------------------------------------------------------------------
(* Arguments: [cmd, flags, token, extra, persona, client, kind, scope,     *)
(* nonce, at, host].  flags is "ok", "help" or "bad"; at is NoTime,        *)
(* BadTime or an instant; host is "" when --addr is not host:port.         *)

NoTime  == -1
BadTime == -2

ConfigCommands == {"serve", "mint", "decode", "personas", "jwks", "discovery", "validate"}
VersionWords   == {"version", "--version", "-v"}
HelpWords      == {"help", "--help", "-h"}

OK    == 0
Fails == 1
Usage == 2

(* Before any file is read.  A check that "fails" with OK ends the command *)
(* without work to do. *)
FlagChecks(a, path) ==
  << Check(a.cmd \in VersionWords \union HelpWords, OK),
     Check(a.cmd \notin ConfigCommands, Usage),
     Check(a.flags = "help", OK),
     Check(a.flags = "bad", Usage),
     Check(a.cmd = "decode" /\ a.extra # 1, Usage),
     Check(path = NoPath, Usage) >>

FlagOutput(a) ==
  IF a.cmd \in VersionWords THEN <<"version">>
  ELSE IF a.cmd \in HelpWords THEN <<"usage">> ELSE <<>>

(* loadIssuer *)
ConfigChecks(at) ==
  << Check(~Exists(at), Fails),
     Check(Exists(at) /\ File(at).kind # "config", Fails) >>

KeyChecks(at) ==
  << Check(~Exists(at), Fails),
     Check(Exists(at) /\ (File(at).kind # "pem" \/ ~LoadsRSAPEM(File(at))), Fails) >>

(* The index of the persona or client of that name, 0 if there is none. *)
PersonaNamed(cfg, name) == SelectInSeq(cfg.Personas, LAMBDA p : p.Name = name)
ClientWithId(cfg, id)   == SelectInSeq(cfg.Clients, LAMBDA c : c.ID = id)

(* Mutant: an unknown persona is taken for a usage error. *)
MintChecksHarsh(a, cfg, key) ==
  << Check(PersonaNamed(cfg, a.persona) = 0, Usage),
     Check(ClientWithId(cfg, a.client) = 0, Fails),
     Check(a.at = BadTime, Usage),
     Check(a.kind \notin {"id", "access"}, Usage),
     Check(~key.signs, Fails) >>

MintChecks(a, cfg, key) ==
  << Check(PersonaNamed(cfg, a.persona) = 0, Fails),
     Check(ClientWithId(cfg, a.client) = 0, Fails),
     Check(a.at = BadTime, Usage),
     Check(a.kind \notin {"id", "access"}, Usage),
     Check(~key.signs, Fails) >>

MintedToken(a, cfg, key, now, walk) ==
  LET p      == cfg.Personas[PersonaNamed(cfg, a.persona)]
      at     == IF a.at # NoTime THEN a.at ELSE IssueTime(cfg, now)
      scopes == SplitScope(a.scope)
  IN SignJWT(key, IF a.kind = "id"
                  THEN IDTokenClaims(cfg, p, a.client, a.nonce, scopes, at, walk)
                  ELSE AccessTokenClaims(cfg, p, a.client, scopes, at, walk))

DecodeChecks(a, key) == << Check(~Verifies(key, a.token), Fails) >>

Decoded(t, walk) ==
  << <<"header", SetSorted(NewObj, AsMap(t.header), walk)>>,
     <<"claims", SetSorted(NewObj, AsMap(t.claims), walk)>>,
     <<"signature", "verified">> >>

LoopbackIPs == {"127.0.0.1", "::1"}

ServeChecks(a) ==
  << Check(a.host = "", Usage),
     Check(a.host \notin LoopbackIPs \union {"localhost"}, Usage) >>

CommandChecks(a, cfg, key) ==
  CASE a.cmd = "mint"   -> MintChecks(a, cfg, key)
    [] a.cmd = "decode" -> DecodeChecks(a, key)
    [] a.cmd = "serve"  -> ServeChecks(a)
    [] OTHER            -> <<>>

(* What a command that passes its checks prints. *)
Stdout(a, cfg, key, now, walk) ==
  CASE a.cmd = "mint"      -> <<"token", MintedToken(a, cfg, key, now, walk)>>
    [] a.cmd = "decode"    -> <<"decoded", Decoded(a.token, walk)>>
    [] a.cmd = "personas"  -> <<"personas", [i \in DOMAIN cfg.Personas |->
                                  <<cfg.Personas[i].Name, cfg.Personas[i].Subject>>]>>
    [] a.cmd = "jwks"      -> <<"jwks", JWKS(key)>>
    [] a.cmd = "discovery" -> <<"discovery", Discovery(cfg, key, walk)>>
    [] a.cmd = "validate"  -> <<"ok", Len(cfg.Personas), Len(cfg.Clients), key.alg, key.kid,
                                cfg.IssuedAt>>
    [] a.cmd = "serve"     -> <<"listening", cfg.Issuer>>

-------------------------------------------------------------------------------
(* The process.  `found` is what was in the folder of the persona file     *)
(* when the command began, `torn` that it was saved to since.              *)

NoConfig == [Algorithm |-> ""]

Idle == [pc |-> "idle"]

Result(exit, stdout) ==
  [argv |-> proc.argv, path |-> proc.path, found |-> proc.found, torn |-> proc.torn,
   cfg |-> proc.cfg, key |-> proc.key, clock |-> clock, exit |-> exit, stdout |-> stdout]

Exit(code, stdout) ==
  /\ proc' = Idle
  /\ runs' = Append(runs, Result(code, stdout))
  /\ UNCHANGED <<disk, clock, saves>>

GoOn(pc, cfg, key) ==
  /\ proc' = [proc EXCEPT !.pc = pc, !.cfg = cfg, !.key = key]
  /\ UNCHANGED <<disk, clock, runs, saves>>

Folder(at) == IF Len(at) = 2 /\ at[1] \in DOMAIN disk THEN disk[at[1]] ELSE [n \in {} |-> n]

(* What may be given to decode: a token that was printed, one damaged on   *)
(* its way, or something else. *)
Minted    == {i \in DOMAIN runs : runs[i].argv.cmd = "mint" /\ runs[i].stdout # <<>>}
Printed   == {runs[i].stdout[2] : i \in Minted}
Damaged   == {[t EXCEPT !.claims = Front(@)] : t \in Printed}
Presented(a) == IF a.cmd = "decode" THEN {NoToken} \union Printed \union Damaged ELSE {NoToken}

Start(a, c) ==
  /\ proc = Idle
  /\ Len(runs) < MaxRuns
  /\ \E t \in Presented(a) :
       proc' = [pc |-> "flags", argv |-> [a EXCEPT !.token = t], cwd |-> c.cwd, path |-> c.path,
                found |-> Folder(Resolve(c.cwd, c.path)), torn |-> FALSE,
                cfg |-> NoConfig, key |-> NoKey]
  /\ UNCHANGED <<disk, clock, runs, saves>>

ParseFlags ==
  LET checks == FlagChecks(proc.argv, proc.path) IN
  /\ proc.pc = "flags"
  /\ IF Passes(checks) THEN GoOn("config", NoConfig, NoKey)
     ELSE Exit(FirstFailure(checks), FlagOutput(proc.argv))

LoadConfig ==
  LET at     == Resolve(proc.cwd, proc.path)
      checks == ConfigChecks(at) IN
  /\ proc.pc = "config"
  /\ \/ ~Passes(checks) /\ Exit(FirstFailure(checks), <<>>)
     \/ /\ Passes(checks) /\ File(at).cfg.Algorithm = "RS256"
        /\ GoOn("key", File(at).cfg, NoKey)
     \/ /\ Passes(checks) /\ File(at).cfg.Algorithm # "RS256"
        /\ GoOn("work", File(at).cfg, NewEdSigner(File(at).cfg.Seed))

LoadKey ==
  /\ proc.pc = "key"
  /\ LET at     == Resolve(proc.cwd, KeyPath(proc.path, proc.cfg.RSAKeyFile))
         checks == KeyChecks(at)
     IN \/ ~Passes(checks) /\ Exit(FirstFailure(checks), <<>>)
        \/ Passes(checks) /\ GoOn("work", proc.cfg, RSASigner(File(at)))

(* Every command but serve ends here. *)
Work(walk) ==
  /\ proc.pc = "work"
  /\ LET checks == CommandChecks(proc.argv, proc.cfg, proc.key)
     IN \/ /\ ~Passes(checks)
           /\ Exit(FirstFailure(checks), <<>>)
        \/ /\ Passes(checks) /\ proc.argv.cmd # "serve"
           /\ Exit(OK, Stdout(proc.argv, proc.cfg, proc.key, clock, walk))

(* serve binds its address, which another process may have, and stays. *)
Listen ==
  /\ proc.pc = "work" /\ proc.argv.cmd = "serve"
  /\ Passes(ServeChecks(proc.argv))
  /\ \/ Exit(Fails, <<>>)
     \/ GoOn("serving", proc.cfg, proc.key)

(* The listener breaks: only this ends serve with an exit code. *)
ServeEnds ==
  /\ proc.pc = "serving"
  /\ Exit(Fails, Stdout(proc.argv, proc.cfg, proc.key, clock, <<>>))

(* The process is interrupted. *)
Interrupt ==
  /\ proc.pc = "serving"
  /\ proc' = Idle
  /\ UNCHANGED <<disk, clock, runs, saves>>

-------------------------------------------------------------------------------
(* The author and the clock *)

With(folder, name, file) ==
  [n \in DOMAIN folder \union {name} |-> IF n = name THEN file ELSE folder[n]]

Save(s) ==
  /\ saves < MaxSaves /\ saves' = saves + 1
  /\ disk' = [disk EXCEPT ![s.folder] = With(@, s.name, s.file)]
  /\ proc' = IF proc = Idle THEN Idle ELSE [proc EXCEPT !.torn = TRUE]
  /\ UNCHANGED <<clock, runs>>

Tick ==
  /\ clock < MaxClock /\ clock' = clock + 1
  /\ UNCHANGED <<disk, proc, runs, saves>>

Init ==
  /\ disk = FirstDisk
  /\ clock = 0
  /\ proc = Idle
  /\ runs = <<>>
  /\ saves = 0

Next ==
  \/ \E a \in Arguments, c \in ConfigPaths : Start(a, c)
  \/ ParseFlags \/ LoadConfig \/ LoadKey
  \/ \E walk \in Walks : Work(walk)
  \/ Listen \/ ServeEnds \/ Interrupt
  \/ \E s \in Saves : Save(s)
  \/ Tick

Spec == Init /\ [][Next]_commandVars

-------------------------------------------------------------------------------
(* Properties *)

(* Type invariant: a process works with the key its configuration asks     *)
(* for.  What a script reads from stdout came from a command that exited   *)
(* with 0; only serve prints before it can fail. *)
CommandTypeOK ==
  /\ proc # Idle /\ proc.pc \in {"work", "serving"} => proc.key.alg = proc.cfg.Algorithm
  /\ \A i \in DOMAIN runs :
       /\ runs[i].exit \in {OK, Fails, Usage}
       /\ runs[i].stdout # <<>> => runs[i].exit = OK \/ runs[i].argv.cmd = "serve"

(* Exit code 2 is a usage error: the same command line never succeeds,     *)
(* whatever is saved to the files.  (Code 1 may hide one: --kind is looked *)
(* at after the persona file.) *)
UsageErrorIsHopeless ==
  \A i, j \in DOMAIN runs :
    (runs[i].exit = Usage /\ runs[j].argv = runs[i].argv /\ runs[j].path # NoPath
                          /\ runs[i].path # NoPath)
      => runs[j].exit # OK

(* Whether the command looks at the clock. *)
ReadsClock(r) ==
  r.argv.cmd = "mint" /\ r.argv.at = NoTime /\ r.cfg # NoConfig /\ r.cfg.IssuedAt = LiveClock

FileName(r) == IF r.path = NoPath THEN "" ELSE Last(r.path.parts)

(* The key, if a file is named, is named relative to the persona file. *)
KeyIsBeside(r) == r.cfg.Algorithm = "RS256" => ~r.cfg.RSAKeyFile.abs

(* "the same persona file mints the same token bytes on every machine": a  *)
(* command prints the same and exits the same whenever its folder holds    *)
(* the same files, wherever it is run, whichever way the file is named,    *)
(* and in whatever order Go walks its maps. *)
ByteStable ==
  \A i, j \in DOMAIN runs :
    /\ runs[i].argv = runs[j].argv /\ runs[i].argv.cmd # "serve"
    /\ runs[i].found = runs[j].found /\ ~runs[i].torn /\ ~runs[j].torn
    /\ KeyIsBeside(runs[i]) /\ KeyIsBeside(runs[j])
    /\ FileName(runs[i]) = FileName(runs[j])
    /\ ReadsClock(runs[i]) => runs[i].clock = runs[j].clock
    => /\ runs[i].stdout = runs[j].stdout
       /\ runs[i].exit = runs[j].exit

(* The runs that have printed this token. *)
MintedBy(r) == {i \in Minted : runs[i].stdout[2] = r.argv.token}

(* decode vouches for exactly the tokens that mint has signed with the key *)
(* it loads, through any edit of the files in between, and shows the       *)
(* claims they were signed with. *)
DecodesWhatWasMinted ==
  \A j \in DOMAIN runs :
    LET r == runs[j] IN
    (r.argv.cmd = "decode" /\ r.key # NoKey) =>
      /\ (r.exit = OK) <=> (\E i \in MintedBy(r) : runs[i].key = r.key)
      /\ r.exit = OK => AsMap(AsMap(r.stdout[2])["claims"]) = AsMap(r.argv.token.claims)

(* Every claim of an ID token is announced by the discovery document of    *)
(* the same files: "every claim any persona can release" (issuer.go:187).  *)
DiscoveryAnnouncesClaims ==
  \A i \in Minted, j \in DOMAIN runs :
    (/\ runs[i].argv.kind = "id"
     /\ runs[j].argv.cmd = "discovery" /\ runs[j].stdout # <<>>
     /\ runs[i].cfg = runs[j].cfg)
      => Names(runs[i].stdout[2].claims) \subseteq
           ToSet(AsMap(runs[j].stdout[2])["claims_supported"])

===============================================================================
