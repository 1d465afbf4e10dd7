---------------------------- MODULE MCCommandLine -----------------------------
(* Two commands, one after the other, in the folders of three checkouts:   *)
(* a frozen file with a seed, and two copies of a file that names an RSA   *)
(* key beside it.                                                          *)
EXTENDS CommandLine

MCNameOrder ==
  <<"alg", "aud", "auth_time", "client_id", "email", "email_verified", "exp", "groups", "iat",
    "iss", "jti", "kid", "level", "nonce", "role", "scope", "sub", "token_use", "typ">>

MCWalks == {MCNameOrder, Reverse(MCNameOrder)}

Alice == [Name |-> "alice", Subject |-> "1", Email |-> "a@x", EmailVerified |-> TRUE,
          Groups |-> <<"dev">>, Claims |-> [role |-> "admin", level |-> 3]]
Bob   == [Name |-> "bob", Subject |-> "2", Email |-> "", EmailVerified |-> FALSE,
          Groups |-> <<>>, Claims |-> <<>>]

(* A seeded file with a frozen time. *)
Frozen ==
  [Issuer |-> "http://idp", Seed |-> "s", Algorithm |-> "EdDSA", RSAKeyFile |-> NoPath,
   TTL |-> 2, IssuedAt |-> 0, Clients |-> <<[ID |-> "app"]>>, Personas |-> <<Alice, Bob>>]

Live   == [Frozen EXCEPT !.IssuedAt = LiveClock]
OnRSA  == [Frozen EXCEPT !.Algorithm = "RS256", !.RSAKeyFile = Path(FALSE, <<"key.pem">>)]
Pinned == [OnRSA EXCEPT !.RSAKeyFile = Path(TRUE, <<"copy", "key.pem">>)]

Config(cfg) == [kind |-> "config", cfg |-> cfg]
PEM(form, key, signs) == [kind |-> "pem", form |-> form, key |-> key, signs |-> signs]
Broken == [kind |-> "broken"]

Seeded == "p.toml" :> Config(Frozen)
Keyed  == ("p.toml" :> Config(OnRSA)) @@ ("key.pem" :> PEM("PKCS#1", "k1", TRUE))

MCDisk == ("seeded" :> Seeded) @@ ("keyed" :> Keyed) @@ ("copy" :> Keyed)

Saved(folder, name, file) == [folder |-> folder, name |-> name, file |-> file]

MCSaves ==
  {Saved("seeded", "p.toml", Config(Live)),
   Saved("seeded", "p.toml", Config([Frozen EXCEPT !.Seed = "t", !.Personas = <<Bob>>])),
   Saved("keyed", "p.toml", Broken),
   Saved("keyed", "p.toml", Config(Pinned)),
   Saved("keyed", "key.pem", PEM("PKCS#8 RSA", "k2", TRUE)),
   Saved("keyed", "key.pem", PEM("PKCS#8 RSA", "weak", FALSE)),
   Saved("keyed", "key.pem", PEM("PKCS#8 EC", "k3", TRUE))}

Command(cmd) ==
  [cmd |-> cmd, flags |-> "ok", token |-> NoToken, extra |-> 0, persona |-> "", client |-> "",
   kind |-> "id", scope |-> <<"profile", "email", "groups">>, nonce |-> "", at |-> NoTime,
   host |-> "127.0.0.1"]

Mint == [Command("mint") EXCEPT !.persona = "alice", !.client = "app"]

MCArguments ==
  {Mint,
   [Mint EXCEPT !.kind = "access", !.scope = <<"profile", "profile">>],
   [Mint EXCEPT !.nonce = "n", !.at = 1],
   [Mint EXCEPT !.persona = "eve", !.kind = "refresh"],
   [Mint EXCEPT !.client = "web", !.at = BadTime],
   [Command("decode") EXCEPT !.extra = 1],
   Command("decode"), Command("discovery"), Command("jwks"),
   [Command("personas") EXCEPT !.flags = "help"], [Command("validate") EXCEPT !.flags = "bad"],
   Command("personas"), Command("validate"),
   Command("serve"), [Command("serve") EXCEPT !.host = "0.0.0.0"],
   Command("version"), Command("")}

Where(cwd, path) == [cwd |-> cwd, path |-> path]

MCConfigPaths ==
  {Where(<<>>, Path(FALSE, <<"seeded", "p.toml">>)),
   Where(<<"keyed">>, Path(FALSE, <<"p.toml">>)),
   Where(<<"seeded">>, Path(TRUE, <<"copy", "p.toml">>)),
   Where(<<"copy">>, Path(FALSE, <<"q.toml">>)),
   Where(<<"copy">>, NoPath)}

===============================================================================
