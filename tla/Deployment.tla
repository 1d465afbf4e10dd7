------------------------------ MODULE Deployment ------------------------------
(***************************************************************************)
(* One deployment of personad: the validated persona file the server was   *)
(* started with (internal/config) and the signing key behind it.  A        *)
(* Config never changes while the server runs, so it is a set of           *)
(* constants; what Config.validate guarantees of it is their assumption.   *)
(*                                                                         *)
(* As in the Go code, the empty string stands for an absent value: a       *)
(* client without a secret, a form field that was not sent.                *)
(***************************************************************************)
EXTENDS Integers, FiniteSets

CONSTANTS
  ClientIds,     \* client_id of every [[clients]] entry
  Secret,        \* client_id -> client_secret, "" for a public client
  RedirectURIs,  \* client_id -> the set of its registered redirect_uris
  PersonaNames,  \* name of every [[personas]] entry
  Signs          \* whether the key can sign: an RSA key may be too small

(***************************************************************************)
(* What validate (and the duplicate checks in it) leaves of the file.      *)
(***************************************************************************)
ValidatedConfig ==
  /\ ClientIds # {} /\ \A id \in ClientIds : id \in STRING /\ id # ""
  /\ Secret \in [ClientIds -> STRING]
  /\ DOMAIN RedirectURIs = ClientIds
  /\ \A id \in ClientIds :
        /\ RedirectURIs[id] # {}
        /\ \A uri \in RedirectURIs[id] : uri \in STRING /\ uri # ""
  /\ PersonaNames # {} /\ \A p \in PersonaNames : p \in STRING /\ p # ""
  /\ Signs \in BOOLEAN

ASSUME DeploymentAssumption == ValidatedConfig

KnownClient(id) == id \in ClientIds

Public(id) == KnownClient(id) /\ Secret[id] = ""

Confidential(id) == KnownClient(id) /\ Secret[id] # ""

(* Mutant: any client's redirect URI will do. *)
RedirectAllowedAnywhere(id, uri) == \E c \in ClientIds : uri \in RedirectURIs[c]

RedirectAllowed(id, uri) == KnownClient(id) /\ uri \in RedirectURIs[id]

KnownPersona(name) == name \in PersonaNames

===============================================================================
