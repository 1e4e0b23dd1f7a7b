---------------------------- MODULE TokenRegistry ----------------------------
(***************************************************************************)
(* The gateway's token registry with its revocation cache (tokens/): both  *)
(* are maps from jti, read and written without an await, so every call is  *)
(* part of its caller's step.  Eviction from the cache, its file and       *)
(* restarts are in RevocationStore, whose ValidIffInForce says that they   *)
(* do not change what IsValid answers.                                     *)
(***************************************************************************)
CONSTANTS
    Tokens,      (* the jtis the generator may draw: bounds the tokens issued *)
    Sessions,
    NoSession

ASSUME RegistryAssumption == NoSession \notin Sessions

VARIABLES
    holder,      (* the session a token was issued for, NoSession before that *)
    registered,  (* the keys of the map tokens                                *)
    revoked,     (* the keys of the revocation cache                          *)
    expired      (* the tokens whose expiresAt has passed                     *)

registryVars == <<holder, registered, revoked, expired>>

RegistryInit ==
    /\ holder = [t \in Tokens |-> NoSession]
    /\ registered = {}
    /\ revoked = {}
    /\ expired = {}

Issued(t) == holder[t] # NoSession

IsValid(t) ==
    /\ t \notin revoked \ expired
    /\ t \in registered
    /\ t \notin expired

getBySession(s) == {t \in registered : holder[t] = s}

register(t, s) ==
    /\ holder' = [holder EXCEPT ![t] = s]
    /\ registered' = registered \cup {t}
    /\ UNCHANGED <<revoked, expired>>

(* revokeBySession, revokeByOperator: the entries go, the cache keeps them. *)
RevokeTokens(T) ==
    /\ registered' = registered \ T
    /\ revoked' = revoked \cup T
    /\ UNCHANGED <<holder, expired>>

(* Runs every 30 s. *)
cleanup ==
    /\ registered' = registered \ expired
    /\ revoked' = revoked \ expired
    /\ UNCHANGED <<holder, expired>>

(* Time passes the expiry of a token. *)
Expire(t) ==
    /\ Issued(t) /\ t \notin expired
    /\ expired' = expired \cup {t}
    /\ UNCHANGED <<holder, registered, revoked>>

RegistryTypeOK ==
    /\ holder \in [Tokens -> Sessions \cup {NoSession}]
    /\ registered \subseteq {t \in Tokens : Issued(t)}
    /\ revoked \subseteq Tokens
    /\ expired \subseteq Tokens
=============================================================================
