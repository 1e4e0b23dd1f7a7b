----------------------------- MODULE Credentials -----------------------------
(***************************************************************************)
(* The verification of JWT credentials (jwt-vc-verifier.ts, with           *)
(* issuer-trust.ts and the resolver).  verify checks what it can at once,  *)
(* awaits the import of the key and the check of the signature, and looks  *)
(* at the clock only then.  A verifier keeps the issuers it was created    *)
(* with: the trust list may have changed since.                            *)
(***************************************************************************)
EXTENDS DidResolver

CONSTANTS
    Jwts,               (* the credentials presented                         *)
    Issuers,            (* the issuers a trust list may name                 *)
    clockSkew

ASSUME CredentialAssumption ==
    /\ clockSkew \in Nat /\ Issuers \subseteq Dids
    /\ \A jwt \in Jwts : jwt.nbf \in Int /\ jwt.exp \in Int

VARIABLES
    trustList,          (* IssuerTrustList                                   *)
    trustedIssuers,     (* of the verifier                                   *)
    verification        (* the call of verify that is looked at              *)

credentialVars == <<cacheVars, trustList, trustedIssuers, verification>>

NotVerifying == [state |-> "none"]

CredentialInit ==
    /\ CacheInit
    /\ trustList = {}
    /\ trustedIssuers = {}
    /\ verification = NotVerifying

SUPPORTED_ALGORITHMS == {"EdDSA", "ES256"}

add(issuer) ==
    /\ trustList' = trustList \cup {issuer}
    /\ UNCHANGED <<cacheVars, trustedIssuers, verification>>

remove(issuer) ==
    /\ trustList' = trustList \ {issuer}
    /\ UNCHANGED <<cacheVars, trustedIssuers, verification>>

(* With the issuers the list holds now. *)
createJwtVcVerifier ==
    /\ trustedIssuers' = trustList
    /\ verification' = NotVerifying
    /\ UNCHANGED <<cacheVars, trustList>>

Verdict(jwt, v) ==
    verification' = [state |-> "done", jwt |-> jwt, verdict |-> v,
                     at |-> now, issuers |-> trustedIssuers]

extractIssuer(jwt) == jwt.decodes

validateIssuerTrust(jwt) == jwt.iss \in trustedIssuers

resolveVerificationMethod(jwt) == resolveDIDKey(jwt.iss).error = "none"

validateAlgorithm(jwt) == jwt.alg \in SUPPORTED_ALGORITHMS

(* verify, to its first await.  The trust is checked before the resolver is *)
(* asked, so that no other issuer is cached.                                *)
Verify(jwt) ==
    /\ verification = NotVerifying
    /\ IF ~extractIssuer(jwt) THEN Verdict(jwt, "invalid_jwt")
       ELSE IF ~validateIssuerTrust(jwt) THEN Verdict(jwt, "untrusted_issuer")
       ELSE IF ~resolveVerificationMethod(jwt) THEN Verdict(jwt, "issuer_resolution_failed")
       ELSE IF ~validateAlgorithm(jwt) THEN Verdict(jwt, "unsupported_algorithm")
       ELSE verification' = [state |-> "awaiting", jwt |-> jwt, issuers |-> trustedIssuers]
    /\ IF extractIssuer(jwt) /\ validateIssuerTrust(jwt) THEN resolve(jwt.iss)
                                                         ELSE UNCHANGED cacheVars
    /\ UNCHANGED <<trustList, trustedIssuers>>

(* A key of 32 bytes has no second coordinate for importJWK, which throws.  *)
multibaseToKey(jwt) == jwt.alg = "EdDSA"

(* Faulty variant: the tolerance is taken off both bounds. *)
jwtVerifySkewed(jwt) ==
    IF ~jwt.signedByIssuer THEN "invalid_signature"
    ELSE IF jwt.nbf > now - clockSkew THEN "credential_not_yet_valid"
    ELSE IF jwt.exp <= now - clockSkew THEN "credential_expired"
    ELSE "ok"

(* What jose.jwtVerify finds first, as verifyJwtSignature reports it. *)
jwtVerify(jwt) ==
    IF ~jwt.signedByIssuer THEN "invalid_signature"
    ELSE IF jwt.nbf > now + clockSkew THEN "credential_not_yet_valid"
    ELSE IF jwt.exp <= now - clockSkew THEN "credential_expired"
    ELSE "ok"

(* ... from the await. *)
VerifySignature ==
    LET jwt == verification.jwt IN
    /\ verification.state = "awaiting"
    /\ verification' =
         [state |-> "done", jwt |-> jwt, at |-> now, issuers |-> verification.issuers,
          verdict |-> IF ~multibaseToKey(jwt) THEN "import failed"
                      ELSE IF jwtVerify(jwt) # "ok" THEN jwtVerify(jwt)
                      ELSE IF ~jwt.vc THEN "missing_vc_claim" ELSE "valid"]
    /\ UNCHANGED <<cacheVars, trustList, trustedIssuers>>

ResolverStep ==
    /\ \/ \E d \in Dids : resolve(d)
       \/ clearCache
       \/ PassTime
    /\ UNCHANGED <<trustList, trustedIssuers, verification>>

CredentialNext ==
    \/ \E i \in Issuers : add(i) \/ remove(i)
    \/ createJwtVcVerifier
    \/ \E jwt \in Jwts : Verify(jwt)
    \/ VerifySignature
    \/ ResolverStep

CredentialTypeOK ==
    /\ CacheTypeOK
    /\ trustList \subseteq Issuers /\ trustedIssuers \subseteq Issuers
    /\ verification.state \in {"none", "awaiting", "done"}

-----------------------------------------------------------------------------
(* Properties                                                              *)

InTime(jwt, t) == jwt.nbf - clockSkew <= t /\ t < jwt.exp + clockSkew

(* A credential is found valid exactly if its issuer was trusted when the   *)
(* verifier was created and signed it with the key its identifier holds,    *)
(* and if its time is right when the signature has been checked, whatever   *)
(* passes during the awaits and whatever the cache remembers; and what is   *)
(* said of its time is said only of a credential the issuer did sign.       *)
VerdictIsRight ==
    verification.state = "done" =>
      LET jwt == verification.jwt
          genuine == /\ jwt.decodes
                     /\ jwt.iss \in verification.issuers
                     /\ resolveDIDKey(jwt.iss).error = "none"
                     /\ jwt.alg = "EdDSA" /\ jwt.signedByIssuer
      IN  /\ verification.verdict = "valid" <=>
               genuine /\ InTime(jwt, verification.at) /\ jwt.vc
          /\ verification.verdict \in {"credential_expired", "credential_not_yet_valid"} <=>
               genuine /\ ~InTime(jwt, verification.at)
=============================================================================
