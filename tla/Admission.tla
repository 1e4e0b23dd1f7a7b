------------------------------ MODULE Admission ------------------------------
(***************************************************************************)
(* How POST /v1/sessions decides (routes/session-policy.ts): the claims of *)
(* the credential are read, the default policy is evaluated, and the token *)
(* is awaited, while policies may change; the answer names the policy.     *)
(* Gateway follows the session from there.                                 *)
(***************************************************************************)
EXTENDS PolicyStore

CONSTANTS
    Applications,       (* the requests for a session                        *)
    Vcs,                (* the credentials presented                         *)
    Malformed,          (* what the extractor makes of one it cannot read    *)
    Resources,          (* robot ids                                         *)
    Scopes,             (* the requested_scope lists                         *)
    DefaultRules        (* the rules of the policy the gateway starts with   *)

VARIABLES
    configured,         (* evaluator and store were given to the routes, as  *)
                        (* index.ts does; without them all is allowed        *)
    application,
    forgotten           (* those whose policy was deleted since              *)

admissionVars == <<storeVars, configured, application, forgotten>>

DEFAULT_POLICY_ID == "default-policy"

ASSUME AdmissionAssumption ==
    DEFAULT_POLICY_ID \in PolicyIds /\ DefaultRules \in RuleLists

NotAsked == [state |-> "none"]

AdmissionInit ==
    /\ configured \in BOOLEAN
    /\ policies = [id \in PolicyIds |-> IF id = DEFAULT_POLICY_ID
                                        THEN NewPolicy(DefaultRules, 1) ELSE NoPolicy]
    /\ history = [id \in PolicyIds |-> IF id = DEFAULT_POLICY_ID
                                       THEN <<NewPolicy(DefaultRules, 1)>> ELSE <<>>]
    /\ application = [a \in Applications |-> NotAsked]
    /\ forgotten = {}

(* The string as a value of a condition; none of the others contains it. *)
Str(s) == [kind |-> "string", value |-> s, contained |-> {s}]

(* The claims as the policy sees them.  The signature is not checked, and a *)
(* claim of the subject takes the place of the issuer's of the same name.   *)
extractCredentialForPolicy(vc) ==
    LET subject == IF vc.sub = Undefined THEN getFieldValue("credential.id", vc.subject)
                                         ELSE vc.sub
        copied == {f \in DOMAIN vc.subject :
                     /\ f # "credential.id"
                     /\ f = "credential.role" => vc.subject[f].kind = "string"}
    IN  IF ~vc.decodes \/ vc.iss = Undefined \/ ~vc.vc \/ subject = Undefined THEN Malformed
        ELSE [f \in {"credential.issuer", "credential.subject"} \cup copied |->
                CASE f \in copied -> vc.subject[f]
                  [] f = "credential.issuer" /\ f \notin copied -> vc.iss
                  [] OTHER -> subject]

(* Issuer, subject and role of the credential, no other claim; and of the   *)
(* requested actions the first.                                             *)
buildEvaluationContext(claims, resource, scope) ==
    [f \in ({"credential.issuer", "credential.subject", "credential.role"} \cap DOMAIN claims)
           \cup {"context.resource"} \cup {x \in {"context.action"} : scope # <<>>} |->
        CASE f = "context.resource" -> Str(resource)
          [] f = "context.action" -> Str(Head(scope))
          [] OTHER -> claims[f]]

refuse(a, status) ==
    application' = [application EXCEPT ![a] = [state |-> "refused", status |-> status]]

await(a, scope, context, policy, allowed) ==
    application' = [application EXCEPT ![a] =
        [state |-> "awaiting", scope |-> scope, context |-> context,
         policy |-> policy, allowed |-> allowed]]

NoPolicyConfigured == [version |-> "1.0.0", hash |-> "no-policy-configured"]

(* evaluateSessionPolicy, up to the await of the token. *)
PostSession(a, vc, resource, scope) ==
    LET claims == extractCredentialForPolicy(vc)
        policy == policies[DEFAULT_POLICY_ID]
        context == buildEvaluationContext(claims, resource, scope)
        result == evaluate(policy.rules, context, ToSet(scope))
    IN  /\ application[a] = NotAsked
        /\ \/ /\ ~configured
              /\ await(a, scope, {}, NoPolicyConfigured, ToSet(scope))
           \/ /\ configured /\ claims = Malformed
              /\ refuse(a, 400)
           \/ /\ configured /\ claims # Malformed /\ policy = NoPolicy
              /\ refuse(a, 500)
           \/ /\ configured /\ claims # Malformed /\ policy # NoPolicy
              /\ IF result.decision = "deny" THEN refuse(a, 403)
                 ELSE await(a, scope, context,
                            [version |-> policy.version, hash |-> policy.hash],
                            result.allowedActions)
        /\ forgotten' = forgotten \ {a}
        /\ UNCHANGED <<storeVars, configured>>

(* The token comes: the session is created with the scope it requested. *)
Grant(a) ==
    /\ application[a].state = "awaiting"
    /\ application' = [application EXCEPT ![a].state = "granted"]
    /\ UNCHANGED <<storeVars, configured, forgotten>>

(* The generator throws. *)
GenerateFails(a) ==
    /\ application[a].state = "awaiting"
    /\ refuse(a, 500)
    /\ UNCHANGED <<storeVars, configured, forgotten>>

PolicyStep ==
    /\ \E id \in PolicyIds :
         \/ \E rules \in RuleLists : /\ create(id, rules) \/ update(id, rules)
                                     /\ UNCHANGED forgotten
         \/ /\ delete(id)
            /\ forgotten' = IF id = DEFAULT_POLICY_ID THEN Applications ELSE forgotten
    /\ UNCHANGED <<configured, application>>

ClearPolicies ==
    /\ clear
    /\ forgotten' = Applications
    /\ UNCHANGED <<configured, application>>

AdmissionNext ==
    \/ \E a \in Applications, vc \in Vcs, resource \in Resources, scope \in Scopes :
             PostSession(a, vc, resource, scope)
    \/ \E a \in Applications : Grant(a) \/ GenerateFails(a)
    \/ PolicyStep
    \/ ClearPolicies

AdmissionTypeOK ==
    /\ \A id \in Stored : /\ policies[id].rules \in RuleLists
                          /\ policies[id].version \in 1..MaxVersions
    /\ Cardinality(Stored) <= maxPolicies
    /\ configured \in BOOLEAN
    /\ \A a \in Applications :
         application[a].state \in {"none", "refused", "awaiting", "granted"}
    /\ forgotten \subseteq Applications

-----------------------------------------------------------------------------
(* Properties                                                              *)

Granted == {a \in Applications : application[a].state = "granted"}

(* A session that was granted can be accounted for: the version its answer  *)
(* names is in the store, with the hash the answer gives, and allows the    *)
(* request, whatever became of the policy during the await and after it;    *)
(* only deleting the policy loses it, and then no later policy passes for   *)
(* it that would not have allowed the request too.                          *)
GrantIsAccountable ==
    configured =>
      \A a \in Granted :
        LET policy == application[a].policy
            found == getByVersion(DEFAULT_POLICY_ID, policy.version)
        IN  /\ a \notin forgotten => found # NoPolicy /\ found.hash = policy.hash
            /\ (found # NoPolicy /\ found.hash = policy.hash) =>
                 evaluate(found.rules, application[a].context,
                          ToSet(application[a].scope)).decision = "allow"

-----------------------------------------------------------------------------
(* What the documents say and the code does not do                         *)

(* docs/architecture/POLICY.md: the effective scope is the intersection of  *)
(* the requested and the allowed actions.                                   *)
EffectiveScopeIsAllowed ==
    \A a \in Granted : ToSet(application[a].scope) \subseteq application[a].allowed
=============================================================================
