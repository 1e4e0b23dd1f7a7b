----------------------------- MODULE MCAdmission -----------------------------
(* What decides on a session at the gateway: policies, credentials, and the  *)
(* monitor of the tokens given.  The three share no state: each behaviour    *)
(* runs one.                                                                 *)
EXTENDS Admission, Credentials, ExpiryMonitor

VARIABLE part

vars == <<part, admissionVars, credentialVars, monitorVars>>

Init ==
    /\ part \in {"admission", "credentials", "expiry"}
    /\ AdmissionInit /\ CredentialInit /\ ExpiryInit

AdmissionStep ==
    part = "admission" /\ AdmissionNext /\ UNCHANGED <<part, credentialVars, monitorVars>>

CredentialStep ==
    part = "credentials" /\ CredentialNext /\ UNCHANGED <<part, admissionVars, monitorVars>>

ExpiryStep ==
    part = "expiry" /\ ExpiryNext /\ UNCHANGED <<part, admissionVars, credentialVars>>

Next == AdmissionStep \/ CredentialStep \/ ExpiryStep

Spec == Init /\ [][Next]_vars

(* Every variable of the three parts has its type. *)
TypeOK == AdmissionTypeOK /\ CredentialTypeOK /\ ExpiryTypeOK

-----------------------------------------------------------------------------
(* The instance                                                            *)

Array(s) == [kind |-> "array", value |-> s]
Number(n) == [kind |-> "number", value |-> n]

Condition(field, operator, value) == [field |-> field, operator |-> operator, value |-> value]

Rule(effect, priority, actions, conditions) ==
    [effect |-> effect, priority |-> priority, actions |-> actions, conditions |-> conditions]

IsOperator == Condition("credential.role", "in", Array({Str("operator"), Str("admin")}))
IsAdmin == Condition("credential.role", "eq", Str("admin"))
IsNotAdmin == Condition("credential.role", "neq", Str("admin"))
OnRobot1 == Condition("context.resource", "contains", Str("robot1"))
HasClearance == Condition("credential.clearance", "gte", Number(1))
ViewFirst == Condition("context.action", "eq", Str("view"))

AllowOperators == Rule("allow", 100, {"view", "control"}, {IsOperator})
AllowView == Rule("allow", 50, {"view"}, {ViewFirst})
AllowCleared == Rule("allow", 10, {"control"}, {HasClearance})
DenyRobot1 == Rule("deny", 100, {"control"}, {OnRobot1, IsNotAdmin})
DenyAdmin == Rule("deny", 100, {"shell"}, {IsAdmin})

MCDefaultRules == <<AllowOperators>>
MCRuleLists == {<<AllowOperators>>, <<AllowCleared, AllowView, DenyRobot1>>,
                <<DenyRobot1, AllowOperators>>, <<AllowOperators, DenyAdmin>>}
MCPolicyIds == {"default-policy", "night", "day"}

Vc(decodes, iss, sub, vc, subject) ==
    [decodes |-> decodes, iss |-> iss, sub |-> sub, vc |-> vc, subject |-> subject]

Role(role) == "credential.role" :> role
Clearance == "credential.clearance" :> Number(2)

MCVcs == {Vc(TRUE, Str("issuer"), Str("op"), TRUE, Role(Str("operator")) @@ Clearance),
          Vc(TRUE, Str("issuer"), Undefined, TRUE,
             Role(Str("admin")) @@ ("credential.id" :> Str("op"))),
          Vc(TRUE, Str("issuer"), Str("op"), TRUE, Role(Number(1)) @@ Clearance),
          Vc(TRUE, Str("issuer"), Undefined, TRUE, Clearance),
          Vc(TRUE, Undefined, Str("op"), TRUE, Clearance),
          Vc(TRUE, Str("issuer"), Str("op"), FALSE, Clearance),
          Vc(FALSE, Str("issuer"), Str("op"), TRUE, Clearance)}
MCScopes == {<<"view", "control">>, <<"control">>, <<"view", "shell">>, <<>>}

Did(scheme, method, key) == [scheme |-> scheme, method |-> method, key |-> key]
Key(k) == Did("did", "key", k)

MCDids == {Key("k1"), Key("k2"), Key("k3"), Key("other codec"), Did("did", "web", "k1")}
MCIssuers == {Key("k1"), Key("other codec")}

Jwt(decodes, iss, alg, signed, nbf, exp, vc) ==
    [decodes |-> decodes, iss |-> iss, alg |-> alg, signedByIssuer |-> signed,
     nbf |-> nbf, exp |-> exp, vc |-> vc]

MCJwts == {Jwt(TRUE, Key("k1"), "EdDSA", TRUE, 0, 1, TRUE),
           Jwt(TRUE, Key("k1"), "EdDSA", TRUE, 2, 9, TRUE),
           Jwt(TRUE, Key("k1"), "EdDSA", FALSE, 0, 1, TRUE),
           Jwt(TRUE, Key("k1"), "EdDSA", TRUE, 0, 9, FALSE),
           Jwt(TRUE, Key("k1"), "ES256", TRUE, 0, 9, TRUE),
           Jwt(TRUE, Key("k1"), "HS256", TRUE, 0, 9, TRUE),
           Jwt(TRUE, Key("k2"), "EdDSA", TRUE, 0, 9, TRUE),
           Jwt(TRUE, Key("other codec"), "EdDSA", TRUE, 0, 9, TRUE),
           Jwt(FALSE, Key("k1"), "EdDSA", TRUE, 0, 9, TRUE)}
=============================================================================
