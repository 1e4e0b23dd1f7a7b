--------------------------- MODULE AdmissionProofs ---------------------------
(***************************************************************************)
(* Proofs about what decides on a session at the gateway: its policies and *)
(* their versions, the sessions granted on them, the credentials verified  *)
(* and the identifiers cached for them, for any rules, credentials,        *)
(* requests and bounds.                                                    *)
(***************************************************************************)
EXTENDS MCAdmission, ExpiryProofs, FiniteSetTheorems, WellFoundedInduction, TLAPS

AdmissionSpec == AdmissionInit /\ [][AdmissionNext]_admissionVars
CredentialSpec == CredentialInit /\ [][CredentialNext]_credentialVars

-----------------------------------------------------------------------------
(* Natural numbers                                                         *)

(* The natural numbers are well ordered. *)
LEMMA Smallest ==
    ASSUME NEW T \in SUBSET Nat, T # {}
    PROVE  \E x \in T : \A y \in T : x <= y
<1>1. PICK x \in T : \A y \in T : ~(<<y, x>> \in OpToRel(<, Nat))
  BY WFMin, NatLessThanWellFounded
<1>2. \A y \in T : ~(y < x)
  BY <1>1 DEF OpToRel
<1> QED
  BY <1>2

-----------------------------------------------------------------------------
(* The store                                                               *)

Versions == {NewPolicy(rules, v) : rules \in RuleLists, v \in 1..MaxVersions}

(* The versions h of a policy whose current one is p. *)
Chain(h, p) ==
    /\ h \in Seq(Versions)
    /\ \A v \in 1..Len(h) : h[v].version = v
    /\ p = IF h = <<>> THEN NoPolicy ELSE h[Len(h)]

StoreInv ==
    /\ DOMAIN policies = PolicyIds /\ DOMAIN history = PolicyIds
    /\ \A id \in PolicyIds : Chain(history[id], policies[id])

(* What a version is made of. *)
LEMMA VersionParts ==
    /\ NoPolicy \notin Versions
    /\ \A p \in Versions : /\ p.version \in 1..MaxVersions /\ p.rules \in RuleLists
                            /\ p.hash = p.rules
    /\ \A rules \in RuleLists, v \in 1..MaxVersions : NewPolicy(rules, v) \in Versions
    /\ MaxVersions \in Nat /\ 1 \in 1..MaxVersions
  BY PolicyAssumption DEF PolicyAssumption, Versions, NewPolicy, computeRulesHash

(* A chain of one version, and of none. *)
LEMMA ChainBegins ==
    ASSUME NEW rules \in RuleLists
    PROVE  /\ Chain(<<NewPolicy(rules, 1)>>, NewPolicy(rules, 1))
           /\ Chain(<<>>, NoPolicy)
<1>1. NewPolicy(rules, 1) \in Versions /\ NewPolicy(rules, 1).version = 1
  BY VersionParts DEF NewPolicy
<1> QED
  BY <1>1 DEF Chain

(* A chain that has a current version is not empty, and that one is its     *)
(* last.                                                                    *)
LEMMA ChainCurrent ==
    ASSUME NEW h, NEW p, Chain(h, p), p # NoPolicy
    PROVE  /\ Len(h) \in Nat /\ 0 < Len(h) /\ p = h[Len(h)] /\ p \in Versions
           /\ p.version = Len(h)
<1>1. h \in Seq(Versions) /\ h # <<>> /\ p = h[Len(h)]
  BY DEF Chain
<1>2. Len(h) \in Nat /\ 0 < Len(h) /\ p \in Versions
  BY <1>1
<1> QED
  BY <1>1, <1>2 DEF Chain

(* A chain grows by the version after its current one. *)
LEMMA ChainGrows ==
    ASSUME NEW h, NEW p, Chain(h, p), p # NoPolicy, p.version < MaxVersions,
           NEW rules \in RuleLists
    PROVE  Chain(Append(h, NewPolicy(rules, p.version + 1)), NewPolicy(rules, p.version + 1))
<1> DEFINE new == NewPolicy(rules, p.version + 1)
           g == Append(h, new)
<1>1. h \in Seq(Versions) /\ \A v \in 1..Len(h) : h[v].version = v
  BY DEF Chain
<1>2. Len(h) \in Nat /\ p.version = Len(h)
  BY ChainCurrent
<1>3. Len(h) + 1 \in 1..MaxVersions
  BY <1>2, VersionParts
<1>4. new \in Versions /\ new.version = Len(h) + 1
  BY <1>2, <1>3, VersionParts DEF NewPolicy
<1> HIDE DEF new
<1>5. g \in Seq(Versions) /\ Len(g) = Len(h) + 1 /\ g[Len(g)] = new /\ g # <<>>
  BY <1>1, <1>4
<1>6. ASSUME NEW v \in 1..Len(g) PROVE g[v].version = v
  <2>1. CASE v = Len(h) + 1
    BY <1>4, <1>5, <2>1
  <2>2. CASE v # Len(h) + 1
    <3>1. v \in 1..Len(h)
      BY <1>2, <1>5, <2>2
    <3>2. g[v] = h[v]
      BY <1>1, <1>4, <3>1
    <3> QED
      BY <1>1, <3>1, <3>2
  <2> QED
    BY <2>1, <2>2
<1> QED
  BY <1>5, <1>6 DEF Chain, new

(* What getByVersion answers for a chain. *)
LEMMA ByVersion ==
    ASSUME NEW id \in PolicyIds, StoreInv
    PROVE  /\ \A v \in 1..Len(history[id]) : getByVersion(id, v) = history[id][v]
           /\ \A v : getByVersion(id, v) # NoPolicy =>
                       getByVersion(id, v) \in Versions
<1> DEFINE h == history[id]
<1>1. h \in Seq(Versions) /\ \A v \in 1..Len(h) : h[v].version = v
  BY DEF StoreInv, Chain
<1>2. DOMAIN h = 1..Len(h) /\ \A v \in 1..Len(h) : h[v] \in Versions
  BY <1>1
<1>3. ToSet(h) = {h[i] : i \in 1..Len(h)}
  BY <1>2 DEF ToSet
<1> HIDE DEF h
<1>4. ASSUME NEW v \in 1..Len(h) PROVE {p \in ToSet(h) : p.version = v} = {h[v]}
  BY <1>1, <1>3, <1>4
<1>5. ASSUME NEW v \in 1..Len(h) PROVE getByVersion(id, v) = h[v]
  BY <1>4 DEF getByVersion, h
<1>6. ASSUME NEW v, getByVersion(id, v) # NoPolicy PROVE getByVersion(id, v) \in ToSet(h)
  BY <1>6 DEF getByVersion, h
<1> QED
  BY <1>2, <1>3, <1>5, <1>6 DEF h

(* What a step does to the store. *)
StoreStep ==
    \/ \E id \in PolicyIds, rules \in RuleLists : create(id, rules) \/ update(id, rules)
    \/ \E id \in PolicyIds : delete(id)
    \/ clear
    \/ UNCHANGED storeVars

LEMMA StepsOfStore == [AdmissionNext]_admissionVars => StoreStep
  BY DEF AdmissionNext, admissionVars, storeVars, StoreStep, PostSession, Grant, GenerateFails,
         PolicyStep, ClearPolicies

(* Every operation of the store keeps its chains. *)
LEMMA StoreStepInv ==
    ASSUME StoreInv, StoreStep PROVE StoreInv'
<1>1. ASSUME NEW id \in PolicyIds, NEW rules \in RuleLists, create(id, rules) PROVE StoreInv'
  BY <1>1, ChainBegins DEF create, StoreInv
<1>2. ASSUME NEW id \in PolicyIds, NEW rules \in RuleLists, update(id, rules) PROVE StoreInv'
  <2> DEFINE new == NewPolicy(rules, policies[id].version + 1)
  <2>1. policies' = [policies EXCEPT ![id] = new]
    BY <1>2 DEF update
  <2>2. history' = [history EXCEPT ![id] = Append(history[id], new)]
    BY <1>2, <2>1 DEF update, StoreInv
  <2>3. Chain(Append(history[id], new), new)
    BY <1>2, ChainGrows DEF update, StoreInv
  <2> HIDE DEF new
  <2> QED
    BY <2>1, <2>2, <2>3 DEF StoreInv
<1>3. ASSUME NEW id \in PolicyIds, delete(id) PROVE StoreInv'
  BY <1>3, ChainBegins, AdmissionAssumption DEF delete, StoreInv, AdmissionAssumption
<1>4. CASE clear
  BY <1>4, ChainBegins, AdmissionAssumption DEF clear, StoreInv, AdmissionAssumption
<1>5. CASE UNCHANGED storeVars
  BY <1>5 DEF storeVars, StoreInv
<1> QED
  BY <1>1, <1>2, <1>3, <1>4, <1>5 DEF StoreStep

(* The store starts with the default policy. *)
LEMMA InitStore == AdmissionInit => StoreInv
  BY ChainBegins, AdmissionAssumption DEF AdmissionInit, StoreInv, AdmissionAssumption

LEMMA StoreInvariant == AdmissionSpec => []StoreInv
  BY InitStore, StepsOfStore, StoreStepInv, PTL DEF AdmissionSpec

(* The history of every policy is all its versions since it was created, in *)
(* order and without a gap, the current one last, each found by its number  *)
(* with the hash of its rules; nothing is left of a policy that is gone.    *)
THEOREM HistoryIsComplete == AdmissionSpec => []HistoryComplete
<1>1. ASSUME StoreInv PROVE HistoryComplete
  <2> SUFFICES ASSUME NEW id \in PolicyIds
               PROVE  /\ policies[id] = NoPolicy <=> history[id] = <<>>
                      /\ policies[id] # NoPolicy => policies[id] = Last(history[id])
                      /\ \A v \in DOMAIN history[id] :
                           /\ getByVersion(id, v) = history[id][v]
                           /\ history[id][v].version = v
                           /\ history[id][v].hash = computeRulesHash(history[id][v].rules)
    BY DEF HistoryComplete
  <2>1. /\ history[id] \in Seq(Versions)
        /\ \A v \in 1..Len(history[id]) : history[id][v].version = v
        /\ policies[id] = IF history[id] = <<>> THEN NoPolicy
                          ELSE history[id][Len(history[id])]
    BY <1>1 DEF StoreInv, Chain
  <2>2. /\ DOMAIN history[id] = 1..Len(history[id])
        /\ \A v \in 1..Len(history[id]) : history[id][v] \in Versions
        /\ history[id] # <<>> => history[id][Len(history[id])] \in Versions
    BY <2>1
  <2>3. policies[id] = NoPolicy <=> history[id] = <<>>
    BY <2>1, <2>2, VersionParts
  <2>4. policies[id] # NoPolicy => policies[id] = Last(history[id])
    BY <2>1, <2>3 DEF Last
  <2>5. ASSUME NEW v \in DOMAIN history[id]
        PROVE  /\ getByVersion(id, v) = history[id][v]
               /\ history[id][v].version = v
               /\ history[id][v].hash = computeRulesHash(history[id][v].rules)
    BY <1>1, <2>1, <2>2, ByVersion, VersionParts DEF computeRulesHash
  <2> QED
    BY <2>3, <2>4, <2>5
<1> QED
  BY <1>1, StoreInvariant, PTL

-----------------------------------------------------------------------------
(* The sessions granted                                                    *)

(* An answer that carries a token, or will. *)
Answered(r) == r.state \in {"awaiting", "granted"}

IsGrant(r) == r = [state |-> r.state, scope |-> r.scope, context |-> r.context,
                   policy |-> r.policy, allowed |-> r.allowed]

(* The rules the policy of r was made of allow the request. *)
Passed(r) ==
    /\ IsGrant(r)
    /\ evaluate(r.policy.hash, r.context, ToSet(r.scope)).decision = "allow"

(* The version that r names is still there, with those rules. *)
Kept(r) ==
    /\ r.policy.version \in 1..Len(history[DEFAULT_POLICY_ID])
    /\ history[DEFAULT_POLICY_ID][r.policy.version].hash = r.policy.hash

GrantInv ==
    /\ DOMAIN application = Applications
    /\ configured => \A a \in Applications :
         Answered(application[a]) =>
           Passed(application[a]) /\ (a \notin forgotten => Kept(application[a]))

(* A version once there stays until its policy is deleted. *)
LEMMA VersionsStay ==
    ASSUME StoreInv,
           \/ \E id \in PolicyIds, rules \in RuleLists : create(id, rules) \/ update(id, rules)
           \/ \E id \in PolicyIds \ {DEFAULT_POLICY_ID} : delete(id)
           \/ UNCHANGED storeVars,
           NEW r, Kept(r)
    PROVE  Kept(r)'
<1> DEFINE h == history[DEFAULT_POLICY_ID]
           v == r.policy.version
<1>1. h \in Seq(Versions) /\ DOMAIN history = PolicyIds /\ DEFAULT_POLICY_ID \in PolicyIds
  BY AdmissionAssumption DEF AdmissionAssumption, StoreInv, Chain
<1>2. v \in 1..Len(h) /\ h[v].hash = r.policy.hash
  BY DEF Kept
<1>3. h # <<>>
  BY <1>1, <1>2
<1>4. CASE history'[DEFAULT_POLICY_ID] = h
  BY <1>2, <1>4 DEF Kept
<1>5. ASSUME NEW new \in Versions, history'[DEFAULT_POLICY_ID] = Append(h, new) PROVE Kept(r)'
  <2>1. Len(Append(h, new)) = Len(h) + 1 /\ Append(h, new)[v] = h[v] /\ Len(h) \in Nat
    BY <1>1, <1>2
  <2>2. v \in 1..Len(Append(h, new))
    BY <1>2, <2>1
  <2> HIDE DEF h
  <2> QED
    BY <1>2, <1>5, <2>1, <2>2 DEF Kept
<1>6. ASSUME NEW id \in PolicyIds, NEW rules \in RuleLists, create(id, rules) PROVE Kept(r)'
  <2>1. policies[DEFAULT_POLICY_ID] # NoPolicy
    <3>1. h[Len(h)] \in Versions
      BY <1>1, <1>3
    <3> QED
      BY <1>1, <1>3, <3>1, VersionParts DEF StoreInv, Chain
  <2>2. id # DEFAULT_POLICY_ID
    BY <1>6, <2>1 DEF create
  <2> QED
    BY <1>1, <1>4, <1>6, <2>2 DEF create
<1>7. ASSUME NEW id \in PolicyIds, NEW rules \in RuleLists, update(id, rules) PROVE Kept(r)'
  <2>1. CASE id # DEFAULT_POLICY_ID
    BY <1>1, <1>4, <1>7, <2>1 DEF update
  <2>2. CASE id = DEFAULT_POLICY_ID
    <3> DEFINE p == policies[DEFAULT_POLICY_ID]
               new == NewPolicy(rules, p.version + 1)
    <3>1. history'[DEFAULT_POLICY_ID] = Append(h, new)
      BY <1>1, <1>7, <2>2 DEF update, StoreInv
    <3>2. p # NoPolicy /\ p.version < MaxVersions /\ p \in Versions
      BY <1>1, <1>7, <2>2, ChainCurrent DEF update, StoreInv
    <3>3. p.version + 1 \in 1..MaxVersions
      <4>1. p.version \in 1..MaxVersions /\ MaxVersions \in Nat
        BY <3>2, VersionParts
      <4> HIDE DEF p
      <4> QED
        BY <3>2, <4>1
    <3>4. new \in Versions
      BY <3>3, VersionParts
    <3> QED
      BY <1>5, <3>1, <3>4
  <2> QED
    BY <2>1, <2>2
<1>8. ASSUME NEW id \in PolicyIds \ {DEFAULT_POLICY_ID}, delete(id) PROVE Kept(r)'
  BY <1>1, <1>4, <1>8 DEF delete
<1> QED
  BY <1>4, <1>6, <1>7, <1>8 DEF storeVars

(* Every step keeps what is known of the answers. *)
LEMMA StepGrants ==
    ASSUME StoreInv, GrantInv, [AdmissionNext]_admissionVars PROVE GrantInv'
<1> USE DEF GrantInv
<1>1. ASSUME NEW a \in Applications, NEW vc \in Vcs, NEW resource \in Resources,
             NEW scope \in Scopes, PostSession(a, vc, resource, scope)
      PROVE  GrantInv'
  <2> DEFINE policy == policies[DEFAULT_POLICY_ID]
             context == buildEvaluationContext(extractCredentialForPolicy(vc), resource, scope)
             result == evaluate(policy.rules, context, ToSet(scope))
             r == application'[a]
  <2>1. /\ UNCHANGED <<storeVars, configured>> /\ forgotten' = forgotten \ {a}
        /\ \E x : application' = [application EXCEPT ![a] = x]
    BY <1>1 DEF PostSession, refuse, await
  <2>2. ASSUME NEW b \in Applications, b # a
        PROVE  application'[b] = application[b] /\ (b \in forgotten' <=> b \in forgotten)
    BY <2>1, <2>2
  <2>3. ASSUME configured, Answered(r)
        PROVE  /\ policy # NoPolicy
               /\ r = [state |-> "awaiting", scope |-> scope, context |-> context,
                       policy |-> [version |-> policy.version, hash |-> policy.hash],
                       allowed |-> result.allowedActions]
               /\ result.decision # "deny"
    BY <1>1, <2>3 DEF PostSession, refuse, await, Answered
  <2>4. ASSUME configured, Answered(r) PROVE Passed(r) /\ Kept(r)
    <3>1. /\ Len(history[DEFAULT_POLICY_ID]) \in Nat /\ 0 < Len(history[DEFAULT_POLICY_ID])
          /\ policy = history[DEFAULT_POLICY_ID][Len(history[DEFAULT_POLICY_ID])]
          /\ policy \in Versions /\ policy.version = Len(history[DEFAULT_POLICY_ID])
      BY <2>3, <2>4, ChainCurrent, AdmissionAssumption DEF StoreInv, AdmissionAssumption
    <3>2. policy.hash = policy.rules
      BY <3>1, VersionParts
    <3>3. result.decision = "allow"
      BY <2>3, <2>4 DEF evaluate
    <3>4. r.policy.version = policy.version /\ r.policy.hash = policy.hash
          /\ r.context = context /\ r.scope = scope /\ IsGrant(r)
      BY <2>3, <2>4 DEF IsGrant
    <3>5. Passed(r)
      BY <3>2, <3>3, <3>4 DEF Passed
    <3>6. Kept(r)
      BY <3>1, <3>4 DEF Kept
    <3> QED
      BY <3>5, <3>6
  <2>5. history' = history /\ configured' = configured
    BY <2>1 DEF storeVars
  <2> QED
    BY <2>1, <2>2, <2>4, <2>5 DEF Kept
<1>2. ASSUME NEW a \in Applications, Grant(a) PROVE GrantInv'
  <2>1. /\ application[a].state = "awaiting"
        /\ application' = [application EXCEPT ![a].state = "granted"]
        /\ UNCHANGED <<storeVars, configured, forgotten>>
    BY <1>2 DEF Grant
  <2>2. ASSUME configured
        PROVE  /\ IsGrant(application'[a])
               /\ application'[a].policy = application[a].policy
               /\ application'[a].scope = application[a].scope
               /\ application'[a].context = application[a].context
    BY <2>1, <2>2 DEF Answered, Passed, IsGrant
  <2>3. history' = history /\ configured' = configured /\ forgotten' = forgotten
    BY <2>1 DEF storeVars
  <2>4. ASSUME configured
        PROVE  Passed(application[a]) /\ (a \notin forgotten => Kept(application[a]))
    BY <2>1, <2>4 DEF Answered
  <2>5. ASSUME configured PROVE Passed(application'[a])
    <3>1. evaluate(application[a].policy.hash, application[a].context,
                   ToSet(application[a].scope)).decision = "allow"
      BY <2>4, <2>5 DEF Passed
    <3>2. evaluate(application'[a].policy.hash, application'[a].context,
                   ToSet(application'[a].scope)).decision = "allow"
      BY <2>2, <2>5, <3>1
    <3> QED
      BY <2>2, <2>5, <3>2 DEF Passed
  <2>6. ASSUME configured, a \notin forgotten PROVE Kept(application[a])'
    BY <2>2, <2>3, <2>4, <2>6 DEF Kept
  <2>7. ASSUME NEW x \in Applications, x # a PROVE application'[x] = application[x]
    BY <2>1, <2>7
  <2>8. \A r : Kept(r)' <=> Kept(r)
    BY <2>3 DEF Kept
  <2>9. DOMAIN application' = Applications
    BY <2>1
  <2>10. ASSUME configured', NEW x \in Applications, Answered(application'[x])
         PROVE  Passed(application'[x]) /\ (x \notin forgotten' => Kept(application[x])')
    <3>1. CASE x = a
      BY <2>3, <2>5, <2>6, <2>10, <3>1
    <3>2. CASE x # a
      BY <2>3, <2>7, <2>8, <2>10, <3>2
    <3> QED
      BY <3>1, <3>2
  <2>11. \A x \in Applications : configured' /\ Answered(application'[x]) =>
           Passed(application'[x]) /\ (x \notin forgotten' => Kept(application[x])')
    BY <2>10
  <2> QED
    BY <2>9, <2>11 DEF Answered, Passed, IsGrant
<1>3. ASSUME NEW a \in Applications, GenerateFails(a) PROVE GrantInv'
  BY <1>3 DEF GenerateFails, refuse, Answered, Kept, storeVars
<1>4. CASE PolicyStep
  <2>1. CASE \E rules \in RuleLists, id \in PolicyIds :
               (create(id, rules) \/ update(id, rules)) /\ UNCHANGED forgotten
    <3>1. \A r : Kept(r) => Kept(r)'
      BY <2>1, VersionsStay
    <3> QED
      BY <1>4, <2>1, <3>1 DEF PolicyStep
  <2>2. ASSUME NEW id \in PolicyIds \ {DEFAULT_POLICY_ID}, delete(id), UNCHANGED forgotten
        PROVE  GrantInv'
    <3>1. \A r : Kept(r) => Kept(r)'
      BY <2>2, VersionsStay
    <3> QED
      BY <1>4, <2>2, <3>1 DEF PolicyStep
  <2>3. CASE forgotten' = Applications
    BY <1>4, <2>3 DEF PolicyStep
  <2> QED
    BY <1>4, <2>1, <2>2, <2>3 DEF PolicyStep
<1>5. CASE ClearPolicies
  BY <1>5 DEF ClearPolicies
<1>6. CASE UNCHANGED admissionVars
  BY <1>6 DEF admissionVars, storeVars, Kept
<1> QED
  BY <1>1, <1>2, <1>3, <1>4, <1>5, <1>6 DEF AdmissionNext

(* A session granted can be accounted for: the version its answer names is  *)
(* in the store with the hash it gives, and allows the request, whatever    *)
(* became of the policy since; only deleting the policy loses it, and no    *)
(* later policy passes for it that would not have allowed the request.      *)
THEOREM GrantsAreAccountable == AdmissionSpec => []GrantIsAccountable
<1>1. AdmissionInit => GrantInv
  BY DEF AdmissionInit, GrantInv, NotAsked, Answered
<1>2. ASSUME StoreInv, GrantInv PROVE GrantIsAccountable
  <2> SUFFICES ASSUME configured, NEW a \in Granted
               PROVE  LET policy == application[a].policy
                          found == getByVersion(DEFAULT_POLICY_ID, policy.version)
                      IN  /\ a \notin forgotten => found # NoPolicy /\ found.hash = policy.hash
                          /\ (found # NoPolicy /\ found.hash = policy.hash) =>
                               evaluate(found.rules, application[a].context,
                                        ToSet(application[a].scope)).decision = "allow"
    BY DEF GrantIsAccountable
  <2> DEFINE policy == application[a].policy
             found == getByVersion(DEFAULT_POLICY_ID, policy.version)
  <2>1. a \in Applications /\ Passed(application[a]) /\ (a \notin forgotten => Kept(application[a]))
    BY <1>2 DEF Granted, GrantInv, Answered
  <2>2. /\ \A v \in 1..Len(history[DEFAULT_POLICY_ID]) :
              getByVersion(DEFAULT_POLICY_ID, v) = history[DEFAULT_POLICY_ID][v]
        /\ \A v : getByVersion(DEFAULT_POLICY_ID, v) # NoPolicy =>
                     getByVersion(DEFAULT_POLICY_ID, v) \in Versions
    BY <1>2, ByVersion, AdmissionAssumption DEF AdmissionAssumption
  <2>3. ASSUME a \notin forgotten PROVE found # NoPolicy /\ found.hash = policy.hash
    <3>1. found = history[DEFAULT_POLICY_ID][policy.version] /\ found.hash = policy.hash
      BY <2>1, <2>2, <2>3 DEF Kept
    <3>2. history[DEFAULT_POLICY_ID] \in Seq(Versions)
      BY <1>2, AdmissionAssumption DEF AdmissionAssumption, StoreInv, Chain
    <3>3. found \in Versions
      BY <2>1, <2>3, <3>1, <3>2 DEF Kept
    <3> QED
      BY <3>1, <3>3, VersionParts
  <2>4. ASSUME found # NoPolicy, found.hash = policy.hash
        PROVE  evaluate(found.rules, application[a].context,
                        ToSet(application[a].scope)).decision = "allow"
    <3>1. found.rules = policy.hash
      BY <2>2, <2>4, VersionParts
    <3> QED
      BY <2>1, <3>1 DEF Passed
  <2> QED
    BY <2>3, <2>4
<1>3. StoreInv /\ GrantInv /\ [AdmissionNext]_admissionVars => GrantInv'
  BY StepGrants
<1> QED
  BY <1>1, <1>2, <1>3, StoreInvariant, PTL DEF AdmissionSpec

-----------------------------------------------------------------------------
(* Credentials                                                             *)

Genuine(v) ==
    /\ v.jwt.decodes
    /\ v.jwt.iss \in v.issuers
    /\ resolveDIDKey(v.jwt.iss).error = "none"
    /\ v.jwt.alg = "EdDSA" /\ v.jwt.signedByIssuer

(* What the steps before the await have checked of a call, and what holds   *)
(* of one that is done.                                                     *)
CallInv ==
    /\ now \in Nat
    /\ verification.state = "awaiting" =>
         /\ verification.jwt \in Jwts /\ verification.jwt.decodes
         /\ verification.jwt.iss \in verification.issuers
         /\ resolveDIDKey(verification.jwt.iss).error = "none"
    /\ VerdictIsRight

(* What jwtVerify answers, by the clock and the signature. *)
LEMMA JwtVerdicts ==
    ASSUME NEW jwt \in Jwts, now \in Nat
    PROVE  /\ jwtVerify(jwt) = "ok" <=> jwt.signedByIssuer /\ InTime(jwt, now)
           /\ jwtVerify(jwt) \in {"credential_expired", "credential_not_yet_valid"} <=>
                jwt.signedByIssuer /\ ~InTime(jwt, now)
           /\ jwtVerify(jwt) # "valid" /\ jwtVerify(jwt) # "ok" =>
                jwtVerify(jwt) \in {"invalid_signature", "credential_expired",
                                    "credential_not_yet_valid"}
<1>1. jwt.nbf \in Int /\ jwt.exp \in Int /\ clockSkew \in Nat
  BY CredentialAssumption DEF CredentialAssumption
<1>2. jwt.nbf > now + clockSkew <=> ~(jwt.nbf - clockSkew <= now)
  BY <1>1
<1>3. jwt.exp <= now - clockSkew <=> ~(now < jwt.exp + clockSkew)
  BY <1>1
<1> QED
  BY <1>2, <1>3 DEF jwtVerify, InTime

(* Every step keeps what is known of the call. *)
LEMMA StepCall ==
    ASSUME CallInv, [CredentialNext]_credentialVars PROVE CallInv'
<1>1. now' \in Nat
  <2>1. now' = now \/ now' = now + 1
    BY DEF CredentialNext, credentialVars, cacheVars, add, remove, createJwtVcVerifier,
           Verify, VerifySignature, ResolverStep, resolve, clearCache, PassTime
  <2>2. now \in Nat
    BY DEF CallInv
  <2> QED
    BY <2>1, <2>2
<1>2. CASE UNCHANGED verification
  BY <1>1, <1>2 DEF CallInv, VerdictIsRight
<1>3. CASE createJwtVcVerifier
  BY <1>1, <1>3 DEF createJwtVcVerifier, NotVerifying, CallInv, VerdictIsRight
<1>4. ASSUME NEW jwt \in Jwts, Verify(jwt) PROVE CallInv'
  <2>1. CASE \E v \in {"invalid_jwt", "untrusted_issuer", "issuer_resolution_failed",
                        "unsupported_algorithm"} :
               Verdict(jwt, v) /\ ~(Genuine([jwt |-> jwt, issuers |-> trustedIssuers]))
    <3>1. PICK v \in {"invalid_jwt", "untrusted_issuer", "issuer_resolution_failed",
                      "unsupported_algorithm"} :
            verification' = [state |-> "done", jwt |-> jwt, verdict |-> v,
                             at |-> now, issuers |-> trustedIssuers]
      BY <2>1 DEF Verdict
    <3>2. ~Genuine(verification')
      BY <2>1, <3>1 DEF Genuine
    <3> QED
      BY <1>1, <3>1, <3>2 DEF CallInv, VerdictIsRight, Genuine
  <2>2. CASE /\ verification' = [state |-> "awaiting", jwt |-> jwt, issuers |-> trustedIssuers]
             /\ extractIssuer(jwt) /\ validateIssuerTrust(jwt) /\ resolveVerificationMethod(jwt)
    BY <1>1, <2>2 DEF CallInv, VerdictIsRight, extractIssuer, validateIssuerTrust,
                      resolveVerificationMethod
  <2> QED
    BY <1>4, <2>1, <2>2 DEF Verify, Genuine, extractIssuer, validateIssuerTrust,
                            resolveVerificationMethod, validateAlgorithm, SUPPORTED_ALGORITHMS
<1>5. CASE VerifySignature
  <2> DEFINE jwt == verification.jwt
             verdict == IF ~multibaseToKey(jwt) THEN "import failed"
                        ELSE IF jwtVerify(jwt) # "ok" THEN jwtVerify(jwt)
                        ELSE IF ~jwt.vc THEN "missing_vc_claim" ELSE "valid"
  <2>1. verification' = [state |-> "done", jwt |-> jwt, at |-> now,
                         issuers |-> verification.issuers, verdict |-> verdict]
    BY <1>5 DEF VerifySignature
  <2>2. /\ jwt \in Jwts /\ jwt.decodes /\ jwt.iss \in verification.issuers
        /\ resolveDIDKey(jwt.iss).error = "none" /\ now \in Nat
    BY <1>5 DEF VerifySignature, CallInv
  <2>3. Genuine(verification') <=> multibaseToKey(jwt) /\ jwt.signedByIssuer
    BY <2>1, <2>2 DEF Genuine, multibaseToKey
  <2>4. verdict = "valid" <=> multibaseToKey(jwt) /\ jwtVerify(jwt) = "ok" /\ jwt.vc
    BY DEF jwtVerify
  <2>5. verdict \in {"credential_expired", "credential_not_yet_valid"} <=>
          /\ multibaseToKey(jwt)
          /\ jwtVerify(jwt) \in {"credential_expired", "credential_not_yet_valid"}
    BY DEF jwtVerify
  <2> HIDE DEF verdict
  <2>6. verdict = "valid" <=> Genuine(verification') /\ InTime(jwt, now) /\ jwt.vc
    BY <2>2, <2>3, <2>4, JwtVerdicts
  <2>7. verdict \in {"credential_expired", "credential_not_yet_valid"} <=>
          Genuine(verification') /\ ~InTime(jwt, now)
    BY <2>2, <2>3, <2>5, JwtVerdicts
  <2>8. VerdictIsRight'
    BY <2>1, <2>6, <2>7 DEF VerdictIsRight, Genuine
  <2> QED
    BY <1>1, <2>1, <2>8 DEF CallInv
<1> QED
  BY <1>2, <1>3, <1>4, <1>5 DEF CredentialNext, credentialVars, add, remove, ResolverStep

(* A credential is found valid exactly if its issuer was trusted when the   *)
(* verifier was created and signed it with the key its identifier holds and *)
(* if its time is right when the signature has been checked, whatever       *)
(* passes during the awaits and whatever the cache remembers.               *)
THEOREM VerdictsAreRight == CredentialSpec => []VerdictIsRight
<1>1. CredentialInit => CallInv
  BY DEF CredentialInit, CacheInit, NotVerifying, CallInv, VerdictIsRight
<1>2. CallInv => VerdictIsRight
  BY DEF CallInv
<1> QED
  BY <1>1, <1>2, StepCall, PTL DEF CredentialSpec

-----------------------------------------------------------------------------
(* Types                                                                   *)

(* The store is finite and within its limit. *)
LimitInv == IsFiniteSet(Stored) /\ Cardinality(Stored) <= maxPolicies

(* Every operation of the store keeps the limit. *)
LEMMA StoreStepLimit ==
    ASSUME StoreInv, LimitInv, StoreStep PROVE LimitInv'
<1>1. ASSUME NEW id \in PolicyIds, NEW rules \in RuleLists, create(id, rules) PROVE LimitInv'
  <2>1. Stored' \subseteq Stored \cup {id}
    BY <1>1 DEF create, Stored, StoreInv
  <2>2. /\ IsFiniteSet(Stored \cup {id}) /\ Cardinality(Stored \cup {id}) <= Cardinality(Stored) + 1
        /\ Cardinality(Stored) \in Nat /\ Cardinality(Stored \cup {id}) \in Nat
    <3>1. IsFiniteSet(Stored) /\ Cardinality(Stored) \in Nat
      BY FS_CardinalityType DEF LimitInv
    <3>2. /\ IsFiniteSet(Stored \cup {id})
          /\ Cardinality(Stored \cup {id}) =
               IF id \in Stored THEN Cardinality(Stored) ELSE Cardinality(Stored) + 1
      BY <3>1, FS_AddElement
    <3> QED
      BY <3>1, <3>2
  <2>3. /\ IsFiniteSet(Stored') /\ Cardinality(Stored') <= Cardinality(Stored \cup {id})
        /\ Cardinality(Stored') \in Nat
    BY <2>1, <2>2, FS_Subset, FS_CardinalityType
  <2>4. Cardinality(Stored) < maxPolicies /\ maxPolicies \in Nat
    BY <1>1, PolicyAssumption DEF create, PolicyAssumption
  <2> QED
    BY <2>2, <2>3, <2>4 DEF LimitInv
<1>2. ASSUME Stored' \subseteq Stored PROVE LimitInv'
  <2>1. /\ IsFiniteSet(Stored') /\ Cardinality(Stored') <= Cardinality(Stored)
        /\ Cardinality(Stored') \in Nat /\ Cardinality(Stored) \in Nat
    BY <1>2, FS_Subset, FS_CardinalityType DEF LimitInv
  <2> QED
    BY <2>1, PolicyAssumption DEF LimitInv, PolicyAssumption
<1>3. ASSUME NEW id \in PolicyIds, NEW rules \in RuleLists, update(id, rules)
      PROVE  Stored' \subseteq Stored
  BY <1>3 DEF update, Stored, StoreInv
<1>4. CASE \/ \E id \in PolicyIds : delete(id)
           \/ clear
           \/ UNCHANGED storeVars
  BY <1>2, <1>4 DEF delete, clear, storeVars, Stored, StoreInv
<1> QED
  BY <1>1, <1>2, <1>3, <1>4 DEF StoreStep

(* The variables of the route keep their types. *)
RouteTypeOK ==
    /\ configured \in BOOLEAN
    /\ DOMAIN application = Applications
    /\ \A a \in Applications :
         application[a].state \in {"none", "refused", "awaiting", "granted"}
    /\ forgotten \subseteq Applications

LEMMA StepRoute ==
    ASSUME RouteTypeOK, [AdmissionNext]_admissionVars PROVE RouteTypeOK'
<1> USE DEF RouteTypeOK
<1>1. ASSUME NEW a \in Applications, NEW vc \in Vcs, NEW resource \in Resources,
             NEW scope \in Scopes, PostSession(a, vc, resource, scope)
      PROVE  RouteTypeOK'
  <2>1. configured' = configured /\ forgotten' = forgotten \ {a}
    BY <1>1 DEF PostSession
  <2>2. \E r : /\ application' = [application EXCEPT ![a] = r]
               /\ r.state \in {"refused", "awaiting"}
    BY <1>1 DEF PostSession, refuse, await
  <2> QED
    BY <2>1, <2>2
<1>2. ASSUME NEW a \in Applications, Grant(a) PROVE RouteTypeOK'
  <2>1. application[a].state = "awaiting"
    BY <1>2 DEF Grant
  <2>2. application' = [application EXCEPT ![a] = [application[a] EXCEPT !.state = "granted"]]
    BY <1>2 DEF Grant
  <2>3. ASSUME NEW x \in Applications
        PROVE  application'[x].state \in {"none", "refused", "awaiting", "granted"}
    BY <2>1, <2>2, <2>3
  <2> QED
    BY <1>2, <2>2, <2>3 DEF Grant
<1>3. ASSUME NEW a \in Applications, GenerateFails(a) PROVE RouteTypeOK'
  BY <1>3 DEF GenerateFails, refuse
<1>4. CASE PolicyStep \/ ClearPolicies \/ UNCHANGED admissionVars
  BY <1>4 DEF PolicyStep, ClearPolicies, admissionVars
<1> QED
  BY <1>1, <1>2, <1>3, <1>4 DEF AdmissionNext

(* Every variable of the admission keeps its type, and the store its limit. *)
THEOREM AdmissionTypeCorrect == AdmissionSpec => []AdmissionTypeOK
<1>1. AdmissionInit => RouteTypeOK
  BY DEF AdmissionInit, RouteTypeOK, NotAsked
<1>2. ASSUME AdmissionInit PROVE LimitInv
  <2>1. Stored \subseteq {DEFAULT_POLICY_ID}
    BY <1>2 DEF AdmissionInit, Stored
  <2>2. IsFiniteSet({DEFAULT_POLICY_ID}) /\ Cardinality({DEFAULT_POLICY_ID}) = 1
    BY FS_Singleton
  <2>3. IsFiniteSet(Stored) /\ Cardinality(Stored) <= 1 /\ Cardinality(Stored) \in Nat
    BY <2>1, <2>2, FS_Subset, FS_CardinalityType
  <2> QED
    BY <2>3, PolicyAssumption DEF LimitInv, PolicyAssumption
<1>3. ASSUME StoreInv, LimitInv, RouteTypeOK PROVE AdmissionTypeOK
  <2>1. \A id \in Stored : policies[id] \in Versions
    BY <1>3, ChainCurrent DEF StoreInv, Stored
  <2> QED
    BY <1>3, <2>1, VersionParts DEF AdmissionTypeOK, LimitInv, RouteTypeOK
<1>4. StoreInv /\ LimitInv /\ [AdmissionNext]_admissionVars => LimitInv'
  BY StepsOfStore, StoreStepLimit
<1> QED
  BY <1>1, <1>2, <1>3, <1>4, StepRoute, StoreInvariant, PTL DEF AdmissionSpec

(* Entries of the cache are identifiers and expire within a lifetime of the *)
(* last instant.                                                            *)
LEMMA ResolveTypes ==
    ASSUME CacheTypeOK, NEW did \in Dids, resolve(did) PROVE CacheTypeOK'
<1>1. now \in 0..MaxNow /\ now' = now
  BY DEF CacheTypeOK, resolve
<1>2. now + lifetime \in 0..(MaxNow + lifetime)
  BY <1>1, CacheAssumption DEF CacheAssumption
<1>3. CASE entries' = entries
  BY <1>1, <1>3 DEF CacheTypeOK
<1>4. CASE set(did)
  <2>1. PICK E \in SUBSET Unexpired :
          entries' = [d \in E \cup {did} |-> IF d = did THEN now + lifetime ELSE entries[d]]
    BY <1>4 DEF set
  <2>2. E \subseteq DOMAIN entries
    BY <2>1 DEF Unexpired
  <2> QED
    BY <1>1, <1>2, <2>1, <2>2 DEF CacheTypeOK
<1> QED
  BY <1>3, <1>4 DEF resolve

(* Every variable of the verifier, its trust list and the cache keeps its   *)
(* type.                                                                    *)
THEOREM CredentialTypeCorrect == CredentialSpec => []CredentialTypeOK
<1>1. ASSUME CredentialInit PROVE CredentialTypeOK
  <2>1. now \in 0..MaxNow
    BY <1>1, CacheAssumption DEF CacheAssumption, CredentialInit, CacheInit
  <2> QED
    BY <1>1, <2>1 DEF CredentialInit, CacheInit, NotVerifying, CredentialTypeOK, CacheTypeOK
<1>2. ASSUME CredentialTypeOK, [CredentialNext]_credentialVars PROVE CredentialTypeOK'
  <2>1. CASE UNCHANGED cacheVars
    <3>1. CacheTypeOK'
      BY <1>2, <2>1 DEF CredentialTypeOK, CacheTypeOK, cacheVars
    <3>2. trustList' \subseteq Issuers /\ trustedIssuers' \subseteq Issuers
      BY <1>2 DEF CredentialTypeOK, CredentialNext, credentialVars, add, remove,
                  createJwtVcVerifier, Verify, VerifySignature, ResolverStep
    <3>3. \/ verification' = verification
          \/ verification' = NotVerifying
          \/ \E jwt \in Jwts : Verify(jwt)
          \/ VerifySignature
      BY <1>2 DEF CredentialNext, credentialVars, add, remove, createJwtVcVerifier, ResolverStep
    <3>4. ASSUME NEW jwt \in Jwts, Verify(jwt) PROVE verification'.state \in {"awaiting", "done"}
      BY <3>4 DEF Verify, Verdict
    <3>5. ASSUME VerifySignature PROVE verification'.state = "done"
      BY <3>5 DEF VerifySignature
    <3>6. verification'.state \in {"none", "awaiting", "done"}
      BY <1>2, <3>3, <3>4, <3>5 DEF CredentialTypeOK, NotVerifying
    <3> QED
      BY <3>1, <3>2, <3>6 DEF CredentialTypeOK
  <2>2. ASSUME NEW jwt \in Jwts, Verify(jwt), ~UNCHANGED cacheVars PROVE CredentialTypeOK'
    <3>1. jwt.iss \in Dids /\ resolve(jwt.iss)
      BY <1>2, <2>2, CredentialAssumption
         DEF Verify, CredentialAssumption, CredentialTypeOK, validateIssuerTrust
    <3>2. CacheTypeOK'
      BY <1>2, <3>1, ResolveTypes DEF CredentialTypeOK
    <3>3. verification'.state \in {"none", "awaiting", "done"}
      BY <2>2 DEF Verify, Verdict
    <3> QED
      BY <1>2, <2>2, <3>2, <3>3 DEF CredentialTypeOK, Verify
  <2>3. CASE ResolverStep
    <3>1. ASSUME NEW d \in Dids, resolve(d) PROVE CacheTypeOK'
      BY <1>2, <3>1, ResolveTypes DEF CredentialTypeOK
    <3>2. ASSUME clearCache PROVE CacheTypeOK'
      BY <1>2, <3>2 DEF clearCache, CredentialTypeOK, CacheTypeOK
    <3>3. ASSUME PassTime PROVE CacheTypeOK'
      <4>1. now \in 0..MaxNow /\ now < MaxNow /\ now' = now + 1 /\ MaxNow \in Nat
        BY <1>2, <3>3, CacheAssumption DEF PassTime, CredentialTypeOK, CacheTypeOK, CacheAssumption
      <4>2. now' \in 0..MaxNow
        BY <4>1
      <4> QED
        BY <1>2, <3>3, <4>2 DEF PassTime, CredentialTypeOK, CacheTypeOK
    <3>4. CacheTypeOK'
      BY <2>3, <3>1, <3>2, <3>3 DEF ResolverStep, CredentialTypeOK
    <3> QED
      BY <1>2, <2>3, <3>4 DEF ResolverStep, CredentialTypeOK
  <2> QED
    BY <1>2, <2>1, <2>2, <2>3 DEF CredentialNext, credentialVars, add, remove,
                                  createJwtVcVerifier, VerifySignature
<1> QED
  BY <1>1, <1>2, PTL DEF CredentialSpec

-----------------------------------------------------------------------------
(* The cache of the resolver                                               *)

(* The keys left of the first k of the order, as Without counts them.       *)
Lefts(f, order, S, k) ==
    f = [n \in 0..k |-> IF n = 0 THEN <<>>
                        ELSE IF order[n] \in S THEN f[n - 1] ELSE Append(f[n - 1], order[n])]

LEMMA LeftsExist ==
    ASSUME NEW order, NEW S, NEW k \in Nat PROVE \E f : Lefts(f, order, S, k)
<1> DEFINE Next1(l, n) == IF order[n] \in S THEN l ELSE Append(l, order[n])
           Bad == {m \in Nat : ~\E f : Lefts(f, order, S, m)}
<1>1. SUFFICES ASSUME Bad # {} PROVE FALSE
  OBVIOUS
<1>2. PICK m \in Bad : \A l \in Bad : m <= l
  BY <1>1, Smallest
<1>3. m # 0
  <2>1. Lefts([n \in 0..0 |-> <<>>], order, S, 0)
    BY DEF Lefts
  <2> QED
    BY <1>2, <2>1
<1>4. m \in Nat /\ m - 1 \in Nat /\ m - 1 \notin Bad
  BY <1>2, <1>3
<1>5. PICK f : Lefts(f, order, S, m - 1)
  BY <1>4
<1> DEFINE g == [n \in 0..m |-> IF n = m THEN Next1(f[m - 1], m) ELSE f[n]]
           h == [n \in 0..m |-> IF n = 0 THEN <<>> ELSE Next1(g[n - 1], n)]
<1>6. ASSUME NEW n \in 0..m PROVE g[n] = h[n]
  <2>1. \A j \in 0..(m - 1) : f[j] = IF j = 0 THEN <<>> ELSE Next1(f[j - 1], j)
    BY <1>5, Zenon DEF Lefts
  <2> HIDE DEF Next1
  <2>2. \A j \in 0..(m - 1) : g[j] = f[j]
    BY <1>4
  <2>3. CASE n = 0
    <3>1. 0 \in 0..(m - 1)
      BY <1>4
    <3> QED
      BY <2>1, <2>2, <2>3, <3>1
  <2>4. CASE n # 0
    <3>1. n - 1 \in 0..(m - 1) /\ h[n] = Next1(g[n - 1], n)
      BY <1>4, <2>4
    <3>2. h[n] = Next1(f[n - 1], n)
      BY <2>2, <3>1
    <3>3. CASE n = m
      BY <3>2, <3>3
    <3>4. CASE n # m
      <4>1. n \in 0..(m - 1)
        BY <1>4, <3>4
      <4> QED
        BY <2>1, <2>2, <2>4, <3>2, <4>1
    <3> QED
      BY <3>3, <3>4
  <2> QED
    BY <2>3, <2>4
<1>7. g = h
  BY <1>6
<1>8. Lefts(g, order, S, m)
  BY <1>7, Zenon DEF Lefts
<1> QED
  BY <1>2, <1>8

(* What w, the keys left of the first n, is to be: those outside S and no   *)
(* other, any two of them as they stood.                                    *)
Keeps(w, order, S, D, n) ==
    /\ w \in Seq(D)
    /\ \A p \in 1..Len(w) : \E i \in 1..n : w[p] = order[i] /\ order[i] \notin S
    /\ \A i \in 1..n : order[i] \notin S => \E p \in 1..Len(w) : w[p] = order[i]
    /\ \A p, q \in 1..Len(w) :
         p < q => \E i, j \in 1..n : i < j /\ w[p] = order[i] /\ w[q] = order[j]

LEMMA KeepsNext ==
    ASSUME NEW D, NEW S, NEW order, NEW n \in Nat, n # 0, order[n] \in D, NEW v,
           Keeps(v, order, S, D, n - 1)
    PROVE  Keeps(IF order[n] \in S THEN v ELSE Append(v, order[n]), order, S, D, n)
<1>1. \A i \in 1..n : i = n \/ i \in 1..(n - 1)
  OBVIOUS
<1>2. \A i \in 1..(n - 1) : i \in 1..n /\ i < n
  OBVIOUS
<1>3. /\ v \in Seq(D)
      /\ \A p \in 1..Len(v) : \E i \in 1..(n - 1) : v[p] = order[i] /\ order[i] \notin S
      /\ \A i \in 1..(n - 1) : order[i] \notin S => \E p \in 1..Len(v) : v[p] = order[i]
      /\ \A p, q \in 1..Len(v) :
           p < q => \E i, j \in 1..(n - 1) : i < j /\ v[p] = order[i] /\ v[q] = order[j]
  BY Zenon DEF Keeps
<1>4. CASE order[n] \in S
  <2>1. /\ \A p \in 1..Len(v) : \E i \in 1..n : v[p] = order[i] /\ order[i] \notin S
        /\ \A i \in 1..n : order[i] \notin S => \E p \in 1..Len(v) : v[p] = order[i]
    BY <1>1, <1>2, <1>3, <1>4
  <2>2. ASSUME NEW p \in 1..Len(v), NEW q \in 1..Len(v), p < q
        PROVE  \E i, j \in 1..n : i < j /\ v[p] = order[i] /\ v[q] = order[j]
    <3>1. PICK i \in 1..(n - 1), j \in 1..(n - 1) : i < j /\ v[p] = order[i] /\ v[q] = order[j]
      BY <1>3, <2>2
    <3>2. i \in 1..n /\ j \in 1..n
      BY <1>2
    <3> QED
      BY <3>1, <3>2
  <2>3. Keeps(v, order, S, D, n)
    BY <1>3, <2>1, <2>2, Zenon DEF Keeps
  <2> QED
    BY <1>4, <2>3
<1>5. CASE order[n] \notin S
  <2> DEFINE w == Append(v, order[n])
  <2>1. /\ w \in Seq(D) /\ Len(w) = Len(v) + 1 /\ Len(v) \in Nat
        /\ \A p \in 1..Len(v) : w[p] = v[p]
        /\ w[Len(v) + 1] = order[n]
    BY <1>3
  <2> HIDE DEF w
  <2>2. \A p \in 1..Len(w) : p = Len(v) + 1 \/ p \in 1..Len(v)
    BY <2>1
  <2>3. \A p \in 1..Len(v) : p \in 1..Len(w)
    BY <2>1
  <2>4. n \in 1..n /\ Len(v) + 1 \in 1..Len(w)
    BY <2>1
  <2>5. ASSUME NEW p \in 1..Len(w)
        PROVE  \E i \in 1..n : w[p] = order[i] /\ order[i] \notin S
    <3>1. CASE p = Len(v) + 1
      BY <1>5, <2>1, <2>4, <3>1
    <3>2. CASE p \in 1..Len(v)
      <4>1. PICK i \in 1..(n - 1) : v[p] = order[i] /\ order[i] \notin S
        BY <1>3, <3>2
      <4> QED
        BY <1>2, <2>1, <3>2, <4>1
    <3> QED
      BY <2>2, <3>1, <3>2
  <2>6. \A i \in 1..n : order[i] \notin S => \E p \in 1..Len(w) : w[p] = order[i]
    BY <1>1, <1>3, <2>1, <2>3, <2>4
  <2>7. ASSUME NEW p \in 1..Len(w), NEW q \in 1..Len(w), p < q
        PROVE  \E i, j \in 1..n : i < j /\ w[p] = order[i] /\ w[q] = order[j]
    <3>1. p \in 1..Len(v)
      BY <2>1, <2>7
    <3>2. CASE q \in 1..Len(v)
      <4>1. PICK i \in 1..(n - 1), j \in 1..(n - 1) : i < j /\ v[p] = order[i] /\ v[q] = order[j]
        BY <1>3, <2>7, <3>1, <3>2
      <4> QED
        BY <1>2, <2>1, <3>1, <3>2, <4>1
    <3>3. CASE q = Len(v) + 1
      <4>1. PICK i \in 1..(n - 1) : v[p] = order[i]
        BY <1>3, <3>1
      <4> QED
        BY <1>2, <2>1, <2>4, <3>1, <3>3, <4>1
    <3> QED
      BY <2>2, <3>2, <3>3
  <2>8. Keeps(w, order, S, D, n)
    BY <2>1, <2>5, <2>6, <2>7, Zenon DEF Keeps
  <2> QED
    BY <1>5, <2>8 DEF w
<1> QED
  BY <1>4, <1>5

(* Without keeps the keys outside S, and any two of them as they stood.     *)
Thinned(w, order, S) ==
    /\ ToSet(w) = ToSet(order) \ S
    /\ \A p, q \in DOMAIN w :
         p < q => \E i, j \in DOMAIN order : i < j /\ w[p] = order[i] /\ w[q] = order[j]

LEMMA WithoutKeeps ==
    ASSUME NEW D, NEW order \in Seq(D), NEW S
    PROVE  Without(order, S) \in Seq(D) /\ Thinned(Without(order, S), order, S)
<1> DEFINE k == Len(order)
           f == CHOOSE left : Lefts(left, order, S, k)
<1>1. Without(order, S) = f[k]
  BY Zenon DEF Without, Lefts
<1>2. k \in Nat /\ DOMAIN order = 1..k /\ \A n \in 1..k : order[n] \in D
  OBVIOUS
<1>3. Lefts(f, order, S, k)
  BY <1>2, LeftsExist
<1> HIDE DEF f
<1>4. \A n \in 0..k : f[n] = IF n = 0 THEN <<>>
                             ELSE IF order[n] \in S THEN f[n - 1] ELSE Append(f[n - 1], order[n])
  BY <1>3, Zenon DEF Lefts
<1> HIDE DEF k
<1> DEFINE Bad == {n \in 0..k : ~Keeps(f[n], order, S, D, n)}
<1>5. ASSUME Bad # {} PROVE FALSE
  <2>1. Bad \in SUBSET Nat
    OBVIOUS
  <2>2. PICK n \in Bad : \A m \in Bad : n <= m
    BY <1>5, <2>1, Smallest
  <2>3. n \in 0..k /\ ~Keeps(f[n], order, S, D, n)
    BY <2>2
  <2>4. n # 0
    <3>1. f[0] = <<>>
      BY <1>2, <1>4
    <3>2. Keeps(<<>>, order, S, D, 0)
      BY DEF Keeps
    <3> QED
      BY <2>3, <3>1, <3>2
  <2>5. n \in 1..k /\ n - 1 \in 0..k /\ ~(n <= n - 1) /\ n \in Nat
    BY <1>2, <2>3, <2>4
  <2>6. Keeps(f[n - 1], order, S, D, n - 1)
    BY <2>2, <2>5
  <2>7. f[n] = IF order[n] \in S THEN f[n - 1] ELSE Append(f[n - 1], order[n])
    BY <1>4, <2>3, <2>4
  <2>8. order[n] \in D
    BY <1>2, <2>5
  <2>9. Keeps(IF order[n] \in S THEN f[n - 1] ELSE Append(f[n - 1], order[n]), order, S, D, n)
    BY <2>4, <2>5, <2>6, <2>8, KeepsNext
  <2> QED
    BY <2>3, <2>7, <2>9
<1> DEFINE W == f[k]
<1>6. Keeps(W, order, S, D, k)
  BY <1>2, <1>5
<1> HIDE DEF W
<1>7. W \in Seq(D) /\ DOMAIN W = 1..Len(W)
  <2>1. W \in Seq(D)
    BY <1>6 DEF Keeps
  <2> QED
    BY <2>1
<1>8. /\ \A p \in DOMAIN W : \E i \in DOMAIN order : W[p] = order[i] /\ order[i] \notin S
      /\ \A i \in DOMAIN order : order[i] \notin S => \E p \in DOMAIN W : W[p] = order[i]
      /\ \A p, q \in DOMAIN W :
           p < q => \E i, j \in DOMAIN order : i < j /\ W[p] = order[i] /\ W[q] = order[j]
  <2>1. /\ \A p \in 1..Len(W) : \E i \in 1..k : W[p] = order[i] /\ order[i] \notin S
        /\ \A i \in 1..k : order[i] \notin S => \E p \in 1..Len(W) : W[p] = order[i]
        /\ \A p, q \in 1..Len(W) :
             p < q => \E i, j \in 1..k : i < j /\ W[p] = order[i] /\ W[q] = order[j]
    BY <1>6, Zenon DEF Keeps
  <2>2. 1..k = DOMAIN order /\ 1..Len(W) = DOMAIN W
    BY <1>2, <1>7
  <2>3. ASSUME NEW p \in DOMAIN W PROVE \E i \in DOMAIN order : W[p] = order[i] /\ order[i] \notin S
    BY <2>1, <2>2
  <2>4. ASSUME NEW i \in DOMAIN order, order[i] \notin S PROVE \E p \in DOMAIN W : W[p] = order[i]
    BY <2>1, <2>2, <2>4
  <2>5. ASSUME NEW p \in DOMAIN W, NEW q \in DOMAIN W, p < q
        PROVE  \E i, j \in DOMAIN order : i < j /\ W[p] = order[i] /\ W[q] = order[j]
    <3>1. p \in 1..Len(W) /\ q \in 1..Len(W)
      BY <2>2
    <3>2. PICK i \in 1..k, j \in 1..k : i < j /\ W[p] = order[i] /\ W[q] = order[j]
      BY <2>1, <2>5, <3>1
    <3>3. i \in DOMAIN order /\ j \in DOMAIN order
      BY <2>2
    <3> QED
      BY <3>2, <3>3
  <2> QED
    BY <2>3, <2>4, <2>5
<1>9. ToSet(W) = ToSet(order) \ S
  BY <1>8 DEF ToSet
<1> QED
  BY <1>1, <1>7, <1>8, <1>9 DEF W, Thinned

(* A list without repetitions is as long as it has members.                 *)
LEMMA LengthOfDistinct ==
    ASSUME NEW D, NEW s \in Seq(D), IsInjective(s)
    PROVE  IsFiniteSet(ToSet(s)) /\ Cardinality(ToSet(s)) = Len(s)
<1>1. Len(s) \in Nat /\ DOMAIN s = 1..Len(s)
  OBVIOUS
<1>2. IsFiniteSet(1..Len(s)) /\ Cardinality(1..Len(s)) = Len(s)
  <2>1. IsFiniteSet(1..Len(s)) /\ Cardinality(1..Len(s)) = IF 1 > Len(s) THEN 0 ELSE Len(s) - 1 + 1
    BY <1>1, FS_Interval
  <2> QED
    BY <1>1, <2>1
<1> DEFINE f == [n \in 1..Len(s) |-> s[n]]
<1>3. f \in Bijection(1..Len(s), ToSet(s))
  <2>1. \A m, n \in 1..Len(s) : s[m] = s[n] => m = n
    BY <1>1 DEF IsInjective
  <2>2. ToSet(s) = {s[n] : n \in 1..Len(s)}
    BY <1>1 DEF ToSet
  <2>3. f \in [1..Len(s) -> ToSet(s)] /\ \A m \in 1..Len(s) : f[m] = s[m]
    BY <2>2
  <2>4. IsInjective(f)
    BY <2>1 DEF IsInjective
  <2>5. \A d \in ToSet(s) : \E m \in 1..Len(s) : f[m] = d
    BY <2>2
  <2> QED
    BY <2>3, <2>4, <2>5 DEF Bijection, Injection, Surjection
<1>4. IsFiniteSet(ToSet(s)) /\ Cardinality(1..Len(s)) = Cardinality(ToSet(s))
  <2>1. ExistsBijection(1..Len(s), ToSet(s))
    BY <1>3 DEF ExistsBijection
  <2> QED
    BY <1>2, <2>1, FS_Bijection
<1> QED
  BY <1>2, <1>4

(* What makes the consistency of the cache inductive: nothing in it was to  *)
(* expire later than what is added next.                                    *)
CacheInv ==
    /\ now \in Nat
    /\ insertionOrder \in Seq(Dids)
    /\ DOMAIN entries \subseteq Dids
    /\ \A d \in DOMAIN entries : entries[d] \in Nat /\ entries[d] <= now + lifetime
    /\ CacheConsistent

(* What removeExpired leaves: the unexpired, in the order they had.         *)
LEMMA KeysLeftInOrder ==
    ASSUME CacheInv
    PROVE  /\ KeysLeft \in Seq(Dids) /\ ToSet(KeysLeft) = Unexpired
           /\ \A p, q \in DOMAIN KeysLeft :
                p < q => KeysLeft[p] # KeysLeft[q]
                         /\ entries[KeysLeft[p]] <= entries[KeysLeft[q]]
<1>1. /\ KeysLeft \in Seq(Dids)
      /\ ToSet(KeysLeft) = ToSet(insertionOrder) \ (DOMAIN entries \ Unexpired)
      /\ \A p, q \in DOMAIN KeysLeft :
           p < q => \E i, j \in DOMAIN insertionOrder :
                      i < j /\ KeysLeft[p] = insertionOrder[i] /\ KeysLeft[q] = insertionOrder[j]
  <2>1. KeysLeft \in Seq(Dids) /\ Thinned(KeysLeft, insertionOrder, DOMAIN entries \ Unexpired)
    BY WithoutKeeps, Zenon DEF CacheInv, KeysLeft
  <2> QED
    BY <2>1, Zenon DEF Thinned
<1>2. ToSet(KeysLeft) = Unexpired
  BY <1>1 DEF CacheInv, CacheConsistent, Unexpired
<1>3. ASSUME NEW p \in DOMAIN KeysLeft, NEW q \in DOMAIN KeysLeft, p < q
      PROVE  KeysLeft[p] # KeysLeft[q] /\ entries[KeysLeft[p]] <= entries[KeysLeft[q]]
  <2>1. PICK i \in DOMAIN insertionOrder, j \in DOMAIN insertionOrder :
          i < j /\ KeysLeft[p] = insertionOrder[i] /\ KeysLeft[q] = insertionOrder[j]
    BY <1>1, <1>3
  <2>2. i \in Nat /\ j \in Nat
    BY DEF CacheInv
  <2>3. insertionOrder[i] # insertionOrder[j]
    BY <2>1, <2>2 DEF CacheInv, CacheConsistent, IsInjective
  <2>4. entries[insertionOrder[i]] <= entries[insertionOrder[j]]
    BY <2>1 DEF CacheInv, CacheConsistent
  <2> QED
    BY <2>1, <2>3, <2>4
<1> QED
  BY <1>1, <1>2, <1>3

(* There is place for one more once evictOldest is done.                    *)
LEMMA PlaceIsMade ==
    ASSUME CacheInv
    PROVE  Cardinality(Unexpired \ ToSet(SubSeq(KeysLeft, 1, evictOldest))) < maxSize
<1> DEFINE K == KeysLeft
           Enough(n) == Cardinality(Unexpired \ ToSet(SubSeq(K, 1, n))) < maxSize
           N == {n \in 0..Len(K) : Enough(n) \/ n = Len(K)}
<1>1. K \in Seq(Dids) /\ ToSet(K) = Unexpired
  BY KeysLeftInOrder
<1> HIDE DEF K
<1>2. Len(K) \in N /\ N \subseteq Nat
  BY <1>1
<1>3. PICK x \in N : \A y \in N : x <= y
  <2>1. N \in SUBSET Nat /\ N # {}
    BY <1>2
  <2> QED
    BY <2>1, Smallest
<1>4. evictOldest \in N
  <2>1. evictOldest = CHOOSE y \in N : \A z \in N : y <= z
    BY Zenon DEF evictOldest, Min, K
  <2> HIDE DEF N
  <2> QED
    BY <1>3, <2>1
<1>5. CASE Enough(evictOldest)
  BY <1>5 DEF K
<1>6. CASE evictOldest = Len(K)
  <2>1. SubSeq(K, 1, Len(K)) = K
    BY <1>1
  <2>2. Unexpired \ ToSet(SubSeq(K, 1, Len(K))) = {}
    BY <1>1, <2>1
  <2>3. Cardinality(Unexpired \ ToSet(SubSeq(K, 1, Len(K)))) = 0
    BY <2>2, FS_EmptySet
  <2>4. 0 < maxSize
    BY CacheAssumption DEF CacheAssumption
  <2> QED
    BY <1>6, <2>3, <2>4 DEF K
<1> QED
  BY <1>4, <1>5, <1>6

(* An entry is added to a cache that does not answer for it.                *)
LEMMA SetKeepsCache ==
    ASSUME CacheInv, NEW key \in Dids, key \notin Unexpired, resolveDIDKey(key).error = "none",
           set(key), now' = now
    PROVE  CacheInv'
<1> DEFINE K == KeysLeft
           evicted == ToSet(SubSeq(K, 1, evictOldest))
           W == Without(K, evicted \cup {key})
           U == Unexpired \ evicted
<1>1. /\ K \in Seq(Dids) /\ ToSet(K) = Unexpired
      /\ \A p, q \in DOMAIN K : p < q => K[p] # K[q] /\ entries[K[p]] <= entries[K[q]]
  BY KeysLeftInOrder
<1>2. /\ insertionOrder' = Append(W, key)
      /\ entries' = [d \in U \cup {key} |-> IF d = key THEN now + lifetime ELSE entries[d]]
  <2>1. key \notin ToSet(KeysLeft)
    BY <1>1
  <2> QED
    BY <2>1 DEF set
<1>3. Cardinality(U) < maxSize
  BY PlaceIsMade
<1> HIDE DEF K, evicted
<1>4. /\ W \in Seq(Dids) /\ ToSet(W) = ToSet(K) \ (evicted \cup {key})
      /\ \A p, q \in DOMAIN W :
           p < q => \E i, j \in DOMAIN K : i < j /\ W[p] = K[i] /\ W[q] = K[j]
  <2>1. W \in Seq(Dids) /\ Thinned(W, K, evicted \cup {key})
    BY <1>1, WithoutKeeps, Zenon
  <2> HIDE DEF W
  <2> QED
    BY <2>1, Zenon DEF Thinned
<1> HIDE DEF W
<1>5. ToSet(W) = U
  BY <1>1, <1>4
<1>6. \A p, q \in DOMAIN W : p < q => W[p] # W[q] /\ entries[W[p]] <= entries[W[q]]
  BY <1>1, <1>4
<1>7. /\ Len(W) \in Nat /\ DOMAIN W = 1..Len(W)
      /\ \A p \in 1..Len(W) : W[p] \in U
      /\ \A d \in U : \E p \in 1..Len(W) : W[p] = d
  BY <1>4, <1>5 DEF ToSet
<1>8. Len(W) < maxSize
  <2>1. IsInjective(W)
    <3>1. ASSUME NEW p \in DOMAIN W, NEW q \in DOMAIN W, W[p] = W[q] PROVE p = q
      BY <1>6, <1>7, <3>1
    <3> QED
      BY <3>1 DEF IsInjective
  <2> QED
    BY <1>3, <1>4, <1>5, <2>1, LengthOfDistinct
<1>9. /\ U \subseteq DOMAIN entries /\ key \notin U
      /\ \A d \in U : entries[d] \in Nat /\ entries[d] <= now + lifetime
      /\ now + lifetime \in Nat /\ now \in Nat
  BY CacheAssumption DEF CacheInv, CacheAssumption, Unexpired
<1> HIDE DEF U
<1> DEFINE w == insertionOrder'
           e == entries'
           n == Len(W) + 1
<1>10. /\ w \in Seq(Dids) /\ DOMAIN w = 1..n /\ Len(w) = n
       /\ w[n] = key /\ \A p \in 1..Len(W) : w[p] = W[p]
  BY <1>2, <1>4
<1>11. /\ DOMAIN e = U \cup {key} /\ e[key] = now + lifetime
       /\ \A d \in U : e[d] = entries[d]
  BY <1>2, <1>9
<1> HIDE DEF w, e
<1>12. \A p \in 1..n : p = n \/ p \in 1..Len(W)
  BY <1>7
<1>13. n \in 1..n /\ \A p \in 1..Len(W) : p \in 1..n
  BY <1>7
<1> HIDE DEF n
<1>14. ToSet(w) = DOMAIN e
  <2>1. \A p \in 1..n : w[p] \in U \cup {key}
    BY <1>7, <1>10, <1>12
  <2>2. \A d \in U \cup {key} : \E p \in 1..n : w[p] = d
    BY <1>7, <1>10, <1>13
  <2> QED
    BY <1>10, <1>11, <2>1, <2>2 DEF ToSet
<1>15. ASSUME NEW p \in 1..n, NEW q \in 1..n, p < q
       PROVE  w[p] # w[q] /\ e[w[p]] <= e[w[q]]
  <2>1. p \in 1..Len(W) /\ w[p] = W[p] /\ w[p] \in U
    <3>1. p \in 1..Len(W)
      BY <1>7, <1>15 DEF n
    <3> QED
      BY <1>7, <1>10, <3>1
  <2>2. CASE q \in 1..Len(W)
    BY <1>6, <1>7, <1>10, <1>11, <1>15, <2>1, <2>2
  <2>3. CASE q = n
    BY <1>9, <1>10, <1>11, <2>1, <2>3
  <2> QED
    BY <1>12, <2>2, <2>3
<1>16. IsInjective(w)
  <2>1. ASSUME NEW p \in DOMAIN w, NEW q \in DOMAIN w, w[p] = w[q] PROVE p = q
    <3>1. p \in 1..n /\ q \in 1..n /\ p \in Nat /\ q \in Nat
      BY <1>10
    <3>2. ~(p < q) /\ ~(q < p)
      BY <1>15, <2>1, <3>1
    <3> QED
      BY <3>1, <3>2
  <2> QED
    BY <2>1 DEF IsInjective
<1>17. Len(w) <= maxSize
  BY <1>7, <1>8, <1>10, CacheAssumption DEF CacheAssumption, n
<1>18. \A d \in U \cup {key} : d \in Dids /\ resolveDIDKey(d).error = "none"
  BY <1>9 DEF CacheInv, CacheConsistent
<1>19. \A d \in U \cup {key} : e[d] \in Nat /\ e[d] <= now + lifetime
  BY <1>9, <1>11
<1>20. CacheConsistent'
  <2>1. \A p, q \in DOMAIN w : p < q => e[w[p]] <= e[w[q]]
    BY <1>10, <1>15
  <2>2. \A d \in DOMAIN e : resolveDIDKey(d).error = "none"
    BY <1>11, <1>18
  <2>3. \A d : resolveDIDKey(d)' = resolveDIDKey(d)
    BY DEF resolveDIDKey, parseDIDKey, validateDIDStructure, decodeMultibaseKey
  <2> QED
    BY <1>14, <1>16, <1>17, <2>1, <2>2 DEF CacheConsistent, w, e, ToSet, IsInjective
<1> QED
  BY <1>9, <1>10, <1>11, <1>18, <1>19, <1>20 DEF CacheInv, w, e

(* The map of the resolver's cache and the order it evicts from keep the    *)
(* same keys, each once and in the order they expire, no more than the      *)
(* cache is to hold, and none that could not be resolved, for any sizes,    *)
(* lifetimes, identifiers and credentials.                                  *)
THEOREM CacheStaysConsistent == CredentialSpec => []CacheConsistent
<1>1. ASSUME CredentialInit PROVE CacheInv
  <2>1. now = 0 /\ DOMAIN entries = {} /\ insertionOrder = <<>>
    BY <1>1 DEF CredentialInit, CacheInit
  <2>2. ToSet(insertionOrder) = {} /\ IsInjective(insertionOrder) /\ Len(insertionOrder) <= maxSize
    BY <2>1, CacheAssumption DEF ToSet, IsInjective, CacheAssumption
  <2> QED
    BY <2>1, <2>2 DEF CacheInv, CacheConsistent
<1>2. ASSUME CacheInv, CredentialTypeOK, [CredentialNext]_credentialVars PROVE CacheInv'
  <2>1. ASSUME NEW d \in Dids, resolve(d) PROVE CacheInv'
    <3>1. CASE UNCHANGED <<entries, insertionOrder>>
      BY <1>2, <2>1, <3>1 DEF resolve, CacheInv, CacheConsistent, ToSet, IsInjective
    <3>2. CASE d \notin Unexpired /\ resolveDIDKey(d).error = "none"
      BY <1>2, <2>1, <3>2, SetKeepsCache DEF resolve
    <3> QED
      BY <2>1, <3>1, <3>2 DEF resolve
  <2>2. CASE UNCHANGED cacheVars
    BY <1>2, <2>2 DEF cacheVars, CacheInv, CacheConsistent, ToSet, IsInjective
  <2>3. ASSUME clearCache PROVE CacheInv'
    <3>1. now' = now /\ DOMAIN entries' = {} /\ insertionOrder' = <<>>
      BY <2>3 DEF clearCache
    <3>2. ToSet(insertionOrder)' = {} /\ IsInjective(insertionOrder)'
          /\ Len(insertionOrder') <= maxSize
      BY <3>1, CacheAssumption DEF ToSet, IsInjective, CacheAssumption
    <3> QED
      BY <1>2, <3>1, <3>2 DEF CacheInv, CacheConsistent
  <2>4. ASSUME PassTime PROVE CacheInv'
    <3>1. now' = now + 1 /\ UNCHANGED <<entries, insertionOrder>>
      BY <2>4 DEF PassTime
    <3>2. now \in Nat /\ now' \in Nat /\ lifetime \in Nat
          /\ \A d \in DOMAIN entries : entries[d] \in Nat /\ entries[d] <= now' + lifetime
      BY <1>2, <3>1, CacheAssumption DEF CacheInv, CacheAssumption
    <3> QED
      BY <1>2, <3>1, <3>2 DEF CacheInv, CacheConsistent, ToSet, IsInjective
  <2>5. ASSUME NEW jwt \in Jwts, Verify(jwt) PROVE CacheInv'
    <3>1. CASE extractIssuer(jwt) /\ validateIssuerTrust(jwt)
      <4>1. jwt.iss \in Dids /\ resolve(jwt.iss)
        BY <1>2, <2>5, <3>1, CredentialAssumption
           DEF Verify, CredentialAssumption, CredentialTypeOK, validateIssuerTrust
      <4> QED
        BY <2>1, <4>1
    <3>2. CASE UNCHANGED cacheVars
      BY <2>2, <3>2
    <3> QED
      BY <2>5, <3>1, <3>2 DEF Verify
  <2> QED
    BY <1>2, <2>1, <2>2, <2>3, <2>4, <2>5
       DEF CredentialNext, credentialVars, ResolverStep, add, remove, createJwtVcVerifier,
           VerifySignature
<1>3. CacheInv => CacheConsistent
  BY DEF CacheInv
<1> QED
  BY <1>1, <1>2, <1>3, CredentialTypeCorrect, PTL DEF CredentialSpec

-----------------------------------------------------------------------------
(* The three together                                                      *)

(* Each part takes its own steps. *)
LEMMA PartsOfTheDecision == Spec => AdmissionSpec /\ CredentialSpec /\ ExpirySpec
<1>1. Init => AdmissionInit /\ CredentialInit /\ ExpiryInit
  BY DEF Init
<1>2. [Next]_vars => /\ [AdmissionNext]_admissionVars
                     /\ [CredentialNext]_credentialVars
                     /\ [ExpiryNext]_monitorVars
  BY DEF Next, vars, AdmissionStep, CredentialStep, ExpiryStep
<1> QED
  BY <1>1, <1>2, PTL DEF Spec, AdmissionSpec, CredentialSpec, ExpirySpec

(* Every variable of the policies, the credentials and the warnings keeps   *)
(* its type.                                                                *)
THEOREM DecisionTypeCorrect == Spec => []TypeOK
<1>1. AdmissionTypeOK /\ CredentialTypeOK /\ ExpiryTypeOK => TypeOK
  BY DEF TypeOK
<1> QED
  BY <1>1, PartsOfTheDecision, AdmissionTypeCorrect, CredentialTypeCorrect, ExpiryTypeCorrect, PTL
=============================================================================
