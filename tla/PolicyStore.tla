----------------------------- MODULE PolicyStore -----------------------------
(***************************************************************************)
(* The gateway's policies and their versions (policy-store.ts).  The hash  *)
(* of the rules is taken to tell any two rule lists apart: the list stands *)
(* for it.  Names, descriptions and dates are left out.                    *)
(***************************************************************************)
EXTENDS Policy, SequencesExt

CONSTANTS
    PolicyIds, NoPolicy,
    RuleLists,          (* the rules policies are made of                    *)
    maxPolicies,
    MaxVersions         (* bounds the updates explored                       *)

ASSUME PolicyAssumption ==
    /\ \A rules \in RuleLists : validateRules(rules)
    /\ \A rules \in RuleLists, v \in 1..MaxVersions :
         NoPolicy # [version |-> v, rules |-> rules, hash |-> rules]
    /\ maxPolicies \in Nat \ {0} /\ MaxVersions \in Nat \ {0}

VARIABLES policies, history

storeVars == <<policies, history>>

computeRulesHash(rules) == rules

NewPolicy(rules, version) ==
    [version |-> version, rules |-> rules, hash |-> computeRulesHash(rules)]

Stored == {id \in PolicyIds : policies[id] # NoPolicy}

(* The version of a policy that its history holds, if any. *)
getByVersion(id, version) ==
    LET found == {p \in ToSet(history[id]) : p.version = version}
    IN  IF found = {} THEN NoPolicy ELSE CHOOSE p \in found : TRUE

(* Faulty variant: versions are numbered from zero. *)
createAtZero(id, rules) ==
    /\ policies[id] = NoPolicy
    /\ Cardinality(Stored) < maxPolicies
    /\ policies' = [policies EXCEPT ![id] = NewPolicy(rules, 0)]
    /\ history' = [history EXCEPT ![id] = <<NewPolicy(rules, 0)>>]

(* Throws if the id is taken or the store is full. *)
create(id, rules) ==
    /\ policies[id] = NoPolicy
    /\ Cardinality(Stored) < maxPolicies
    /\ policies' = [policies EXCEPT ![id] = NewPolicy(rules, 1)]
    /\ history' = [history EXCEPT ![id] = <<NewPolicy(rules, 1)>>]

(* Faulty variant: the policy is changed in place. *)
updateInPlace(id, rules) ==
    /\ policies[id] # NoPolicy
    /\ policies' = [policies EXCEPT ![id] = NewPolicy(rules, @.version)]
    /\ history' = [history EXCEPT ![id] = Append(Front(@), policies'[id])]

(* With the rules it had, when the update leaves them out.  Throws if there *)
(* is no such policy.                                                       *)
update(id, rules) ==
    /\ policies[id] # NoPolicy
    /\ policies[id].version < MaxVersions
    /\ policies' = [policies EXCEPT ![id] = NewPolicy(rules, @.version + 1)]
    /\ history' = [history EXCEPT ![id] = Append(@, policies'[id])]

(* Faulty variant: the versions stay. *)
deleteKeepsHistory(id) ==
    /\ policies[id] # NoPolicy
    /\ policies' = [policies EXCEPT ![id] = NoPolicy]
    /\ UNCHANGED history

delete(id) ==
    /\ policies[id] # NoPolicy
    /\ policies' = [policies EXCEPT ![id] = NoPolicy]
    /\ history' = [history EXCEPT ![id] = <<>>]

clear ==
    /\ policies' = [id \in PolicyIds |-> NoPolicy]
    /\ history' = [id \in PolicyIds |-> <<>>]

-----------------------------------------------------------------------------
(* Properties                                                              *)

(* The history of a policy is all its versions since it was created, in     *)
(* order and without a gap, the current one last, and of a policy that is   *)
(* not there nothing is left; each is found by its number, with the hash of *)
(* the rules it had.                                                        *)
HistoryComplete ==
    \A id \in PolicyIds :
        /\ policies[id] = NoPolicy <=> history[id] = <<>>
        /\ policies[id] # NoPolicy => policies[id] = Last(history[id])
        /\ \A v \in DOMAIN history[id] :
             /\ getByVersion(id, v) = history[id][v]
             /\ history[id][v].version = v
             /\ history[id][v].hash = computeRulesHash(history[id][v].rules)
=============================================================================
