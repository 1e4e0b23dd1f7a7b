------------------------------- MODULE Policy --------------------------------
(***************************************************************************)
(* What the gateway's policies mean (policy-evaluator.ts,                  *)
(* condition-evaluator.ts, policy-validator.ts).  A value carries the kind *)
(* of what it is, since the code compares values of any two kinds; a       *)
(* context is a function of the field paths that lead to a value.          *)
(***************************************************************************)
EXTENDS Integers, Sequences

CONSTANTS
    Undefined,          (* what a path that leads nowhere gives              *)
    NoRule              (* no rule matched                                   *)

Operators == {"eq", "neq", "in", "gt", "lt", "gte", "lte", "contains"}

(* The rules validatePolicyInput lets pass; ids and names are strings here. *)
validateRule(rule) ==
    /\ rule.effect \in {"allow", "deny"}
    /\ rule.actions # {}
    /\ rule.priority \in Int
    /\ \A c \in rule.conditions : c.operator \in Operators /\ c.value # Undefined

(* An array of them. *)
validateRules(rules) ==
    /\ Len(rules) \in Nat /\ DOMAIN rules = 1..Len(rules)
    /\ \A i \in DOMAIN rules : validateRule(rules[i])

-----------------------------------------------------------------------------
(* Conditions                                                              *)

getFieldValue(field, context) ==
    IF field \in DOMAIN context THEN context[field] ELSE Undefined

(* Operator ===: an array is never the same as another.                     *)
Same(a, b) == a.kind # "array" /\ a = b

(* The order of numbers.  That of strings and dates, which the code has too, *)
(* is left out: they compare as not ordered.                                *)
Ordered(a, b) == a.kind = "number" /\ b.kind = "number"

(* Of an array its members, of a string the strings it contains. *)
contains(whole, part) ==
    \/ whole.kind = "array" /\ \E x \in whole.value : Same(x, part)
    \/ whole.kind = "string" /\ part.kind = "string" /\ part.value \in whole.contained

(* A field that is not there fails every condition, "neq" too. *)
evaluateCondition(condition, context) ==
    LET field == getFieldValue(condition.field, context)
        value == condition.value
        operator == condition.operator
    IN  /\ field # Undefined
        /\ \/ operator = "eq" /\ Same(field, value)
           \/ operator = "neq" /\ ~Same(field, value)
           \/ operator = "in" /\ value.kind = "array" /\ contains(value, field)
           \/ operator = "gt" /\ Ordered(field, value) /\ field.value > value.value
           \/ operator = "lt" /\ Ordered(field, value) /\ field.value < value.value
           \/ operator = "gte" /\ Ordered(field, value) /\ field.value >= value.value
           \/ operator = "lte" /\ Ordered(field, value) /\ field.value <= value.value
           \/ operator = "contains" /\ contains(field, value)

-----------------------------------------------------------------------------
(* Rules                                                                   *)

(* One of the requested actions is enough. *)
matchesRule(rule, context, actions) ==
    /\ actions \cap rule.actions # {}
    /\ \A c \in rule.conditions : evaluateCondition(c, context)

Matching(rules, effect, context, actions) ==
    {i \in DOMAIN rules : /\ rules[i].effect = effect
                          /\ matchesRule(rules[i], context, actions)}

(* The order of the stable sort by priority. *)
Precedes(rules, i, j) ==
    \/ rules[i].priority < rules[j].priority
    \/ rules[i].priority = rules[j].priority /\ i <= j

FirstOf(rules, S) == CHOOSE i \in S : \A j \in S : Precedes(rules, i, j)

(* The first deny rule that matches decides, then the first allow rule; a   *)
(* request no rule matches is denied.                                       *)
evaluate(rules, context, actions) ==
    LET denying == Matching(rules, "deny", context, actions)
        allowing == Matching(rules, "allow", context, actions)
    IN  CASE denying # {} ->
               [decision |-> "deny", matchedRule |-> FirstOf(rules, denying),
                allowedActions |-> {}]
          [] denying = {} /\ allowing # {} ->
               [decision |-> "allow", matchedRule |-> FirstOf(rules, allowing),
                allowedActions |-> actions \cap rules[FirstOf(rules, allowing)].actions]
          [] OTHER ->
               [decision |-> "deny", matchedRule |-> NoRule, allowedActions |-> {}]
=============================================================================
