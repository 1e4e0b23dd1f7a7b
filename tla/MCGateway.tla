------------------------------ MODULE MCGateway ------------------------------
(* The gateway with two sessions of one operator.                            *)
EXTENDS Gateway, TLC

CONSTANTS s1, s2, o1

MCSessions == {s1, s2}
MCOperators == {o1}
MCOwner == [s \in MCSessions |-> o1]
MCSymmetry == Permutations(Tokens) \cup Permutations(Requests)
                \cup Permutations(Sockets)
=============================================================================
