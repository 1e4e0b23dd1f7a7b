----------------------------- MODULE StoreProofs -----------------------------
(***************************************************************************)
(* Proofs about RevocationStore, for any set of tokens and any capacity.   *)
(***************************************************************************)
EXTENDS RevocationStore, FiniteSetTheorems, WellFoundedInduction, TLAPS

(* What the three groups of actions leave alone keeps the tokens revoked. *)
LEMMA SameRevoked ==
    ASSUME UNCHANGED revokedAt
    PROVE  Revoked' = Revoked
  BY DEF Revoked

LEMMA SamePending ==
    ASSUME UNCHANGED append
    PROVE  Pending' = Pending
  BY DEF Pending

(* Revoking T adds T to the tokens revoked, and nothing else. *)
LEMMA RevokedGrows ==
    ASSUME TypeOK, NEW T \in SUBSET registered, Revoke(T)
    PROVE  /\ revokedAt' \in [Tokens -> Nat]
           /\ Revoked' = Revoked \cup T
           /\ cache' \subseteq cache \cup T
  <1> DEFINE n == Cardinality(Revoked)
             k == Cardinality(T)
  <1>1. T \subseteq Tokens
    BY DEF TypeOK
  <1>2. n \in Nat /\ k \in Nat
    BY <1>1, StoreAssumption, FS_Subset, FS_CardinalityType DEF Revoked
  <1>3. PICK stamp \in [T -> n + 1 .. n + k] :
           revokedAt' = [t \in Tokens |-> IF t \in T THEN stamp[t] ELSE revokedAt[t]]
    BY DEF Revoke, Bijection, Injection
  <1>4. \A t \in T : stamp[t] \in Nat /\ stamp[t] > 0
    BY <1>2, <1>3
  <1>5. revokedAt' \in [Tokens -> Nat]
    BY <1>3, <1>4 DEF TypeOK
  <1>6. Revoked' = Revoked \cup T
    BY <1>1, <1>3, <1>4 DEF Revoked
  <1>7. cache' \subseteq cache \cup T
    BY DEF Revoke, survivors
  <1> QED BY <1>5, <1>6, <1>7

(* The initial state satisfies the inductive invariant. *)
LEMMA InitInv == Init => IInv
  <1> SUFFICES ASSUME Init PROVE IInv
    OBVIOUS
  <1>1. Revoked = {} /\ Pending = {}
    BY DEF Init, Revoked, Pending
  <1>2. TypeOK
    BY <1>1 DEF Init, TypeOK
  <1>3. MapInv
    BY DEF Init, MapInv
  <1>4. QuietInv
    BY <1>1 DEF Init, QuietInv, QuietStoreIsComplete, Missing
  <1>5. OrderInv
    BY <1>1, FS_EmptySet DEF Init, OrderInv
  <1> QED BY <1>2, <1>3, <1>4, <1>5 DEF IInv

-----------------------------------------------------------------------------

(* Every step keeps the types: only revocations reach the cache, the file   *)
(* and the appends.                                                         *)
LEMMA TypeStep == TypeOK /\ [Next]_vars => TypeOK'
  <1> SUFFICES ASSUME TypeOK, [Next]_vars PROVE TypeOK'
    OBVIOUS
  <1> USE DEF TypeOK
  <1>1. CASE RevokeSome
    <2> PICK T \in SUBSET registered : Revoke(T)
      BY <1>1 DEF RevokeSome
    <2>1. Revoked' = Revoked \cup T /\ revokedAt' \in [Tokens -> Nat]
      BY RevokedGrows
    <2>2. cache' \subseteq Revoked'
      BY <2>1, RevokedGrows
    <2>3. holding' \in [Tokens -> SUBSET Revoked']
      BY <2>1 DEF Revoke
    <2>4. file' \in {Missing, Empty, Torn} \cup {Parses(S) : S \in SUBSET Revoked'}
      BY <2>1 DEF Revoke
    <2>5. append' \in [Tokens -> {"none", "load", "save", "write", "stored", "failed"}]
      BY DEF Revoke
    <2>6. {t \in Tokens : append'[t] # "none"} \subseteq Revoked'
      BY <2>1 DEF Revoke
    <2> QED
      BY <2>1, <2>2, <2>3, <2>4, <2>5, <2>6 DEF Revoke
  <1>2. ASSUME NEW t \in Tokens, Register(t) \/ Forget(t) \/ Expire(t) PROVE TypeOK'
    <2>1. UNCHANGED revokedAt
      BY <1>2 DEF Register, Forget, Expire
    <2> QED
      BY <1>2, <2>1, SameRevoked DEF Register, Forget, Expire, FileFrame, Revoked
  <1>3. ASSUME NEW t \in Tokens, Append(t) PROVE TypeOK'
    <2>1. UNCHANGED <<revokedAt, registered, cache, issuedHere, expired, process>>
      BY <1>3 DEF Append, Load, LoadCorrupted, Truncate, Write, AppendFails, MemoryFrame
    <2>2. Revoked' = Revoked
      BY <2>1, SameRevoked
    <2>3. t \in Revoked
      BY <1>3 DEF Append, Load, LoadCorrupted, Truncate, Write, AppendFails, Pending
    <2>4. append' \in [Tokens -> {"none", "load", "save", "write", "stored", "failed"}]
      BY <1>3 DEF Append, Load, LoadCorrupted, Truncate, Write, AppendFails, Goto
    <2>5. {u \in Tokens : append'[u] # "none"} \subseteq Revoked'
      BY <1>3, <2>2, <2>3
      DEF Append, Load, LoadCorrupted, Truncate, Write, AppendFails, Goto
    <2>6. file.entries \subseteq Revoked
      BY DEF Missing, Empty, Torn, Parses
    <2>7. holding' \in [Tokens -> SUBSET Revoked]
      BY <1>3, <2>3, <2>6 DEF Append, Load, LoadCorrupted, Truncate, Write, AppendFails
    <2>8. file' \in {Missing, Empty, Torn} \cup {Parses(S) : S \in SUBSET Revoked}
      BY <1>3 DEF Append, Load, LoadCorrupted, Truncate, Write, AppendFails, Overwritten
    <2>9. quiet' \in BOOLEAN
      BY <1>3 DEF Append, Load, LoadCorrupted, Truncate, Write, AppendFails
    <2> QED
      BY <2>1, <2>2, <2>4, <2>5, <2>7, <2>8, <2>9
  <1>4. CASE Cleanup
    BY <1>4, SameRevoked DEF Cleanup, FileFrame
  <1>5. CASE Stop
    <2>1. Revoked' = Revoked
      BY <1>5, SameRevoked DEF Stop
    <2>2. {t \in Tokens : append'[t] # "none"} \subseteq Revoked'
      BY <1>5, <2>1 DEF Stop, Pending
    <2>3. append' \in [Tokens -> {"none", "load", "save", "write", "stored", "failed"}]
      BY <1>5 DEF Stop
    <2> QED
      BY <1>5, <2>1, <2>2, <2>3 DEF Stop
  <1>6. CASE Start
    <2>1. file.entries \subseteq Revoked
      BY DEF Missing, Empty, Torn, Parses
    <2> QED
      BY <1>6, <2>1, SameRevoked DEF Start, FileFrame
  <1>7. CASE DeleteStore
    BY <1>7, SameRevoked DEF DeleteStore, MemoryFrame
  <1>8. CASE UNCHANGED vars
    BY <1>8, SameRevoked DEF vars
  <1> QED
    BY <1>1, <1>2, <1>3, <1>4, <1>5, <1>6, <1>7, <1>8 DEF Next

(* The map keeps what is in force and nothing that is revoked. *)
LEMMA MapStep == TypeOK /\ MapInv /\ [Next]_vars => MapInv'
  <1> SUFFICES ASSUME TypeOK, MapInv, [Next]_vars PROVE MapInv'
    OBVIOUS
  <1> USE DEF MapInv
  <1>1. CASE RevokeSome
    <2> PICK T \in SUBSET registered : Revoke(T)
      BY <1>1 DEF RevokeSome
    <2>1. Revoked' = Revoked \cup T
      BY RevokedGrows
    <2> QED
      BY <2>1 DEF Revoke
  <1>2. ASSUME NEW t \in Tokens, Register(t) PROVE MapInv'
    <2>1. t \notin Revoked /\ Revoked' = Revoked
      BY <1>2, SameRevoked DEF Register, Revoked
    <2> QED
      BY <1>2, <2>1 DEF Register
  <1>3. ASSUME NEW t \in Tokens, Forget(t) \/ Expire(t) \/ Append(t) PROVE MapInv'
    <2>1. UNCHANGED <<revokedAt, registered, issuedHere>> /\ expired \subseteq expired'
      BY <1>3 DEF Forget, Expire, Append, Load, LoadCorrupted, Truncate, Write,
                  AppendFails, MemoryFrame
    <2> QED
      BY <2>1, SameRevoked
  <1>4. CASE Cleanup \/ Start \/ DeleteStore \/ UNCHANGED vars
    BY <1>4, SameRevoked DEF Cleanup, Start, DeleteStore, MemoryFrame, vars
  <1>5. CASE Stop
    BY <1>5 DEF Stop
  <1> QED
    BY <1>1, <1>2, <1>3, <1>4, <1>5 DEF Next

(* A store that stays quiet has one append at a time, which finds a file    *)
(* that parses and carries its entries along.                               *)
LEMMA QuietStep == TypeOK /\ QuietInv /\ [Next]_vars => QuietInv'
  <1> SUFFICES ASSUME TypeOK, QuietInv, [Next]_vars PROVE QuietInv'
    OBVIOUS
  <1> USE DEF QuietInv, QuietStoreIsComplete
  <1>1. CASE RevokeSome
    <2> PICK T \in SUBSET registered : T # {} /\ Revoke(T)
      BY <1>1 DEF RevokeSome
    <2>1. Revoked' = Revoked \cup T /\ T \subseteq Tokens
      BY RevokedGrows DEF TypeOK
    <2>2. process' = "up" /\ UNCHANGED <<holding, file>>
      BY <1>1 DEF RevokeSome, Revoke
    <2>3. SUFFICES ASSUME quiet' PROVE QuietInv'
      BY <2>2
    <2>4. quiet /\ Pending = {} /\ Cardinality(T) = 1
      BY <2>3 DEF Revoke, TypeOK
    <2>5. PICK r \in T : T = {r}
      BY <2>1, <2>4, StoreAssumption, FS_Subset, FS_Singleton
    <2>6. append' = [append EXCEPT ![r] = "load"]
      BY <2>5 DEF Revoke, TypeOK
    <2>7. \A t \in Tokens : append[t] \notin {"load", "save", "write"}
      BY <2>4 DEF Pending
    <2>8. Pending' = {r}
      BY <2>1, <2>5, <2>6, <2>7 DEF Pending, TypeOK
    <2>9. \A t \in Tokens : append'[t] \notin {"save", "write"}
      BY <2>5, <2>6, <2>7 DEF TypeOK
    <2>10. file.is \notin {"torn", "empty"} /\ Revoked \subseteq file.entries
      BY <2>4, <2>7
    <2> QED
      BY <2>1, <2>2, <2>5, <2>8, <2>9, <2>10
  <1>2. ASSUME NEW t \in Tokens, Register(t) \/ Forget(t) \/ Expire(t) PROVE QuietInv'
    BY <1>2, SameRevoked, SamePending DEF Register, Forget, Expire, FileFrame
  <1>3. ASSUME NEW t \in Tokens, Append(t) PROVE QuietInv'
    <2>1. UNCHANGED <<revokedAt, process>> /\ Revoked' = Revoked
      BY <1>3, SameRevoked
      DEF Append, Load, LoadCorrupted, Truncate, Write, AppendFails, MemoryFrame
    <2>2. t \in Pending
      BY <1>3 DEF Append, Load, LoadCorrupted, Truncate, Write, AppendFails, Pending
    <2>3. Pending' \subseteq Pending
      BY <1>3, <2>2
      DEF Append, Load, LoadCorrupted, Truncate, Write, AppendFails, Goto, Pending, TypeOK
    <2>4. SUFFICES ASSUME quiet' PROVE QuietInv'
      BY <2>1, <2>3
    <2>5. quiet /\ ~AppendFails(t)
      BY <1>3, <2>4 DEF Append, Load, LoadCorrupted, Truncate, Write, AppendFails
    <2>6. \A u \in Tokens : u # t => append[u] \notin {"load", "save", "write"}
      BY <2>2, <2>5 DEF Pending
    <2>7. CASE Load(t)
      <3>1. Revoked \subseteq file.entries \cup {t}
        BY <2>5, <2>6, <2>7 DEF Load, Pending
      <3>2. append' = [append EXCEPT ![t] = "save"]
            /\ holding'[t] = file.entries \cup {t} /\ UNCHANGED file
        BY <2>7 DEF Load, Goto, TypeOK
      <3>3. \A u \in Tokens : append'[u] # "write" /\ (append'[u] = "save" => u = t)
        BY <2>6, <3>2 DEF TypeOK
      <3>4. \A u \in Tokens : append[u] # "write"
        BY <2>6, <2>7 DEF Load
      <3>5. Revoked \ Pending' \subseteq file.entries
        BY <3>1, <3>2 DEF Pending, TypeOK
      <3> QED
        BY <2>1, <2>3, <2>5, <3>1, <3>2, <3>3, <3>4, <3>5
    <2>8. CASE LoadCorrupted(t)
      <3>1. PICK u \in Tokens : append[u] = "write"
        BY <2>5, <2>8 DEF LoadCorrupted
      <3> QED
        BY <2>6, <2>8, <3>1 DEF LoadCorrupted
    <2>9. CASE Truncate(t)
      <3>1. append' = [append EXCEPT ![t] = "write"] /\ UNCHANGED holding /\ file' = Empty
        BY <2>9 DEF Truncate, Goto
      <3>2. Revoked \subseteq holding[t]
        BY <2>5, <2>9 DEF Truncate
      <3>3. \A u \in Tokens : /\ append'[u] # "save"
                              /\ append'[u] = "write" <=> u = t
        BY <2>6, <3>1 DEF TypeOK
      <3> QED
        BY <2>1, <2>3, <2>5, <3>1, <3>2, <3>3 DEF Empty
    <2>10. CASE Write(t)
      <3>1. file = Empty /\ Revoked \subseteq holding[t]
        BY <2>5, <2>10 DEF Write
      <3>2. file' = Parses(holding[t]) /\ UNCHANGED holding
        BY <2>10, <3>1 DEF Write, Overwritten, Empty
      <3>3. append' = [append EXCEPT ![t] = "stored"]
        BY <2>10 DEF Write, Goto
      <3>4. \A u \in Tokens : append'[u] \notin {"save", "write"}
        BY <2>6, <3>3 DEF TypeOK
      <3> QED
        BY <2>1, <2>3, <2>5, <3>1, <3>2, <3>4 DEF Parses
    <2> QED
      BY <1>3, <2>5, <2>7, <2>8, <2>9, <2>10 DEF Append
  <1>4. CASE Cleanup
    BY <1>4, SameRevoked, SamePending DEF Cleanup, FileFrame
  <1>5. CASE Stop
    <2>1. Pending' = {} /\ Revoked' = Revoked
      BY <1>5, SameRevoked DEF Stop, Pending, TypeOK
    <2>2. SUFFICES ASSUME quiet' PROVE QuietInv'
      BY <2>1
    <2>3. quiet /\ Pending = {}
      BY <1>5, <2>2 DEF Stop, TypeOK
    <2>4. \A t \in Tokens : append[t] \notin {"load", "save", "write"}
      BY <2>3 DEF Pending
    <2>5. append' = append /\ UNCHANGED file
      BY <1>5, <2>3, <2>4 DEF Stop, TypeOK
    <2> QED
      BY <2>1, <2>3, <2>4, <2>5
  <1>6. CASE Start
    BY <1>6, SameRevoked, SamePending DEF Start, FileFrame
  <1>7. CASE DeleteStore
    <2>1. Pending = {} /\ UNCHANGED <<append, process, revokedAt, quiet>>
      BY <1>7 DEF DeleteStore, MemoryFrame
    <2>2. \A t \in Tokens : append[t] # "write"
      BY <2>1 DEF Pending
    <2>3. ~quiet
      BY <1>7, <2>2 DEF DeleteStore
    <2> QED
      BY <2>1, <2>3, SamePending
  <1>8. CASE UNCHANGED vars
    BY <1>8, SameRevoked, SamePending DEF vars
  <1> QED
    BY <1>1, <1>2, <1>3, <1>4, <1>5, <1>6, <1>7, <1>8 DEF Next

(* What a revocation of T makes of the order: T comes after all the others. *)
LEMMA RevokeOrder ==
    ASSUME TypeOK, MapInv, OrderInv, NEW T \in SUBSET registered, Revoke(T)
    PROVE  /\ \A t \in Tokens : revokedAt'[t] <= Cardinality(Revoked')
           /\ \A t, u \in Revoked' : revokedAt'[t] = revokedAt'[u] => t = u
  <1> DEFINE n == Cardinality(Revoked)
             k == Cardinality(T)
  <1>1. T \subseteq Tokens /\ T \cap Revoked = {} /\ Revoked \subseteq Tokens
    BY DEF TypeOK, MapInv, Revoked
  <1>2. IsFiniteSet(T) /\ IsFiniteSet(Revoked) /\ n \in Nat /\ k \in Nat
    BY <1>1, StoreAssumption, FS_Subset, FS_CardinalityType DEF StoreAssumption
  <1>3. PICK stamp \in Bijection(T, n + 1 .. n + k) :
           revokedAt' = [t \in Tokens |-> IF t \in T THEN stamp[t] ELSE revokedAt[t]]
    BY DEF Revoke
  <1>4. /\ stamp \in [T -> n + 1 .. n + k]
        /\ \A t, u \in T : stamp[t] = stamp[u] => t = u
    BY <1>3 DEF Bijection, Injection, IsInjective
  <1>5. Revoked' = Revoked \cup T
    BY RevokedGrows
  <1>6. Cardinality(Revoked') = n + k
    <2>1. Revoked \cap T = {}
      BY <1>1
    <2>2. Cardinality(Revoked \cup T) = n + k - 0
      BY <1>2, <2>1, FS_Union, FS_EmptySet
    <2> QED
      BY <1>2, <1>5, <2>2
  <1>7. \A t \in T : stamp[t] \in Nat /\ n < stamp[t] /\ stamp[t] <= n + k
    BY <1>2, <1>4
  <1>8. \A t \in Tokens : revokedAt[t] \in Nat /\ revokedAt[t] <= n
    BY DEF OrderInv, TypeOK
  <1>9. \A t \in Tokens : revokedAt'[t] = IF t \in T THEN stamp[t] ELSE revokedAt[t]
    BY <1>3
  <1>10. ASSUME NEW t \in Tokens PROVE revokedAt'[t] <= n + k
    BY <1>2, <1>7, <1>8, <1>9
  <1>11. ASSUME NEW t \in Revoked', NEW u \in Revoked', revokedAt'[t] = revokedAt'[u]
         PROVE  t = u
    <2>1. t \in Tokens /\ u \in Tokens
      BY <1>1, <1>5
    <2>2. CASE t \in T /\ u \in T
      BY <1>4, <1>9, <1>11, <2>1, <2>2
    <2>3. CASE t \in T /\ u \notin T
      <3>1. stamp[t] = revokedAt[u]
        BY <1>9, <1>11, <2>1, <2>3
      <3> QED
        BY <1>2, <1>7, <1>8, <2>1, <2>3, <3>1
    <2>4. CASE t \notin T /\ u \in T
      <3>1. stamp[u] = revokedAt[t]
        BY <1>9, <1>11, <2>1, <2>4
      <3> QED
        BY <1>2, <1>7, <1>8, <2>1, <2>4, <3>1
    <2>5. CASE t \notin T /\ u \notin T
      BY <1>5, <1>9, <1>11, <2>1, <2>5 DEF OrderInv
    <2> QED
      BY <2>2, <2>3, <2>4, <2>5
  <1> QED
    BY <1>6, <1>10, <1>11

(* No two revocations are equally old, whatever comes in between. *)
LEMMA OrderStep == TypeOK /\ MapInv /\ OrderInv /\ [Next]_vars => OrderInv'
  <1> SUFFICES ASSUME TypeOK, MapInv, OrderInv, [Next]_vars PROVE OrderInv'
    OBVIOUS
  <1>1. CASE RevokeSome
    <2> PICK T \in SUBSET registered : Revoke(T)
      BY <1>1 DEF RevokeSome
    <2>1. process' # "down"
      BY <1>1 DEF RevokeSome, Revoke
    <2> QED
      BY <2>1, RevokeOrder DEF OrderInv
  <1>2. ASSUME UNCHANGED revokedAt, process' = "down" => cache' = {} PROVE OrderInv'
    BY <1>2, SameRevoked DEF OrderInv
  <1>3. ASSUME NEW t \in Tokens, Register(t) \/ Forget(t) \/ Expire(t) \/ Append(t)
        PROVE  OrderInv'
    <2>1. UNCHANGED revokedAt
      BY <1>3 DEF Register, Forget, Expire, Append, Load, LoadCorrupted, Truncate, Write,
                  AppendFails, MemoryFrame
    <2>2. process' = "down" => cache' = {}
      BY <1>3 DEF Register, Forget, Expire, Append, Load, LoadCorrupted, Truncate, Write,
                  AppendFails, MemoryFrame, OrderInv
    <2> QED
      BY <1>2, <2>1, <2>2
  <1>4. CASE Cleanup \/ Stop \/ Start \/ DeleteStore \/ UNCHANGED vars
    <2>1. UNCHANGED revokedAt
      BY <1>4 DEF Cleanup, Stop, Start, DeleteStore, MemoryFrame, vars
    <2>2. process' = "down" => cache' = {}
      BY <1>4 DEF Cleanup, Stop, Start, DeleteStore, MemoryFrame, vars, OrderInv
    <2> QED
      BY <1>2, <2>1, <2>2
  <1> QED
    BY <1>1, <1>3, <1>4 DEF Next

-----------------------------------------------------------------------------

LEMMA Invariance == Spec => []IInv
  <1>1. IInv /\ [Next]_vars => IInv'
    BY TypeStep, MapStep, QuietStep, OrderStep DEF IInv
  <1> QED
    BY InitInv, <1>1, PTL DEF Spec

(* Type correctness; only revocations are cached, stored or being appended. *)
THEOREM TypeCorrect == Spec => []TypeOK
  <1>1. IInv => TypeOK
    BY DEF IInv
  <1> QED
    BY Invariance, <1>1, PTL

(* isValid answers for exactly the tokens in force, through evictions,      *)
(* crashes, restarts and losses of the file.                                *)
THEOREM ValidIffInForceHolds == Spec => []ValidIffInForce
  <1>1. IInv => ValidIffInForce
    BY DEF IInv, TypeOK, MapInv, ValidIffInForce, IsValid
  <1> QED
    BY Invariance, <1>1, PTL

(* A store whose appends are left alone keeps every revocation.             *)
THEOREM QuietStoreIsCompleteHolds == Spec => []QuietStoreIsComplete
  <1>1. IInv => QuietStoreIsComplete
    BY DEF IInv, QuietInv, QuietStoreIsComplete
  <1> QED
    BY Invariance, <1>1, PTL

-----------------------------------------------------------------------------
(* Eviction                                                                *)

(* The natural numbers are well ordered. *)
LEMMA Smallest ==
    ASSUME NEW T \in SUBSET Nat, T # {}
    PROVE  \E x \in T : \A y \in T : x <= y
<1>1. PICK x \in T : \A y \in T : ~(<<y, x>> \in OpToRel(<, Nat))
  BY WFMin, NatLessThanWellFounded
<1>2. \A y \in T : ~(y < x)
  BY <1>1 DEF OpToRel
<1> QED
  BY <1>2

(* What a full cache is left with. *)
Low == MaxSize - MaxSize \div 10

(* The most that adding fills a cache to. *)
Capacity == IF MaxSize > 0 THEN MaxSize ELSE 1

(* One addition. *)
LEMMA AddBounds ==
    ASSUME NEW n \in Nat
    PROVE  /\ sizeAfterAdd(n) \in Nat
           /\ sizeAfterAdd(n) <= n \/ sizeAfterAdd(n) <= Capacity
           /\ sizeAfterAdd(n) = n + 1 \/ sizeAfterAdd(n) >= Low
           /\ n >= Low => sizeAfterAdd(n) >= Low
<1>1. MaxSize \in Nat
  BY StoreAssumption DEF StoreAssumption
<1>2. \A m \in Nat : m \div 10 \in Nat /\ 10 * (m \div 10) <= m /\ m < 10 * (m \div 10) + 10
  OBVIOUS
<1> DEFINE q == n \div 10
           p == MaxSize \div 10
<1>3. q \in Nat /\ 10 * q <= n /\ n < 10 * q + 10
  BY <1>2
<1>4. p \in Nat /\ 10 * p <= MaxSize /\ MaxSize < 10 * p + 10
  BY <1>1, <1>2
<1> HIDE DEF q, p
<1>5. toEvict(n) = IF q > 1 THEN q ELSE IF n > 0 THEN 1 ELSE 0
  BY DEF toEvict, q
<1>6. Low = MaxSize - p
  BY DEF Low, p
<1>7. CASE n < MaxSize
  <2>1. sizeAfterAdd(n) = n + 1
    BY <1>7 DEF sizeAfterAdd
  <2> QED
    BY <1>1, <1>4, <1>6, <1>7, <2>1 DEF Capacity
<1>8. CASE ~(n < MaxSize)
  <2>1. sizeAfterAdd(n) = n - toEvict(n) + 1
    BY <1>8 DEF sizeAfterAdd
  <2>2. CASE n = 0
    <3>1. sizeAfterAdd(n) = 1 /\ MaxSize = 0
      BY <1>1, <1>3, <1>5, <1>8, <2>1, <2>2
    <3> QED
      BY <1>4, <1>6, <2>2, <3>1 DEF Capacity
  <2>3. CASE n > 0 /\ q <= 1
    <3>1. sizeAfterAdd(n) = n
      BY <1>3, <1>5, <2>1, <2>3
    <3> QED
      BY <1>1, <1>4, <1>6, <1>8, <3>1
  <2>4. CASE q > 1
    <3>1. sizeAfterAdd(n) = n - q + 1
      BY <1>5, <2>1, <2>4
    <3>2. n - q + 1 <= n /\ n - q + 1 \in Nat
      BY <1>3, <2>4
    <3>3. n - q >= MaxSize - p
      <4>1. CASE q = p
        BY <1>1, <1>3, <1>4, <1>8, <4>1
      <4>2. CASE q > p
        BY <1>1, <1>3, <1>4, <4>2
      <4>3. CASE q < p
        BY <1>1, <1>3, <1>4, <1>8, <4>3
      <4> QED
        BY <1>3, <1>4, <4>1, <4>2, <4>3
    <3>4. n - q + 1 >= Low
      BY <1>1, <1>3, <1>4, <1>6, <3>3
    <3> QED
      BY <3>1, <3>2, <3>4
  <2> QED
    BY <1>3, <2>2, <2>3, <2>4
<1> QED
  BY <1>1, <1>7, <1>8

(* The sizes of a cache of n entries while k more are added. *)
Sizes(f, n, k) ==
    f = [i \in 0 .. k |-> IF i = 0 THEN n ELSE sizeAfterAdd(f[i - 1])]

LEMMA SizesExist ==
    ASSUME NEW n \in Nat, NEW k \in Nat PROVE \E f : Sizes(f, n, k)
<1> DEFINE Bad == {m \in Nat : ~\E f : Sizes(f, n, m)}
<1>1. SUFFICES ASSUME Bad # {} PROVE FALSE
  OBVIOUS
<1>2. PICK m \in Bad : \A l \in Bad : m <= l
  BY <1>1, Smallest
<1>3. m # 0
  <2>1. Sizes([i \in 0 .. 0 |-> n], n, 0)
    BY DEF Sizes
  <2> QED
    BY <1>2, <2>1
<1>4. m \in Nat /\ m - 1 \in Nat /\ m - 1 \notin Bad
  BY <1>2, <1>3
<1>5. PICK f : Sizes(f, n, m - 1)
  BY <1>4
<1> DEFINE g == [i \in 0 .. m |-> IF i = m THEN sizeAfterAdd(f[m - 1]) ELSE f[i]]
           h == [i \in 0 .. m |-> IF i = 0 THEN n ELSE sizeAfterAdd(g[i - 1])]
<1>6. ASSUME NEW i \in 0 .. m PROVE g[i] = h[i]
  <2>1. \A j \in 0 .. m - 1 : f[j] = IF j = 0 THEN n ELSE sizeAfterAdd(f[j - 1])
    BY <1>5, Zenon DEF Sizes
  <2>2. \A j \in 0 .. m - 1 : g[j] = f[j]
    BY <1>4
  <2>3. CASE i = 0
    <3>1. 0 \in 0 .. m - 1
      BY <1>4
    <3> QED
      BY <2>1, <2>2, <2>3, <3>1
  <2>4. CASE i # 0
    <3>1. i - 1 \in 0 .. m - 1 /\ h[i] = sizeAfterAdd(g[i - 1])
      BY <1>4, <2>4
    <3>2. h[i] = sizeAfterAdd(f[i - 1])
      BY <2>2, <3>1
    <3>3. CASE i = m
      BY <3>2, <3>3
    <3>4. CASE i # m
      <4>1. i \in 0 .. m - 1
        BY <1>4, <3>4
      <4> QED
        BY <2>1, <2>2, <2>4, <3>2, <4>1
    <3> QED
      BY <3>3, <3>4
  <2> QED
    BY <2>3, <2>4
<1>7. g = h
  BY <1>6
<1>8. Sizes(g, n, m)
  BY <1>7, Zenon DEF Sizes
<1> QED
  BY <1>2, <1>8

(* Any number of additions. *)
LEMMA SizeBounds ==
    ASSUME NEW n \in Nat, NEW k \in Nat
    PROVE  /\ sizeAfter(n, k) \in Nat
           /\ sizeAfter(n, k) <= n \/ sizeAfter(n, k) <= Capacity
           /\ sizeAfter(n, k) = n + k \/ sizeAfter(n, k) >= Low
<1> DEFINE f == CHOOSE size : Sizes(size, n, k)
<1>1. sizeAfter(n, k) = f[k]
  BY Zenon DEF sizeAfter, Sizes
<1>2. Sizes(f, n, k)
  BY SizesExist
<1> HIDE DEF f
<1>3. \A i \in 0 .. k : f[i] = IF i = 0 THEN n ELSE sizeAfterAdd(f[i - 1])
  BY <1>2, Zenon DEF Sizes
<1> DEFINE Good(i) == /\ f[i] \in Nat
                      /\ f[i] <= n \/ f[i] <= Capacity
                      /\ f[i] = n + i \/ f[i] >= Low
           Bad == {i \in 0 .. k : ~Good(i)}
<1>4. ASSUME Bad # {} PROVE FALSE
  <2>1. Bad \in SUBSET Nat
    OBVIOUS
  <2>2. PICK i \in Bad : \A j \in Bad : i <= j
    BY <1>4, <2>1, Smallest
  <2>3. i # 0
    <3>1. f[0] = n /\ n + 0 = n /\ 0 \in 0 .. k
      BY <1>3
    <3>2. Good(0)
      BY <3>1
    <3> QED
      BY <2>2, <3>2
  <2>4. i \in 0 .. k /\ i - 1 \in 0 .. k /\ ~(i <= i - 1)
    BY <2>2, <2>3
  <2>5. Good(i - 1)
    BY <2>2, <2>4
  <2>6. f[i] = sizeAfterAdd(f[i - 1])
    BY <1>3, <2>3, <2>4
  <2> DEFINE m == f[i - 1]
  <2>7. m \in Nat /\ (m <= n \/ m <= Capacity) /\ (m = n + (i - 1) \/ m >= Low)
    BY <2>5
  <2> HIDE DEF m
  <2>8. /\ sizeAfterAdd(m) \in Nat
        /\ sizeAfterAdd(m) <= m \/ sizeAfterAdd(m) <= Capacity
        /\ sizeAfterAdd(m) = m + 1 \/ sizeAfterAdd(m) >= Low
        /\ m >= Low => sizeAfterAdd(m) >= Low
    BY <2>7, AddBounds
  <2>9. Capacity \in Nat /\ Low \in Int
    BY StoreAssumption DEF StoreAssumption, Capacity, Low
  <2>10. /\ sizeAfterAdd(m) <= n \/ sizeAfterAdd(m) <= Capacity
         /\ sizeAfterAdd(m) = n + i \/ sizeAfterAdd(m) >= Low
    BY <2>4, <2>7, <2>8, <2>9
  <2>11. f[i] = sizeAfterAdd(m)
    BY <2>6 DEF m
  <2>12. Good(i)
    BY <2>8, <2>10, <2>11
  <2> QED
    BY <2>2, <2>12
<1>5. Good(k)
  BY <1>4
<1> QED
  BY <1>1, <1>5
(* Of a finite set of entries no two of which are equally old, at most k    *)
(* survive; and those evicted, if any, are older than the k that do.        *)
LEMMA Survivors ==
    ASSUME NEW S, IsFiniteSet(S), NEW at, \A t \in S : at[t] \in Nat,
           \A t, u \in S : at[t] = at[u] => t = u, NEW k \in Nat
    PROVE  /\ IsFiniteSet(survivors(S, at, k)) /\ Cardinality(survivors(S, at, k)) <= k
           /\ \A t \in S \ survivors(S, at, k) :
                /\ \A u \in survivors(S, at, k) : at[u] > at[t]
                /\ Cardinality(survivors(S, at, k)) >= k
<1> DEFINE younger(t) == {u \in S : at[u] > at[t]}
           rank == [t \in S |-> Cardinality(younger(t))]
           n == Cardinality(S)
           V == survivors(S, at, k)
<1>1. n \in Nat
  BY FS_CardinalityType
<1>2. ASSUME NEW t \in S
      PROVE  /\ IsFiniteSet(younger(t))
             /\ Cardinality(younger(t)) \in Nat /\ Cardinality(younger(t)) < n
  <2>1. younger(t) \subseteq S /\ t \notin younger(t)
    BY DEF younger
  <2>2. IsFiniteSet(younger(t)) /\ Cardinality(younger(t)) <= n /\ Cardinality(younger(t)) # n
    BY <2>1, FS_Subset
  <2>3. Cardinality(younger(t)) \in Nat
    BY <2>2, FS_CardinalityType
  <2> QED
    BY <1>1, <2>2, <2>3
<1>3. ASSUME NEW t \in S, NEW u \in S, at[t] < at[u] PROVE rank[u] < rank[t]
  <2>1. younger(u) \subseteq younger(t) /\ u \in younger(t) /\ u \notin younger(u)
    BY <1>3
  <2>2. Cardinality(younger(u)) <= Cardinality(younger(t))
        /\ Cardinality(younger(u)) # Cardinality(younger(t))
    BY <1>2, <2>1, FS_Subset
  <2>3. Cardinality(younger(u)) \in Nat /\ Cardinality(younger(t)) \in Nat
    BY <1>2
  <2> QED
    BY <2>2, <2>3
<1>4. V \subseteq S /\ \A t \in S : t \in V <=> rank[t] < k
  BY DEF survivors
<1>5. \A t \in S : rank[t] = Cardinality(younger(t))
  OBVIOUS
<1> HIDE DEF younger, rank, n, V
<1>6. \A t \in S : rank[t] \in Nat /\ rank[t] < n
  BY <1>2, <1>5
<1>7. /\ IsFiniteSet(V)
      /\ \A t \in V : rank[t] \in 0 .. k - 1
      /\ \A t, u \in S : rank[t] = rank[u] => t = u
  <2>1. IsFiniteSet(V)
    BY <1>4, FS_Subset
  <2>2. \A t \in V : rank[t] \in 0 .. k - 1
    BY <1>4, <1>6
  <2>3. ASSUME NEW t \in S, NEW u \in S, rank[t] = rank[u] PROVE t = u
    <3>1. ~(at[t] < at[u]) /\ ~(at[u] < at[t])
      BY <1>3, <1>6, <2>3
    <3> QED
      BY <3>1
  <2> QED
    BY <2>1, <2>2, <2>3
<1> DEFINE place == [t \in V |-> rank[t]]
<1>8. /\ place \in [V -> 0 .. k - 1]
      /\ \A t, u \in V : place[t] = place[u] => t = u
  BY <1>4, <1>7
<1>9. IsFiniteSet(0 .. k - 1) /\ Cardinality(0 .. k - 1) = k
  BY FS_Interval
<1>10. Cardinality(V) <= k
  <2>1. place \in Injection(V, 0 .. k - 1)
    BY <1>8 DEF Injection, IsInjective
  <2> QED
    BY <1>9, <2>1, FS_Injection
<1>11. ASSUME NEW t \in S \ V PROVE Cardinality(V) >= k
  <2>1. rank \in Injection(S, 0 .. n - 1)
    <3>1. rank \in [S -> 0 .. n - 1]
      <4>1. \A u \in S : rank[u] \in 0 .. n - 1
        BY <1>1, <1>6
      <4> QED
        BY <4>1 DEF rank
    <3> QED
      BY <1>7, <3>1 DEF Injection, IsInjective
  <2>2. IsFiniteSet(0 .. n - 1) /\ Cardinality(0 .. n - 1) = n
    BY <1>1, FS_Interval
  <2>3. rank \in Surjection(S, 0 .. n - 1)
    BY <2>1, <2>2, FS_Injection DEF n
  <2>4. \A r \in 0 .. n - 1 : \E u \in S : rank[u] = r
    BY <2>3 DEF Surjection
  <2>5. rank[t] \in Nat /\ rank[t] < n /\ ~(rank[t] < k)
    BY <1>4, <1>6
  <2>6. ASSUME NEW r \in 0 .. k - 1 PROVE \E u \in V : place[u] = r
    <3>1. r \in 0 .. n - 1 /\ r < k
      BY <1>1, <2>5
    <3>2. PICK u \in S : rank[u] = r
      BY <2>4, <3>1
    <3> QED
      BY <1>4, <3>1, <3>2
  <2>7. place \in Surjection(V, 0 .. k - 1)
    BY <1>8, <2>6 DEF Surjection
  <2> HIDE DEF place
  <2>8. Cardinality(0 .. k - 1) <= Cardinality(V)
    BY <1>7, <2>7, FS_Surjection
  <2>9. Cardinality(V) \in Nat
    BY <1>7, FS_CardinalityType
  <2> QED
    BY <1>9, <2>8, <2>9
<1>12. ASSUME NEW t \in S \ V, NEW u \in V PROVE at[u] > at[t]
  <2>1. u \in S /\ rank[u] < k /\ ~(rank[t] < k) /\ u # t
    BY <1>4
  <2>2. rank[u] \in Nat /\ rank[t] \in Nat
    BY <1>6, <2>1
  <2>3. ~(at[u] < at[t])
    BY <1>3, <2>1, <2>2
  <2>4. at[u] # at[t]
    BY <2>1
  <2> QED
    BY <2>1, <2>3, <2>4
<1> QED
  BY <1>7, <1>10, <1>11, <1>12 DEF V

-----------------------------------------------------------------------------
(* The capacity                                                            *)

(* What a step does to the cache, when it is not a restart. *)
LEMMA CacheStep ==
    ASSUME [Next]_vars
    PROVE  \/ RevokeSome
           \/ Revoked' = Revoked /\ (process = "down" \/ cache' \subseteq cache)
<1>1. CASE Cleanup \/ Stop \/ Start \/ DeleteStore \/ UNCHANGED vars
  BY <1>1, SameRevoked DEF Cleanup, Stop, Start, DeleteStore, MemoryFrame, vars
<1>2. ASSUME NEW t \in Tokens, Register(t) \/ Forget(t) \/ Expire(t) \/ Append(t)
      PROVE  Revoked' = Revoked /\ cache' \subseteq cache
  BY <1>2, SameRevoked
  DEF Register, Forget, Expire, Append, Load, LoadCorrupted, Truncate, Write,
      AppendFails, MemoryFrame
<1> QED
  BY <1>1, <1>2 DEF Next

(* What a running gateway forgets without a revocation has expired, unless  *)
(* it stops.                                                                *)
LEMMA StepForgets ==
    ASSUME [Next]_vars, ~RevokeSome, process = "up"
    PROVE  cache \ cache' \subseteq expired \/ process' = "down"
<1>1. ASSUME NEW t \in Tokens, Forget(t) PROVE cache \ cache' \subseteq expired
  BY <1>1 DEF Forget
<1>2. ASSUME NEW t \in Tokens, Register(t) \/ Expire(t) \/ Append(t)
      PROVE  cache' = cache
  BY <1>2
  DEF Register, Expire, Append, Load, LoadCorrupted, Truncate, Write, AppendFails, MemoryFrame
<1>3. CASE Cleanup
  BY <1>3 DEF Cleanup
<1>4. CASE Stop
  BY <1>4 DEF Stop
<1>5. CASE Start \/ DeleteStore \/ UNCHANGED vars
  BY <1>5 DEF Start, DeleteStore, vars
<1> QED
  BY <1>1, <1>2, <1>3, <1>4, <1>5 DEF Next

(* What a revocation of T leaves in the cache: at most as many entries as   *)
(* were there or as it may hold, and, if it evicts one, those that are      *)
(* younger, which are nearly as many as it may hold.                        *)
LEMMA RevokeCache ==
    ASSUME TypeOK, MapInv, OrderInv, NEW T \in SUBSET registered, Revoke(T)
    PROVE  /\ Cardinality(cache) \in Nat /\ Cardinality(cache') \in Nat
           /\ \/ Cardinality(cache') <= Cardinality(cache)
              \/ Cardinality(cache') <= Capacity
           /\ \A t \in (cache \cup T) \ cache' :
                /\ \A u \in cache' : revokedAt'[u] > revokedAt'[t]
                /\ Cardinality(cache') >= Low
<1> DEFINE n == Cardinality(cache)
           k == Cardinality(T)
           size == sizeAfter(n, k)
           S == cache \cup T
<1>1. /\ Revoked' = Revoked \cup T /\ revokedAt' \in [Tokens -> Nat]
      /\ S \subseteq Revoked' /\ S \subseteq Tokens /\ T \cap cache = {}
  BY RevokedGrows DEF TypeOK, MapInv, Revoked
<1>2. IsFiniteSet(cache) /\ IsFiniteSet(T) /\ IsFiniteSet(S) /\ n \in Nat /\ k \in Nat
  BY <1>1, StoreAssumption, FS_Subset, FS_CardinalityType DEF StoreAssumption
<1>3. Cardinality(S) = n + k
  <2>1. cache \cap T = {}
    BY <1>1
  <2>2. Cardinality(cache \cap T) = 0
    BY <2>1, FS_EmptySet
  <2>3. Cardinality(cache \cup T) = Cardinality(cache) + Cardinality(T)
                                      - Cardinality(cache \cap T)
    BY <1>2, FS_Union
  <2>4. Cardinality(cache \cup T) = Cardinality(cache) + Cardinality(T) - 0
    BY <2>2, <2>3
  <2> HIDE DEF n, k, S
  <2>5. Cardinality(S) = n + k - 0
    BY <2>4 DEF n, k, S
  <2> QED
    BY <1>2, <2>5
<1>4. /\ size \in Nat /\ (size <= n \/ size <= Capacity)
      /\ size = n + k \/ size >= Low
  BY <1>2, SizeBounds
<1>5. cache' = survivors(S, revokedAt', size)
  BY DEF Revoke
<1>6. /\ \A t \in S : revokedAt'[t] \in Nat
      /\ \A t, u \in S : revokedAt'[t] = revokedAt'[u] => t = u
  BY <1>1, RevokeOrder
<1>7. cache' \subseteq S
  BY RevokedGrows
<1> HIDE DEF size, S, n, k
<1>8. /\ IsFiniteSet(cache') /\ Cardinality(cache') <= size
      /\ \A t \in S \ cache' : /\ \A u \in cache' : revokedAt'[u] > revokedAt'[t]
                               /\ Cardinality(cache') >= size
  BY <1>2, <1>4, <1>5, <1>6, Survivors
<1>9. Cardinality(cache') \in Nat
  BY <1>8, FS_CardinalityType
<1>10. Low \in Int /\ Capacity \in Nat
  BY StoreAssumption DEF StoreAssumption, Low, Capacity
<1>11. Cardinality(cache') <= n \/ Cardinality(cache') <= Capacity
  BY <1>2, <1>4, <1>8, <1>9, <1>10
<1>12. ASSUME NEW t \in S \ cache' PROVE Cardinality(cache') >= Low
  <2>1. Cardinality(cache') < n + k
    <3>1. Cardinality(cache') <= Cardinality(S) /\ Cardinality(cache') # Cardinality(S)
      BY <1>2, <1>7, FS_Subset
    <3> QED
      BY <1>2, <1>3, <1>9, <3>1
  <2>2. Cardinality(cache') >= size
    BY <1>8
  <2> QED
    BY <1>2, <1>4, <1>9, <1>10, <2>1, <2>2
<1> QED
  BY <1>2, <1>8, <1>9, <1>11, <1>12 DEF n, S

(* Whatever is revoked at once and whatever was loaded, a running gateway   *)
(* forgets a revocation in force only if it is older than all it keeps, and *)
(* those are nine tenths of its capacity at least.                          *)
THEOREM EvictsOldestHolds == Spec => EvictsOldest
<1> DEFINE Kept == \A t \in (cache \cup (Revoked' \ Revoked)) \ cache' :
                     \/ t \in expired \/ process' = "down"
                     \/ Cardinality({u \in cache' : revokedAt'[u] > revokedAt'[t]})
                          >= MaxSize - MaxSize \div 10
<1>1. ASSUME IInv, [Next]_vars PROVE Kept
  <2> SUFFICES ASSUME NEW t \in (cache \cup (Revoked' \ Revoked)) \ cache'
               PROVE  \/ t \in expired \/ process' = "down"
                      \/ Cardinality({u \in cache' : revokedAt'[u] > revokedAt'[t]}) >= Low
    BY DEF Low
  <2>1. CASE RevokeSome
    <3>1. PICK T \in SUBSET registered : Revoke(T)
      BY <2>1 DEF RevokeSome
    <3>2. t \in (cache \cup T) \ cache'
      BY <1>1, <3>1, RevokedGrows DEF IInv
    <3>3. (\A u \in cache' : revokedAt'[u] > revokedAt'[t]) /\ Cardinality(cache') >= Low
      BY <1>1, <3>1, <3>2, RevokeCache DEF IInv
    <3>4. {u \in cache' : revokedAt'[u] > revokedAt'[t]} = cache'
      BY <3>3
    <3> QED
      BY <3>3, <3>4
  <2>2. CASE ~RevokeSome
    <3>1. Revoked' = Revoked /\ t \in cache
      BY <1>1, <2>2, CacheStep
    <3>2. process = "up"
      BY <1>1, <3>1 DEF IInv, OrderInv, TypeOK
    <3> QED
      BY <1>1, <2>2, <3>1, <3>2, StepForgets
  <2> QED
    BY <2>1, <2>2
<1>2. EvictsOldest <=> [][Kept]_vars
  BY DEF EvictsOldest
<1> QED
  BY Invariance, <1>1, <1>2, PTL DEF Spec

(* Only the load of the store fills the cache beyond its capacity, for any  *)
(* capacity, any number of revocations at once and any size it was loaded   *)
(* with; a capacity of zero still holds one.                                *)
THEOREM CapacityIsKept == Spec => CapacityKept
<1> DEFINE Kept == (process = "up" /\ Cardinality(cache') > Cardinality(cache))
                     => \/ Cardinality(cache') <= MaxSize
                        \/ MaxSize = 0 /\ Cardinality(cache') = 1
<1>1. ASSUME IInv, [Next]_vars PROVE Kept
  <2> SUFFICES ASSUME process = "up", Cardinality(cache') > Cardinality(cache)
               PROVE  \/ Cardinality(cache') <= MaxSize
                      \/ MaxSize = 0 /\ Cardinality(cache') = 1
    OBVIOUS
  <2>1. CASE RevokeSome
    <3>1. PICK T \in SUBSET registered : Revoke(T)
      BY <2>1 DEF RevokeSome
    <3>2. /\ Cardinality(cache) \in Nat /\ Cardinality(cache') \in Nat
          /\ Cardinality(cache') <= Cardinality(cache) \/ Cardinality(cache') <= Capacity
      BY <1>1, <3>1, RevokeCache DEF IInv
    <3>3. Cardinality(cache') <= Capacity /\ Cardinality(cache') > 0
      BY <3>2
    <3> QED
      BY <3>2, <3>3, StoreAssumption DEF StoreAssumption, Capacity
  <2>2. CASE ~RevokeSome
    <3>1. cache' \subseteq cache
      BY <1>1, <2>2, CacheStep
    <3>2. IsFiniteSet(cache)
      BY <1>1, StoreAssumption, FS_Subset DEF StoreAssumption, IInv, TypeOK, Revoked
    <3>3. Cardinality(cache') <= Cardinality(cache) /\ Cardinality(cache) \in Nat
          /\ Cardinality(cache') \in Nat
      BY <3>1, <3>2, FS_Subset, FS_CardinalityType
    <3> QED
      BY <3>3
  <2> QED
    BY <2>1, <2>2
<1>2. CapacityKept <=> [][Kept]_vars
  BY DEF CapacityKept
<1> QED
  BY Invariance, <1>1, <1>2, PTL DEF Spec

-----------------------------------------------------------------------------
(* What the gateway relies on                                              *)

(* The registry's promise, kept by the map and the cache together. *)
Live == INSTANCE LiveTokens WITH
    live <- {t \in Tokens : IsValid(t)},
    dead <- Revoked \cup expired

(* A step of the store is one of the promise's, or nobody sees it. *)
LEMMA LiveStep == IInv /\ IInv' /\ [Next]_vars => [Live!Next]_(Live!liveTokensVars)
  <1> SUFFICES ASSUME IInv, IInv', [Next]_vars
               PROVE  Live!Next \/ UNCHANGED Live!liveTokensVars
    OBVIOUS
  <1> DEFINE live == {t \in Tokens : IsValid(t)}
             dead == Revoked \cup expired
             same == live' = live /\ dead' = dead
  <1>1. live = issuedHere \ dead /\ live' = issuedHere' \ dead'
    BY DEF IInv, TypeOK, MapInv, IsValid
  <1>2. issuedHere \subseteq Tokens /\ expired \subseteq Tokens /\ Revoked \subseteq Tokens
    BY DEF IInv, TypeOK, Revoked
  <1> HIDE DEF live, dead
  <1>3. same => UNCHANGED Live!liveTokensVars
    BY DEF Live!liveTokensVars, live, dead
  <1>4. \A T \in SUBSET Tokens :
           live' = live \ T /\ dead' = dead \cup T => Live!Next
    BY DEF Live!Next, Live!Work, Live!End, live, dead
  <1>5. CASE \E t \in Tokens : Register(t)
    <2> PICK t \in Tokens : Register(t)
      BY <1>5
    <2>1. dead' = dead /\ t \notin dead
      BY SameRevoked DEF Register, dead, Revoked
    <2>2. t \notin live /\ live' = live \cup {t}
      BY <1>1, <2>1 DEF Register
    <2> QED
      BY <2>1, <2>2 DEF Live!Next, Live!Work, Live!Issue, live, dead
  <1>6. CASE RevokeSome
    <2> PICK T \in SUBSET registered : Revoke(T)
      BY <1>6 DEF RevokeSome
    <2>1. T \in SUBSET Tokens
      BY DEF IInv, TypeOK
    <2>2. Revoked' = Revoked \cup T
      BY RevokedGrows DEF IInv
    <2>3. issuedHere' = issuedHere /\ expired' = expired
      BY DEF Revoke
    <2>4. dead' = dead \cup T
      BY <2>2, <2>3 DEF dead
    <2>5. live' = live \ T
      BY <1>1, <2>3, <2>4
    <2> QED
      BY <1>4, <2>1, <2>4, <2>5
  <1>7. CASE \E t \in Tokens : Expire(t)
    <2> PICK t \in Tokens : Expire(t)
      BY <1>7
    <2>1. issuedHere' = issuedHere /\ expired' = expired \cup {t}
      BY DEF Expire
    <2>2. dead' = dead \cup {t}
      BY <2>1, SameRevoked DEF Expire, dead
    <2>3. live' = live \ {t}
      BY <1>1, <2>1, <2>2
    <2> QED
      BY <1>4, <2>2, <2>3
  <1>8. CASE Stop
    <2>1. dead' = dead
      BY <1>8, SameRevoked DEF Stop, dead
    <2>2. live' = {}
      BY <1>1, <1>8 DEF Stop
    <2> QED
      BY <2>1, <2>2 DEF Live!Next, Live!Stop, live, dead
  <1>9. CASE \/ \E t \in Tokens : Forget(t) \/ Append(t)
             \/ Cleanup \/ Start \/ DeleteStore
             \/ UNCHANGED vars
    <2>1. UNCHANGED <<issuedHere, revokedAt, expired>>
      BY <1>9 DEF Forget, Append, Load, LoadCorrupted, Truncate, Write, AppendFails,
                  Cleanup, Start, DeleteStore, MemoryFrame, vars
    <2>2. dead' = dead
      BY <2>1, SameRevoked DEF dead
    <2>3. live' = live
      BY <1>1, <2>1, <2>2
    <2> QED
      BY <1>3, <2>2, <2>3
  <1> QED
    BY <1>5, <1>6, <1>7, <1>8, <1>9 DEF Next

(* The store implements the registry's promise: what the cache evicts, what *)
(* the file loses, a restart and what it loads from the file are seen by    *)
(* nobody who asks isValid; a token revoked or expired is never valid again. *)
THEOREM StoreImplementsRegistry == Spec => Live!Spec
  <1>1. Init => Live!Init
    BY DEF Init, Live!Init, IsValid, Revoked
  <1> QED
    BY <1>1, Invariance, LiveStep, PTL DEF Spec, Live!Spec
=============================================================================
