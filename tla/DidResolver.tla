----------------------------- MODULE DidResolver -----------------------------
(***************************************************************************)
(* The gateway's resolver of did:key identifiers: did-key-resolver.ts and  *)
(* did-document.ts, and the cache in front of them (identity/cache.ts).    *)
(* An identifier is a record of what its parsing tells apart; decoding is  *)
(* a field of it.                                                          *)
(***************************************************************************)
EXTENDS Integers, SequencesExt

CONSTANTS
    Dids,
    maxSize, lifetime,  (* the configuration of the cache                    *)
    MaxNow              (* bounds the time explored                          *)

ASSUME CacheAssumption == maxSize \in Nat \ {0} /\ lifetime \in Nat /\ MaxNow \in Nat

VARIABLES
    now,
    entries,            (* the keys with an entry and when each expires      *)
    insertionOrder

cacheVars == <<now, entries, insertionOrder>>

CacheInit ==
    /\ now = 0
    /\ entries = [d \in {} |-> 0]
    /\ insertionOrder = <<>>

-----------------------------------------------------------------------------
(* Parsing                                                                 *)

(* The first check that fails names the error, in the code's order. *)
validateDIDStructure(did) ==
    IF did.scheme # "did" \/ did.method = "" THEN "invalidDid"
    ELSE IF did.method # "key" THEN "methodNotSupported"
    ELSE IF did.key = "none" THEN "invalidDid"
    ELSE "ok"

decodeMultibaseKey(did) ==
    CASE did.key = "not base58btc" -> "invalidMultibase"
      [] did.key = "too short" -> "invalidDid"
      [] did.key = "broken varint" -> "internalError"
      [] did.key = "other codec" -> "unsupportedPublicKeyType"
      [] did.key = "wrong length" -> "invalidPublicKey"
      [] OTHER -> "ok"

parseDIDKey(did) ==
    IF validateDIDStructure(did) = "ok" THEN decodeMultibaseKey(did)
                                        ELSE validateDIDStructure(did)

(* The one verification method of the document holds the key itself. *)
resolveDIDKey(did) ==
    IF parseDIDKey(did) = "ok" THEN [error |-> "none", publicKey |-> did.key]
                               ELSE [error |-> parseDIDKey(did), publicKey |-> "none"]

-----------------------------------------------------------------------------
(* The cache                                                               *)

(* What get answers for.  It deletes an entry that has expired when it is   *)
(* asked for it; the resolver then sets it, and set deletes them all first. *)
Unexpired == {d \in DOMAIN entries : entries[d] > now}

(* The order once the keys in S are spliced out of it. *)
Without(order, S) ==
    LET left[n \in 0..Len(order)] ==
          IF n = 0 THEN <<>>
          ELSE IF order[n] \in S THEN left[n - 1] ELSE Append(left[n - 1], order[n])
    IN  left[Len(order)]

(* What removeExpired leaves of the order. *)
KeysLeft == Without(insertionOrder, DOMAIN entries \ Unexpired)

(* Faulty variant: the cache may be full and take one more. *)
evictOldestLate ==
    Min({n \in 0..Len(KeysLeft) :
           \/ Cardinality(Unexpired \ ToSet(SubSeq(KeysLeft, 1, n))) <= maxSize
           \/ n = Len(KeysLeft)})

(* How many of the oldest keys go before there is place for one more. *)
evictOldest ==
    Min({n \in 0..Len(KeysLeft) :
           \/ Cardinality(Unexpired \ ToSet(SubSeq(KeysLeft, 1, n))) < maxSize
           \/ n = Len(KeysLeft)})

set(key) ==
    LET known == key \in ToSet(KeysLeft)
        evicted == IF known THEN {} ELSE ToSet(SubSeq(KeysLeft, 1, evictOldest))
    IN  /\ insertionOrder' = Append(Without(KeysLeft, evicted \cup {key}), key)
        /\ entries' = [d \in (Unexpired \ evicted) \cup {key} |->
                         IF d = key THEN now + lifetime ELSE entries[d]]

(* From the cache, or afresh; failures are not cached. *)
resolve(did) ==
    /\ IF did \in Unexpired \/ resolveDIDKey(did).error # "none"
       THEN UNCHANGED <<entries, insertionOrder>>
       ELSE set(did)
    /\ UNCHANGED now

clearCache ==
    /\ entries' = [d \in {} |-> 0]
    /\ insertionOrder' = <<>>
    /\ UNCHANGED now

PassTime ==
    /\ now < MaxNow
    /\ now' = now + 1
    /\ UNCHANGED <<entries, insertionOrder>>

CacheTypeOK ==
    /\ now \in 0..MaxNow
    /\ DOMAIN entries \subseteq Dids
    /\ \A d \in DOMAIN entries : entries[d] \in 0..(MaxNow + lifetime)

-----------------------------------------------------------------------------
(* Properties                                                              *)

(* The map and the order that evicts from it hold the same keys, each once, *)
(* and no more than the cache is to hold; the order is that of expiry, so   *)
(* that the oldest evicted is the first that would expire; only what could  *)
(* be resolved is there.                                                    *)
CacheConsistent ==
    /\ ToSet(insertionOrder) = DOMAIN entries
    /\ IsInjective(insertionOrder)
    /\ Len(insertionOrder) <= maxSize
    /\ \A i, j \in DOMAIN insertionOrder :
         i < j => entries[insertionOrder[i]] <= entries[insertionOrder[j]]
    /\ \A d \in DOMAIN entries : resolveDIDKey(d).error = "none"
=============================================================================
