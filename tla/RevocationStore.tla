--------------------------- MODULE RevocationStore ---------------------------
(***************************************************************************)
(* The gateway's revocations through crashes and restarts (tokens/): the   *)
(* registry's map, the bounded revocation cache and the file behind it.    *)
(* Map and cache are written without an await.  The file is not: append    *)
(* loads it, adds its entry and saves the result, nobody waits for it, and *)
(* nothing orders two appends, so every access to the file is a step.      *)
(* Every revocation appends once, so its token names the append.           *)
(***************************************************************************)
EXTENDS Naturals, FiniteSets, Functions

CONSTANTS
    Tokens,   (* the jtis the generator may draw: bounds the tokens issued  *)
    MaxSize   (* maxRevocationCacheSize                                     *)

ASSUME StoreAssumption == IsFiniteSet(Tokens) /\ MaxSize \in Nat

VARIABLES
    (* lost in a crash *)
    registered,  (* the keys of the registry's map                          *)
    cache,       (* the keys of the revocation cache                        *)
    append,      (* where the append of each token is                       *)
    holding,     (* the entries an append has read, its own added           *)
    process,     (* "up" or "down"                                          *)
    (* durable *)
    file,        (* the store: its condition and the entries it parses to   *)
    (* the world *)
    issuedHere,  (* the tokens this process has issued                      *)
    revokedAt,   (* the order of the revocations, 0 before                  *)
    expired,     (* the tokens whose expiresAt has passed                   *)
    quiet        (* history: appends never met, failed or were cut off      *)

vars == <<registered, cache, append, holding, process, file, issuedHere,
          revokedAt, expired, quiet>>

Revoked == {t \in Tokens : revokedAt[t] > 0}

Pending == {t \in Tokens : append[t] \in {"load", "save", "write"}}

(* writeFile truncates before it writes, and writes from the start of the   *)
(* file: "empty" is the file in between, "torn" one that does not parse.    *)
Missing == [is |-> "missing", entries |-> {}]
Empty == [is |-> "empty", entries |-> {}]
Torn == [is |-> "torn", entries |-> {}]
Parses(S) == [is |-> "parses", entries |-> S]

Init ==
    /\ registered = {}
    /\ cache = {}
    /\ append = [t \in Tokens |-> "none"]
    /\ holding = [t \in Tokens |-> {}]
    /\ process = "up"
    /\ file = Missing
    /\ issuedHere = {}
    /\ revokedAt = [t \in Tokens |-> 0]
    /\ expired = {}
    /\ quiet = TRUE

MemoryFrame == UNCHANGED <<registered, cache, process, issuedHere, revokedAt, expired>>
FileFrame == UNCHANGED <<append, holding, file, quiet>>

-----------------------------------------------------------------------------
(* The registry and the cache                                              *)

IsValid(t) ==
    /\ t \notin cache \ expired
    /\ t \in registered
    /\ t \notin expired

(* A token of an earlier process that left no trace stands for a new one. *)
Register(t) ==
    /\ process = "up"
    /\ t \notin issuedHere /\ revokedAt[t] = 0 /\ t \notin expired
    /\ registered' = registered \cup {t}
    /\ issuedHere' = issuedHere \cup {t}
    /\ UNCHANGED <<cache, process, revokedAt, expired>>
    /\ FileFrame

(* Faulty variant: there is room for one more. *)
sizeAfterAddOffByOne(n) == IF n <= MaxSize THEN n + 1 ELSE n

(* evictIfNeeded drops a tenth of a full cache, at least one entry, then    *)
(* the new entry is added.                                                  *)
toEvict(n) == IF n \div 10 > 1 THEN n \div 10 ELSE IF n > 0 THEN 1 ELSE 0

sizeAfterAdd(n) == IF n < MaxSize THEN n + 1 ELSE n - toEvict(n) + 1

sizeAfter(n, k) ==
    LET size[i \in 0 .. k] == IF i = 0 THEN n ELSE sizeAfterAdd(size[i - 1])
    IN  size[k]

(* Faulty variant: the newest entries are evicted. *)
survivorsOldest(S, at, k) == {t \in S : Cardinality({u \in S : at[u] < at[t]}) < k}

(* The oldest revocations are evicted first. *)
survivors(S, at, k) == {t \in S : Cardinality({u \in S : at[u] > at[t]}) < k}

(* Faulty variant: the tokens stay in the map. *)
RevokeKeepsEntries(T) ==
    LET n == Cardinality(Revoked)
    IN  \E stamp \in Bijection(T, n + 1 .. n + Cardinality(T)) :
          /\ revokedAt' = [t \in Tokens |-> IF t \in T THEN stamp[t] ELSE revokedAt[t]]
          /\ cache' = survivors(cache \cup T, revokedAt',
                                sizeAfter(Cardinality(cache), Cardinality(T)))
          /\ append' = [t \in Tokens |-> IF t \in T THEN "load" ELSE append[t]]
          /\ quiet' = (quiet /\ Pending = {} /\ Cardinality(T) = 1)
          /\ UNCHANGED <<registered, holding, process, file, issuedHere, expired>>

(* revokeBySession and revokeByOperator: the tokens leave the map and enter *)
(* the cache one after the other, and an append starts for each of them.    *)
Revoke(T) ==
    LET n == Cardinality(Revoked)
    IN  \E stamp \in Bijection(T, n + 1 .. n + Cardinality(T)) :
          /\ registered' = registered \ T
          /\ revokedAt' = [t \in Tokens |-> IF t \in T THEN stamp[t] ELSE revokedAt[t]]
          /\ cache' = survivors(cache \cup T, revokedAt',
                                sizeAfter(Cardinality(cache), Cardinality(T)))
          /\ append' = [t \in Tokens |-> IF t \in T THEN "load" ELSE append[t]]
          /\ quiet' = (quiet /\ Pending = {} /\ Cardinality(T) = 1)
          /\ UNCHANGED <<holding, process, file, issuedHere, expired>>

RevokeSome ==
    /\ process = "up"
    /\ \E T \in SUBSET registered : T # {} /\ Revoke(T)

(* isRevoked forgets an entry it finds expired. *)
Forget(t) ==
    /\ process = "up"
    /\ t \in cache \cap expired
    /\ cache' = cache \ {t}
    /\ UNCHANGED <<registered, process, issuedHere, revokedAt, expired>>
    /\ FileFrame

Cleanup ==
    /\ process = "up"
    /\ registered' = registered \ expired
    /\ cache' = cache \ expired
    /\ UNCHANGED <<process, issuedHere, revokedAt, expired>>
    /\ FileFrame

Expire(t) ==
    /\ t \in issuedHere \cup Revoked
    /\ expired' = expired \cup {t}
    /\ UNCHANGED <<registered, cache, process, issuedHere, revokedAt>>
    /\ FileFrame

-----------------------------------------------------------------------------
(* append                                                                  *)

Goto(t, step) == append' = [append EXCEPT ![t] = step]

(* Faulty variant: what the file held is forgotten. *)
LoadNothing(t) ==
    /\ append[t] = "load"
    /\ file.is \in {"missing", "parses"}
    /\ holding' = [holding EXCEPT ![t] = {t}]
    /\ Goto(t, "save")
    /\ UNCHANGED <<file, quiet>>
    /\ MemoryFrame

(* Faulty variant: the keys of the map are saved as well. *)
LoadMap(t) ==
    /\ append[t] = "load"
    /\ file.is \in {"missing", "parses"}
    /\ holding' = [holding EXCEPT ![t] = file.entries \cup {t} \cup registered]
    /\ Goto(t, "save")
    /\ UNCHANGED <<file, quiet>>
    /\ MemoryFrame

(* load: the entries of the file, none if it is missing. *)
Load(t) ==
    /\ append[t] = "load"
    /\ file.is \in {"missing", "parses"}
    /\ holding' = [holding EXCEPT ![t] = file.entries \cup {t}]
    /\ Goto(t, "save")
    /\ UNCHANGED <<file, quiet>>
    /\ MemoryFrame

(* load: the file does not parse, as when another append is saving. *)
LoadCorrupted(t) ==
    /\ append[t] = "load"
    /\ file.is \in {"empty", "torn"}
    /\ Goto(t, "failed")
    /\ UNCHANGED <<holding, file, quiet>>
    /\ MemoryFrame

(* save: writeFile opens the file, which empties it, ... *)
Truncate(t) ==
    /\ append[t] = "save"
    /\ file' = Empty
    /\ Goto(t, "write")
    /\ UNCHANGED <<holding, quiet>>
    /\ MemoryFrame

(* ... and writes from its start, over what another append may have written *)
(* by then: if that was longer (the reasons are of any length), its tail    *)
(* stays behind.                                                            *)
Overwritten(t) ==
    IF file.is \in {"parses", "torn"} THEN {Parses(holding[t]), Torn}
                                      ELSE {Parses(holding[t])}

Write(t) ==
    /\ append[t] = "write"
    /\ file' \in Overwritten(t)
    /\ Goto(t, "stored")
    /\ UNCHANGED <<holding, quiet>>
    /\ MemoryFrame

(* An access to the file fails; a write that fails leaves part of the text. *)
AppendFails(t) ==
    /\ t \in Pending
    /\ IF append[t] = "write" THEN file' \in {file, Torn} ELSE UNCHANGED file
    /\ Goto(t, "failed")
    /\ quiet' = FALSE
    /\ UNCHANGED holding
    /\ MemoryFrame

Append(t) == Load(t) \/ LoadCorrupted(t) \/ Truncate(t) \/ Write(t) \/ AppendFails(t)

-----------------------------------------------------------------------------
(* Crash, shutdown and start                                               *)

(* A crash, or the shutdown, which does not wait for the appends. *)
Stop ==
    /\ process = "up"
    /\ process' = "down"
    /\ registered' = {} /\ cache' = {} /\ issuedHere' = {}
    /\ append' = [t \in Tokens |-> IF t \in Pending THEN "failed" ELSE append[t]]
    /\ holding' = [t \in Tokens |-> {}]
    /\ \/ UNCHANGED file
       \/ (\E t \in Tokens : append[t] = "write") /\ file' = Torn
    /\ quiet' = (quiet /\ Pending = {})
    /\ UNCHANGED <<revokedAt, expired>>

(* main loads the store, whatever MaxSize is, before it listens. *)
Start ==
    /\ process = "down"
    /\ file.is \in {"missing", "parses"}
    /\ process' = "up"
    /\ cache' = file.entries \ expired
    /\ UNCHANGED <<registered, issuedHere, revokedAt, expired>>
    /\ FileFrame

(* It exits when the store does not parse: "backup and delete it". *)
DeleteStore ==
    /\ process = "down"
    /\ file.is \in {"empty", "torn"}
    /\ file' = Missing
    /\ UNCHANGED <<append, holding, quiet>>
    /\ MemoryFrame

Next ==
    \/ \E t \in Tokens : Register(t) \/ Forget(t) \/ Expire(t) \/ Append(t)
    \/ RevokeSome
    \/ Cleanup
    \/ Stop \/ Start \/ DeleteStore

Spec == Init /\ [][Next]_vars

-----------------------------------------------------------------------------

(* Every variable has its type; cache, file and appends hold revocations.   *)
TypeOK ==
    /\ registered \subseteq Tokens
    /\ issuedHere \subseteq Tokens
    /\ expired \subseteq Tokens
    /\ revokedAt \in [Tokens -> Nat]
    /\ cache \subseteq Revoked
    /\ append \in [Tokens -> {"none", "load", "save", "write", "stored", "failed"}]
    /\ {t \in Tokens : append[t] # "none"} \subseteq Revoked
    /\ holding \in [Tokens -> SUBSET Revoked]
    /\ file \in {Missing, Empty, Torn} \cup {Parses(S) : S \in SUBSET Revoked}
    /\ process \in {"up", "down"}
    /\ quiet \in BOOLEAN

(* A token is valid exactly while the process that issued it runs, it has   *)
(* not been revoked and has not expired, whatever the cache evicts and the  *)
(* file loses: isValid needs both the map and the cache for this.           *)
ValidIffInForce ==
    \A t \in Tokens : IsValid(t) <=> t \in issuedHere \ (Revoked \cup expired)

(* As long as appends meet neither each other nor a crash nor an error, the *)
(* file is readable and holds every revocation appended to it; a restart    *)
(* finds them all.                                                          *)
QuietStoreIsComplete ==
    quiet =>
        /\ file.is # "torn"
        /\ file.is = "empty" => \E t \in Tokens : append[t] = "write"
        /\ (\A t \in Tokens : append[t] # "write") => Revoked \ Pending \subseteq file.entries
        /\ \A t \in Tokens : append[t] = "write" => Revoked \subseteq holding[t]

(* What makes the properties inductive: the map holds what is in force and   *)
(* perhaps expired tokens; a quiet store has one append at a time, which     *)
(* carries every revocation from its load on; and no two revocations are     *)
(* equally old.                                                              *)
MapInv ==
    /\ registered \subseteq issuedHere \ Revoked
    /\ issuedHere \ (Revoked \cup expired) \subseteq registered

QuietInv ==
    /\ process = "down" => Pending = {}
    /\ quiet =>
        /\ QuietStoreIsComplete
        /\ \A t, u \in Pending : t = u
        /\ \A t \in Tokens : append[t] = "save" => Revoked \subseteq holding[t]
        /\ \A t \in Tokens : append[t] = "write" => file = Empty

OrderInv ==
    /\ process = "down" => cache = {}
    /\ \A t \in Tokens : revokedAt[t] <= Cardinality(Revoked)
    /\ \A t, u \in Revoked : revokedAt[t] = revokedAt[u] => t = u

IInv == TypeOK /\ MapInv /\ QuietInv /\ OrderInv

(* Only an expired revocation is forgotten by a running gateway, or one      *)
(* older than as many as the cache holds, but for the tenth that goes at     *)
(* once: of several that come together the last are kept too.                *)
EvictsOldest ==
    [][\A t \in (cache \cup (Revoked' \ Revoked)) \ cache' :
         \/ t \in expired \/ process' = "down"
         \/ Cardinality({u \in cache' : revokedAt'[u] > revokedAt'[t]})
              >= MaxSize - MaxSize \div 10]_vars

(* The cache grows past its capacity only when it is loaded; one of no      *)
(* capacity at all still holds an entry, the last that was added.           *)
CapacityKept ==
    [][(process = "up" /\ Cardinality(cache') > Cardinality(cache))
         => \/ Cardinality(cache') <= MaxSize
            \/ MaxSize = 0 /\ Cardinality(cache') = 1]_vars

-----------------------------------------------------------------------------
(* What the documents say and the code does not do                         *)

(* roadmap M5-002: the cache survives a restart.  If no append failed, was  *)
(* cut off or is under way, the file holds every revocation.                *)
StoredIsDurable ==
    (\A t \in Revoked : append[t] = "stored") => Revoked \subseteq file.entries
=============================================================================
