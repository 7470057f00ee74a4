------------------------ MODULE EvictionWaitingList ------------------------
(***************************************************************************)
(* The eviction waiting list of the storage pruning manager                *)
(* (memoryEvictionWaitingList.go) and its pruning buffer                   *)
(* (pruningBuffer.go), as operators on their values.  Every method of      *)
(* either runs under its own mutex and is one step.                        *)
(*                                                                         *)
(* A key is a root hash with the identifier the pruning manager appends to *)
(* it: <<r, "New">> lists the nodes that the commit of r added, <<r,       *)
(* "Old">> those that the commit of r's child made obsolete.  An entry     *)
(* with refs = 0 is a key that is not in the cache; a hash with an empty   *)
(* set of keys is not in the reversed cache.                               *)
(***************************************************************************)
EXTENDS Integers, Sequences, FiniteSets

CONSTANTS
  Roots,            \* root hashes
  Nodes,            \* hashes of trie nodes
  RootHashesSize,   \* capacity of cache
  HashesSize,       \* capacity of reversedCache
  PruningBufferLen  \* capacity of the pruning buffer

ASSUME ListAssumption ==
  /\ RootHashesSize \in Nat \ {0}
  /\ HashesSize \in Nat \ {0}
  /\ PruningBufferLen \in Nat

Identifiers == {"Old", "New"}
Keys == Roots \X Identifiers

\* A list [cache, reversedCache].
Lists == [cache : [Keys -> [refs : Nat, hashes : SUBSET Nodes]],
          reversedCache : [Nodes -> SUBSET Keys]]

NoEntry == [refs |-> 0, hashes |-> {}]

EmptyList == [cache |-> [k \in Keys |-> NoEntry],
              reversedCache |-> [h \in Nodes |-> {}]]

CachedKeys(cache) == {k \in Keys : cache[k].refs > 0}

cachesFull(l) ==
  \/ Cardinality(CachedKeys(l.cache)) > RootHashesSize
  \/ Cardinality({h \in Nodes : l.reversedCache[h] # {}}) > HashesSize

(* A second Put at a key only counts a reference: the hashes of the first  *)
(* stay, while the reversed cache learns those of both.                    *)
putInCache(cache, key, hashes) ==
  [cache EXCEPT ![key] =
     IF @.refs = 0 THEN [refs |-> 1, hashes |-> hashes]
                   ELSE [refs |-> @.refs + 1, hashes |-> @.hashes]]

putInReversedCache(rev, key, hashes) ==
  [h \in Nodes |-> IF h \in hashes THEN rev[h] \cup {key} ELSE rev[h]]

Filled(l, key, hashes) ==
  [cache |-> putInCache(l.cache, key, hashes),
   reversedCache |-> putInReversedCache(l.reversedCache, key, hashes)]

\* A list that grows past a capacity is emptied, the new entry included.
Put(l, key, hashes) ==
  LET filled == Filled(l, key, hashes)
  IN  IF cachesFull(filled) THEN EmptyList ELSE filled

\* Mutant: the keys of an evicted entry stay in the reversed cache.
KeepInReversedCache(rev, key, hashes) == rev

removeFromReversedCache(rev, key, hashes) ==
  [h \in Nodes |-> IF h \in hashes THEN rev[h] \ {key} ELSE rev[h]]

\* What Evict returns, and the list it leaves.
EvictedHashes(l, key) ==
  IF l.cache[key].refs = 1 THEN l.cache[key].hashes ELSE {}

Evict(l, key) ==
  LET entry == l.cache[key]
  IN  IF entry.refs <= 1
      THEN [cache |-> [l.cache EXCEPT ![key] = NoEntry],
            reversedCache |->
              removeFromReversedCache(l.reversedCache, key, entry.hashes)]
      ELSE [l EXCEPT !.cache = [l.cache EXCEPT ![key] =
                                  [refs |-> entry.refs - 1, hashes |-> entry.hashes]]]

\* Mutant: nothing is kept.
KeepNoHash(l, hash, identifier) == FALSE

(* An obsolete hash is kept only for entries that added it again; a hash   *)
(* added by a rolled back block is kept for every other entry.             *)
ShouldKeepHash(l, hash, identifier) ==
  \E k \in l.reversedCache[hash] : ~ (k[2] = "Old" /\ identifier = "Old")

\* Mutant: a full buffer grows.
AddToFullBuffer(buf, record) == Append(buf, record)

\* A full buffer drops its oldest record, one of size 0 the new one.
AddToBuffer(buf, record) ==
  IF PruningBufferLen = 0
  THEN buf
  ELSE Append(IF Len(buf) = PruningBufferLen THEN Tail(buf) ELSE buf, record)

(* Every hash leads back to exactly the entries that list it.              *)
IsInverse(l) ==
  \A h \in Nodes, k \in Keys : k \in l.reversedCache[h] <=> h \in l.cache[k].hashes
============================================================================
