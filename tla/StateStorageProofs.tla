------------------------- MODULE StateStorageProofs -------------------------
(***************************************************************************)
(* Invariants of StateStorage, proved for every set of states, every       *)
(* finality and rollback pattern, every capacity of the eviction waiting   *)
(* list and of the pruning buffer, and every number of iterators.          *)
(***************************************************************************)
EXTENDS StateStorage, FiniteSetsExt, WellFoundedInduction, FiniteSetTheorems, TLAPS

(* What Min and Max of FiniteSetsExt return. *)

\* A nonempty set of natural numbers has a least element, which Min returns.
LEMMA MinIsLeast ==
    ASSUME NEW S, S \subseteq Nat, S # {}
    PROVE  Min(S) \in S /\ \A y \in S : Min(S) <= y
<1> DEFINE R == {ss \in Nat \X Nat : ss[1] < ss[2]}
<1>1. IsWellFoundedOn(R, Nat)
  BY NatLessThanWellFounded, Zenon DEF OpToRel
<1>2. \A x, y \in Nat : y < x => <<y, x>> \in R
  OBVIOUS
<1> HIDE DEF R
<1>3. PICK x \in S : \A y \in S : ~ (<<y, x>> \in R)
  BY <1>1, WFMin
<1>4. \A y \in S : x =< y
  <2> SUFFICES ASSUME NEW y \in S PROVE x =< y
    OBVIOUS
  <2>1. ~ (y < x)
    BY <1>2, <1>3, Zenon
  <2> QED
    BY <2>1
<1> QED
  BY <1>4 DEF Min

\* A nonempty set of natural numbers with an upper bound has a greatest element,
\* which Max returns.
LEMMA MaxIsGreatest ==
    ASSUME NEW b \in Nat, NEW S, S \subseteq 0 .. b, S # {}
    PROVE  Max(S) \in S /\ \A y \in S : y <= Max(S)
<1> DEFINE T == {b - x : x \in S}
<1>1. T \subseteq Nat /\ T # {}
  <2>1. PICK x \in S : TRUE
    OBVIOUS
  <2>2. b - x \in T
    OBVIOUS
  <2>3. \A y \in S : b - y \in Nat
    OBVIOUS
  <2> QED
    BY <2>2, <2>3
<1>2. Min(T) \in T /\ \A y \in T : Min(T) <= y
  BY <1>1, MinIsLeast
<1>3. PICK m \in S : Min(T) = b - m
  BY <1>2
<1>4. \A y \in S : m >= y
  <2> SUFFICES ASSUME NEW y \in S PROVE m >= y
    OBVIOUS
  <2>1. b - y \in T
    OBVIOUS
  <2>2. b - m <= b - y
    BY <2>1, <1>2, <1>3
  <2>3. b \in Int /\ m \in Int /\ y \in Int
    OBVIOUS
  <2> HIDE DEF T
  <2> QED
    BY <2>2, <2>3
<1>5. \E x \in S : \A y \in S : x >= y
  BY <1>4
<1>6. Max(S) \in S /\ \A y \in S : Max(S) >= y
  BY <1>5 DEF Max
<1> QED
  BY <1>6

-----------------------------------------------------------------------------
(* The chain is no longer than the blocks committed.                       *)
ChainIsCommitted == Len(chain) <= commits + 1

(* An entry that is not in the cache has no hashes.                        *)
NoEntryIsEmpty == \A k \in Keys : list.cache[k].refs = 0 => list.cache[k].hashes = {}

\* The times the snapshot in progress has entered the pruning buffering mode.
SnapshotOps ==
  CASE snap.st = "waiting" -> 1
    [] snap.st = "copying" -> 2
    [] snap.st = "copied"  -> 1
    [] OTHER -> 0

(* Who has entered the mode has yet to leave it, and no one else.          *)
OpsAreCounted == blockingOps = iterators.open + SnapshotOps

Unresolved == {"PruneTrie", "CancelPrune"}

(* While a snapshot keeps pruning blocked, no call has got past the check  *)
(* of the mode: a snapshot starts when no call is left, and a call that    *)
(* comes later finds the mode on.                                          *)
NoCallPassed ==
  SnapshotOps > 0 => \A i \in 1 .. Len(todo) : todo[i].call \in Unresolved

(* The snapshot in progress is none, or that of a root.                    *)
IdleIsNoSnapshot == snap = NoSnapshot \/ (snap.st # "idle" /\ snap.root \in Roots)

InverseUnlessDiffer == PutsMayDiffer \/ ReversedIsInverse

IInv ==
  /\ TypeOK
  /\ ChainIsCommitted
  /\ NoEntryIsEmpty
  /\ InverseUnlessDiffer
  /\ OpsAreCounted
  /\ NoCallPassed
  /\ IdleIsNoSnapshot
  /\ NoMarkerOfFinished
-----------------------------------------------------------------------------
(* The eviction waiting list *)

\* An entry that is not in the cache of l has no hashes.
Tidy(l) == \A k \in Keys : l.cache[k].refs = 0 => l.cache[k].hashes = {}

\* The empty list is a list, and all that is said of lists below.
LEMMA EmptyListFacts == EmptyList \in Lists /\ Tidy(EmptyList) /\ IsInverse(EmptyList)
BY DEF EmptyList, Lists, Tidy, IsInverse, NoEntry

\* Put makes a list of a list.
LEMMA PutHasType ==
  ASSUME NEW l \in Lists, Tidy(l), NEW key \in Keys, NEW hashes \in SUBSET Nodes
  PROVE  Put(l, key, hashes) \in Lists /\ Tidy(Put(l, key, hashes))
<1>1. Filled(l, key, hashes) \in Lists
  BY DEF Filled, putInCache, putInReversedCache, Lists
<1>2. Tidy(Filled(l, key, hashes))
  BY DEF Filled, putInCache, Lists, Tidy
<1> QED
  BY <1>1, <1>2, EmptyListFacts DEF Put

\* Put at a key leaves the other entries alone, or empties the list.
LEMMA PutLeavesOthers ==
  ASSUME NEW l \in Lists, NEW key \in Keys, NEW hashes \in SUBSET Nodes,
         NEW k \in Keys, k # key
  PROVE  Put(l, key, hashes).cache[k] \in {NoEntry, l.cache[k]}
<1>1. Filled(l, key, hashes).cache[k] = l.cache[k]
  BY DEF Filled, putInCache, Lists
<1>2. EmptyList.cache[k] = NoEntry
  BY DEF EmptyList
<1> QED
  BY <1>1, <1>2 DEF Put

\* Put keeps the reversed cache the inverse of the cache if the key is new or
\* listed with the same hashes.
LEMMA PutKeepsInverse ==
  ASSUME NEW l \in Lists, Tidy(l), IsInverse(l),
         NEW key \in Keys, NEW hashes \in SUBSET Nodes,
         l.cache[key].refs = 0 \/ l.cache[key].hashes = hashes
  PROVE  IsInverse(Put(l, key, hashes))
<1> DEFINE f == Filled(l, key, hashes)
<1>1. f.cache[key].hashes = hashes
  BY DEF Filled, putInCache, Lists
<1>2. \A k \in Keys : k # key => f.cache[k] = l.cache[k]
  BY DEF Filled, putInCache, Lists
<1>3. \A h \in Nodes :
        f.reversedCache[h] = IF h \in hashes THEN l.reversedCache[h] \cup {key}
                                             ELSE l.reversedCache[h]
  BY DEF Filled, putInReversedCache
<1>4. ASSUME NEW h \in Nodes
      PROVE  h \in l.cache[key].hashes => h \in hashes
  BY DEF Tidy
<1> HIDE DEF f
<1>5. IsInverse(f)
  <2> SUFFICES ASSUME NEW h \in Nodes, NEW k \in Keys
               PROVE  k \in f.reversedCache[h] <=> h \in f.cache[k].hashes
    BY DEF IsInverse
  <2>1. k \in l.reversedCache[h] <=> h \in l.cache[k].hashes
    BY DEF IsInverse
  <2>2. CASE k = key
    BY <2>1, <2>2, <1>1, <1>3, <1>4
  <2>3. CASE k # key
    BY <2>1, <2>3, <1>2, <1>3
  <2> QED
    BY <2>2, <2>3
<1> QED
  BY <1>5, EmptyListFacts DEF Put, f

\* Evict makes a list of a list and keeps the reversed cache its inverse.
LEMMA EvictFacts ==
  ASSUME NEW l \in Lists, Tidy(l), NEW key \in Keys
  PROVE  /\ Evict(l, key) \in Lists
         /\ Tidy(Evict(l, key))
         /\ IsInverse(l) => IsInverse(Evict(l, key))
<1>1. CASE l.cache[key].refs <= 1
  <2> DEFINE v == [cache |-> [l.cache EXCEPT ![key] = NoEntry],
                   reversedCache |-> removeFromReversedCache(l.reversedCache, key,
                                                             l.cache[key].hashes)]
  <2>1. Evict(l, key) = v
    BY <1>1 DEF Evict
  <2>2. v \in Lists
    BY DEF Lists, NoEntry, removeFromReversedCache
  <2>3. v.cache[key] = NoEntry /\ \A k \in Keys : k # key => v.cache[k] = l.cache[k]
    BY DEF Lists
  <2>4. \A h \in Nodes :
          v.reversedCache[h] = IF h \in l.cache[key].hashes
                               THEN l.reversedCache[h] \ {key} ELSE l.reversedCache[h]
    BY DEF removeFromReversedCache
  <2> HIDE DEF v
  <2>5. Tidy(v)
    BY <2>3 DEF Tidy, NoEntry
  <2>6. IsInverse(l) => IsInverse(v)
    <3> SUFFICES ASSUME IsInverse(l), NEW h \in Nodes, NEW k \in Keys
                 PROVE  k \in v.reversedCache[h] <=> h \in v.cache[k].hashes
      BY DEF IsInverse
    <3>1. k \in l.reversedCache[h] <=> h \in l.cache[k].hashes
      BY DEF IsInverse
    <3>2. CASE k = key
      <4>1. h \notin v.cache[k].hashes
        BY <3>2, <2>3 DEF NoEntry
      <4>2. k \notin v.reversedCache[h]
        BY <3>1, <3>2, <2>4
      <4> QED
        BY <4>1, <4>2
    <3>3. CASE k # key
      BY <3>1, <3>3, <2>3, <2>4
    <3> QED
      BY <3>2, <3>3
  <2> QED
    BY <2>1, <2>2, <2>5, <2>6
<1>2. CASE ~ (l.cache[key].refs <= 1)
  <2> DEFINE v == [l EXCEPT !.cache = [l.cache EXCEPT ![key] =
                     [refs |-> l.cache[key].refs - 1, hashes |-> l.cache[key].hashes]]]
  <2>1. Evict(l, key) = v
    BY <1>2 DEF Evict
  <2>2. v \in Lists
    <3>1. /\ l.cache \in [Keys -> [refs : Nat, hashes : SUBSET Nodes]]
          /\ l.reversedCache \in [Nodes -> SUBSET Keys]
      BY DEF Lists
    <3>2. l.cache[key].refs \in Nat /\ l.cache[key].hashes \in SUBSET Nodes
      BY <3>1
    <3>3. l.cache[key].refs - 1 \in Nat
      BY ONLY <1>2, <3>2
    <3>4. [refs |-> l.cache[key].refs - 1, hashes |-> l.cache[key].hashes]
            \in [refs : Nat, hashes : SUBSET Nodes]
      BY ONLY <3>2, <3>3
    <3>5. v = [cache |-> [l.cache EXCEPT ![key] =
                     [refs |-> l.cache[key].refs - 1, hashes |-> l.cache[key].hashes]],
               reversedCache |-> l.reversedCache]
      BY DEF Lists
    <3>6. [l.cache EXCEPT ![key] =
             [refs |-> l.cache[key].refs - 1, hashes |-> l.cache[key].hashes]]
            \in [Keys -> [refs : Nat, hashes : SUBSET Nodes]]
      BY ONLY <3>1, <3>4, key \in Keys
    <3> QED
      BY ONLY <3>1, <3>5, <3>6 DEF Lists
  <2>3. v.cache[key].refs # 0
    BY <1>2 DEF Lists
  <2>4. \A k \in Keys : v.cache[k].hashes = l.cache[k].hashes
    BY DEF Lists
  <2>5. \A k \in Keys : k # key => v.cache[k].refs = l.cache[k].refs
    BY DEF Lists
  <2>6. v.reversedCache = l.reversedCache
    BY DEF Lists
  <2> HIDE DEF v
  <2> QED
    BY <2>1, <2>2, <2>3, <2>4, <2>5, <2>6 DEF Tidy, IsInverse
<1> QED
  BY <1>1, <1>2

\* AddToBuffer keeps the buffer a sequence of records within its capacity.
LEMMA AddToBufferHasType ==
  ASSUME NEW buf \in Seq(Buffered), Len(buf) <= PruningBufferLen, NEW rec \in Buffered
  PROVE  /\ AddToBuffer(buf, rec) \in Seq(Buffered)
         /\ Len(AddToBuffer(buf, rec)) <= PruningBufferLen
<1>1. PruningBufferLen \in Nat
  BY ListAssumption DEF ListAssumption
<1>2. CASE PruningBufferLen = 0
  BY <1>2 DEF AddToBuffer
<1>3. CASE PruningBufferLen # 0 /\ Len(buf) = PruningBufferLen
  <2>1. Tail(buf) \in Seq(Buffered) /\ Len(Tail(buf)) = Len(buf) - 1
    BY <1>1, <1>3
  <2> QED
    BY <1>1, <1>3, <2>1 DEF AddToBuffer
<1>4. CASE PruningBufferLen # 0 /\ Len(buf) # PruningBufferLen
  BY <1>1, <1>4 DEF AddToBuffer
<1> QED
  BY <1>2, <1>3, <1>4

-----------------------------------------------------------------------------
(* The calls of updateStateStorage *)

\* A set of nonces has an i-th smallest one for every i up to its size.
LEMMA NthIsOne ==
  ASSUME NEW b \in Nat, NEW hs, hs \subseteq 0 .. b, NEW i \in 1 .. Cardinality(hs)
  PROVE  Nth(hs, i) \in hs /\ Cardinality({x \in hs : x < Nth(hs, i)}) = i - 1
<1> DEFINE Below(n) == {x \in hs : x < n}
           few == {n \in hs : Cardinality(Below(n)) <= i - 1}
<1>0. \A n \in hs : n \in Nat
  OBVIOUS
<1>1. IsFiniteSet(hs)
  <2>1. IsFiniteSet(0 .. b)
    BY FS_Interval
  <2> QED
    BY <2>1, FS_Subset
<1>2. Cardinality(hs) \in Nat /\ i \in Nat /\ hs # {}
  BY <1>1, FS_CardinalityType, FS_EmptySet
<1>3. ASSUME NEW n
      PROVE  IsFiniteSet(Below(n)) /\ Cardinality(Below(n)) \in Nat
  <2>1. Below(n) \subseteq hs
    OBVIOUS
  <2> QED
    BY <2>1, <1>1, FS_Subset, FS_CardinalityType
<1>4. few # {}
  <2>1. Min(hs) \in hs /\ \A y \in hs : Min(hs) <= y
    <3>1. hs \subseteq Nat
      BY <1>0
    <3> QED
      BY <3>1, <1>2, MinIsLeast
  <2>2. \A x \in hs : ~ (x < Min(hs))
    <3> SUFFICES ASSUME NEW x \in hs PROVE ~ (x < Min(hs))
      OBVIOUS
    <3>1. x \in Nat /\ Min(hs) \in Nat /\ Min(hs) <= x
      BY <2>1, <1>0
    <3> QED
      BY <3>1
  <2>3. Cardinality(Below(Min(hs))) = 0
    <3>1. Below(Min(hs)) = {}
      BY <2>2, Zenon
    <3> QED
      BY <3>1, FS_EmptySet
  <2> QED
    BY <2>1, <2>3
<1>5. PICK m \in few : \A y \in few : y <= m
  <2>1. few \subseteq 0 .. b
    OBVIOUS
  <2> HIDE DEF few
  <2> QED
    BY <2>1, <1>4, MaxIsGreatest
<1>6. m \in hs /\ m \in Nat /\ Cardinality(Below(m)) <= i - 1
  OBVIOUS
<1>7. ASSUME Cardinality(Below(m)) # i - 1
      PROVE  FALSE
  <2> DEFINE upTo == Below(m) \cup {m}
             above == hs \ upTo
  <2>1. Cardinality(upTo) = Cardinality(Below(m)) + 1
    <3>1. m \notin Below(m)
      BY <1>6
    <3> QED
      BY <3>1, <1>3, FS_AddElement
  <2>2. Cardinality(upTo) <= i - 1
    BY <2>1, <1>7, <1>3, <1>6, <1>2
  <2>3. above # {}
    <3>1. upTo # hs
      <4> HIDE DEF upTo
      <4> QED
        BY <2>2, <1>2
    <3>2. upTo \subseteq hs
      BY <1>6
    <3> QED
      BY <3>1, <3>2
  <2>4. above \subseteq Nat
    BY <1>0
  <2>5. PICK p \in above : \A y \in above : p <= y
    <3> HIDE DEF above
    <3> QED
      BY <2>3, <2>4, MinIsLeast
  <2>6. p \in hs /\ p \in Nat /\ p > m
    BY <1>6
  <2>7. Below(p) = upTo
    <3> SUFFICES ASSUME NEW x \in hs
                 PROVE  x < p <=> x < m \/ x = m
      BY <1>6
    <3>1. x \in Nat
      BY <1>0
    <3>2. ~ (x < m \/ x = m) => p <= x
      BY <2>5
    <3> QED
      BY <3>1, <3>2, <2>6, <1>6
  <2>8. p \in few
    BY <2>2, <2>6, <2>7
  <2> QED
    BY <2>8, <2>6, <1>5, <1>6
<1>8. \E n \in hs : Cardinality({x \in hs : x < n}) = i - 1
  BY <1>6, <1>7
<1> HIDE DEF few, Below
<1> QED
  BY <1>8 DEF Nth

\* The nonces come in their order.
LEMMA NthGrows ==
  ASSUME NEW b \in Nat, NEW hs, hs \subseteq 0 .. b,
         NEW i \in 1 .. Cardinality(hs), NEW j \in 1 .. Cardinality(hs), i < j
  PROVE  Nth(hs, i) < Nth(hs, j)
<1> DEFINE Below(n) == {x \in hs : x < n}
           ni == Nth(hs, i)
           nj == Nth(hs, j)
<1>1. IsFiniteSet(hs) /\ Cardinality(hs) \in Nat
  <2>1. IsFiniteSet(0 .. b)
    BY FS_Interval
  <2> QED
    BY <2>1, FS_Subset, FS_CardinalityType
<1>2. ni \in hs /\ nj \in hs /\ Cardinality(Below(ni)) = i - 1 /\ Cardinality(Below(nj)) = j - 1
  BY NthIsOne
<1> HIDE DEF ni, nj
<1>3. ni \in Nat /\ nj \in Nat
  BY <1>2
<1>4. ASSUME ~ (ni < nj) PROVE FALSE
  <2>1. Below(nj) \subseteq Below(ni)
    <3> SUFFICES ASSUME NEW x \in hs, x < nj PROVE x < ni
      OBVIOUS
    <3>1. x \in Nat
      OBVIOUS
    <3> QED
      BY <3>1, <1>3, <1>4
  <2>2. IsFiniteSet(Below(ni))
    BY <1>1, FS_Subset
  <2> HIDE DEF Below
  <2>3. Cardinality(Below(nj)) <= Cardinality(Below(ni))
    BY <2>1, <2>2, FS_Subset
  <2> QED
    BY <2>3, <1>1, <1>2
<1> QED
  BY <1>4 DEF ni, nj
-----------------------------------------------------------------------------
(* The parts of the type invariant, by the groups of variables *)

TypeOfChain ==
  /\ chain \in Seq(Blocks) /\ Len(chain) \in 1 .. MaxCommits + 1
  /\ final \in StartNonce .. StartNonce + Len(chain) - 1
  /\ lastRestartNonce \in 0 .. StartNonce + MaxCommits
  /\ commits \in 0 .. MaxCommits
  /\ restarts \in 0 .. MaxRestarts

TypeOfPruning ==
  /\ todo \in Seq(Calls)
  /\ list \in Lists
  /\ buffer \in Seq(Buffered) /\ Len(buffer) <= PruningBufferLen
  /\ emptied \in BOOLEAN

TypeOfDisk ==
  /\ db \in [Epochs -> SUBSET Nodes]
  /\ active \subseteq Epochs
  /\ epoch \in Epochs
  /\ metaRoot \in [Epochs -> Roots \cup {NoRoot}]

TypeOfSnapshots ==
  /\ snap \in Snapshots
  /\ lastSnapshot \in Marks
  /\ adding \subseteq Marks
  /\ blockingOps \in Nat
  /\ iterators \in [open : Nat, opened : 0 .. MaxIterators]

TypeOfMarkers ==
  /\ marker \in [Epochs -> Roots \cup {NoRoot}]
  /\ latestFinished \in Epochs

TypeParts == TypeOfChain /\ TypeOfPruning /\ TypeOfDisk /\ TypeOfSnapshots /\ TypeOfMarkers

\* The parts make up the type invariant, before and after a step.
LEMMA TypeOKIsItsParts == (TypeOK <=> TypeParts) /\ (TypeOK' <=> TypeParts')
BY Zenon DEF TypeOK, TypeParts, TypeOfChain, TypeOfPruning, TypeOfDisk, TypeOfSnapshots,
             TypeOfMarkers

\* The constants and the bounds of the chain, as the proofs use them.
LEMMA NumberFacts ==
  /\ MaxEpoch \in Nat /\ MaxEpoch >= 1 /\ StartNonce \in Nat /\ UpSince \in Nat
  /\ UpSince <= StartNonce
  /\ MaxCommits \in Nat /\ MaxRestarts \in Nat /\ MaxIterators \in Nat
  /\ Epochs = 0 .. MaxEpoch
BY StateAssumption DEF StateAssumption, Epochs

LEMMA ChainFacts ==
  ASSUME TypeOK
  PROVE  /\ Len(chain) \in Nat /\ Len(chain) >= 1
         /\ Height \in Nat /\ Height >= StartNonce /\ Height = StartNonce + Len(chain) - 1
         /\ final \in Nat /\ StartNonce <= final /\ final <= Height
         /\ \A i \in 1 .. Len(chain) : chain[i] \in Blocks
         /\ \A nonce \in StartNonce .. Height : RootAt(nonce) \in Roots
         /\ RootAt(Height) = chain[Len(chain)].root
<1>1. chain \in Seq(Blocks) /\ Len(chain) \in Nat /\ Len(chain) >= 1 /\ StartNonce \in Nat
  BY NumberFacts DEF TypeOK
<1>2. Height \in Nat /\ Height >= StartNonce /\ Height = StartNonce + Len(chain) - 1
  BY <1>1 DEF Height
<1>3. final \in Nat /\ StartNonce <= final /\ final <= Height
  BY <1>1, <1>2 DEF TypeOK
<1>4. \A i \in 1 .. Len(chain) : chain[i] \in Blocks
  BY <1>1
<1>5. ASSUME NEW nonce \in StartNonce .. Height
      PROVE  RootAt(nonce) \in Roots
  <2>1. nonce - StartNonce + 1 \in 1 .. Len(chain)
    BY <1>1, <1>2
  <2>2. chain[nonce - StartNonce + 1] \in Blocks
    BY <1>4, <2>1
  <2> QED
    BY <2>2 DEF RootAt, Blocks
<1>6. RootAt(Height) = chain[Len(chain)].root
  <2>1. Height - StartNonce + 1 = Len(chain)
    BY <1>1, <1>2
  <2> QED
    BY <2>1 DEF RootAt
<1> QED
  BY <1>1, <1>2, <1>3, <1>4, <1>5, <1>6

\* The root hashes for pruning of the nonces of the chain are root hashes.
LEMMA PruningRoots ==
  ASSUME TypeOK, NEW nonce \in StartNonce .. Height
  PROVE  RootHashForPruning(nonce) \in Roots
<1>1. StartNonce \in Nat /\ Height \in Nat
  BY NumberFacts, ChainFacts
<1>2. CASE Scheduled /\ nonce > StartNonce
  <2>1. nonce - 1 \in StartNonce .. Height
    BY <1>1, <1>2
  <2> QED
    BY <2>1, <1>2, ChainFacts DEF RootHashForPruning
<1>3. CASE ~ (Scheduled /\ nonce > StartNonce)
  BY <1>3, ChainFacts DEF RootHashForPruning
<1> QED
  BY <1>2, <1>3

\* updateStateStorage makes well formed calls, all of them to the interface of
\* the pruning manager, where the buffering mode is checked.
LEMMA UpdateStateStorageFacts ==
  ASSUME TypeOK, NEW from \in StartNonce .. Height, NEW to \in StartNonce .. Height,
         NEW restartNonce
  PROVE  /\ updateStateStorage(from, to, restartNonce) \in Seq(Calls)
         /\ \A i \in 1 .. Len(updateStateStorage(from, to, restartNonce)) :
              updateStateStorage(from, to, restartNonce)[i].call \in Unresolved
<1> DEFINE Prunes(nonce) == RootHashForPruning(nonce) # RootHashForPruning(nonce - 1)
           headers == {nonce \in from + 1 .. to : Prunes(nonce)}
           CallOf(i) ==
             LET nonce == Nth(headers, (i + 1) \div 2)
                 prevRoot == RootHashForPruning(nonce - 1)
             IN  IF i % 2 = 1
                 THEN [call |-> "CancelPrune", key |-> <<prevRoot, "New">>, on |-> FALSE]
                 ELSE [call |-> "PruneTrie", key |-> <<prevRoot, "Old">>,
                       on |-> IsPruningEnabled(nonce, restartNonce)]
           len == 2 * Cardinality(headers)
<1>1. updateStateStorage(from, to, restartNonce) = [i \in 1 .. len |-> CallOf(i)]
  BY DEF updateStateStorage
<1>2. StartNonce \in Nat /\ Height \in Nat /\ from \in Nat /\ to \in Nat
  BY NumberFacts, ChainFacts
<1>3. headers \subseteq 0 .. to /\ headers \subseteq from + 1 .. to
  BY <1>2
<1> HIDE DEF headers
<1>4. Cardinality(headers) \in Nat
  <2>1. IsFiniteSet(headers)
    <3>1. IsFiniteSet(0 .. to)
      BY <1>2, FS_Interval
    <3> QED
      BY <3>1, <1>3, FS_Subset
  <2> QED
    BY <2>1, FS_CardinalityType
<1>5. len \in Nat
  BY <1>4
<1>6. ASSUME NEW i \in 1 .. len
      PROVE  CallOf(i) \in Calls /\ CallOf(i).call \in Unresolved
  <2> DEFINE nonce == Nth(headers, (i + 1) \div 2)
  <2>1. (i + 1) \div 2 \in 1 .. Cardinality(headers)
    BY <1>4
  <2>2. nonce \in headers
    BY <2>1, <1>2, <1>3, NthIsOne
  <2>3. nonce \in from + 1 .. to
    BY <2>2, <1>3
  <2> HIDE DEF nonce
  <2>4. nonce - 1 \in StartNonce .. Height
    BY <2>3, <1>2
  <2>5. RootHashForPruning(nonce - 1) \in Roots
    BY <2>4, PruningRoots
  <2>6. IsPruningEnabled(nonce, restartNonce) \in BOOLEAN
    BY DEF IsPruningEnabled
  <2>7. CallOf(i) = IF i % 2 = 1
                    THEN [call |-> "CancelPrune",
                          key |-> <<RootHashForPruning(nonce - 1), "New">>, on |-> FALSE]
                    ELSE [call |-> "PruneTrie",
                          key |-> <<RootHashForPruning(nonce - 1), "Old">>,
                          on |-> IsPruningEnabled(nonce, restartNonce)]
    BY DEF nonce
  <2> HIDE DEF CallOf
  <2> QED
    BY <2>5, <2>6, <2>7 DEF Calls, Keys, Identifiers, Unresolved
<1> HIDE DEF CallOf, len
<1>7. [i \in 1 .. len |-> CallOf(i)] \in Seq(Calls)
  BY <1>5, <1>6
<1>8. Len([i \in 1 .. len |-> CallOf(i)]) = len
  BY <1>5
<1> QED
  BY <1>1, <1>5, <1>6, <1>7, <1>8

\* The snapshots manager takes up the snapshot it is asked for, entering the
\* buffering mode, or goes on as it was.
LEMMA SnapshotStateFacts ==
  ASSUME NEW root \in Roots, NEW e \in Epochs, NEW last \in Marks,
         NEW inProgress \in Snapshots, NEW pending \in SUBSET Marks, NEW ops \in Nat,
         SnapshotState(root, e, last, inProgress, pending, ops)
  PROVE  /\ adding' \subseteq Marks /\ lastSnapshot' \in Marks
         /\ \/ snap' = inProgress /\ blockingOps' = ops
            \/ /\ inProgress = NoSnapshot
               /\ snap' = [st |-> "waiting", root |-> root, epoch |-> e, err |-> FALSE]
               /\ blockingOps' = ops + 1
<1>1. [root |-> root, epoch |-> e] \in Marks
  BY DEF Marks
<1> QED
  BY <1>1, Zenon DEF SnapshotState, EnterPruningBufferingMode
-----------------------------------------------------------------------------
(* Every step keeps the invariant *)

LEMMA InitIInv == Init => IInv
<1> SUFFICES ASSUME Init PROVE IInv
  OBVIOUS
<1> USE NumberFacts
<1>1. Genesis \in Roots /\ OldNodes \subseteq Nodes /\ NodesOf[Genesis] \subseteq Nodes
  BY StateAssumption DEF StateAssumption
<1>2. chain \in Seq(Blocks) /\ Len(chain) = 1
  BY <1>1 DEF Init, Blocks
<1>3. db \in [Epochs -> SUBSET Nodes]
  BY <1>1 DEF Init
<1>4. /\ todo \in Seq(Calls) /\ buffer \in Seq(Buffered) /\ Len(buffer) = 0
      /\ Len(todo) = 0
  BY DEF Init
<1>5. PruningBufferLen \in Nat
  BY ListAssumption DEF ListAssumption
<1>6. snap \in Snapshots /\ lastSnapshot \in Marks /\ adding \subseteq Marks
  BY DEF Init, NoSnapshot, NoMark, Snapshots, Marks
<1>7. TypeOK
  <2>1. TypeOfChain
    <3>1. final = StartNonce /\ lastRestartNonce = UpSince /\ commits = 0 /\ restarts = 0
      BY DEF Init
    <3> QED
      BY <3>1, <1>2 DEF TypeOfChain
  <2>2. TypeOfPruning
    <3>1. list = EmptyList /\ emptied = FALSE
      BY DEF Init
    <3>2. emptied \in BOOLEAN
      BY <3>1
    <3>3. Len(buffer) <= PruningBufferLen
      BY <1>4, <1>5
    <3> QED
      BY <3>1, <3>2, <3>3, <1>4, EmptyListFacts, Zenon DEF TypeOfPruning
  <2>3. TypeOfDisk
    BY <1>3 DEF Init, TypeOfDisk
  <2>4. TypeOfSnapshots /\ TypeOfMarkers
    BY <1>6 DEF Init, TypeOfSnapshots, TypeOfMarkers
  <2> QED
    BY <2>1, <2>2, <2>3, <2>4, TypeOKIsItsParts DEF TypeParts
<1>8. SnapshotOps = 0 /\ IdleIsNoSnapshot
  BY DEF Init, SnapshotOps, IdleIsNoSnapshot, NoSnapshot
<1>9. NoEntryIsEmpty /\ InverseUnlessDiffer
  BY EmptyListFacts DEF Init, NoEntryIsEmpty, InverseUnlessDiffer, ReversedIsInverse, Tidy
<1>10. ChainIsCommitted /\ OpsAreCounted /\ NoCallPassed /\ NoMarkerOfFinished
  BY <1>2, <1>4, <1>8 DEF Init, ChainIsCommitted, OpsAreCounted, NoCallPassed,
                          NoMarkerOfFinished
<1> QED
  BY <1>7, <1>8, <1>9, <1>10 DEF IInv

\* What a commit does to the waiting list.
LEMMA MarkForEvictionFacts ==
  ASSUME NEW l \in Lists, Tidy(l), NEW old \in Roots, NEW new \in Roots
  PROVE  /\ MarkForEviction(l, old, new) \in Lists
         /\ Tidy(MarkForEviction(l, old, new))
         /\ (/\ IsInverse(l)
             /\ \/ new = old
                \/ \A k \in ListedKeys(old, new) :
                     \/ l.cache[k].refs = 0
                     \/ l.cache[k].hashes = ListedHashes(old, new, k))
            => IsInverse(MarkForEviction(l, old, new))
<1> DEFINE kn == <<new, "New">>
           ko == <<old, "Old">>
           an == Added(old, new)
           ao == Added(new, old)
           ln == PutIfAny(l, kn, an)
           lo == PutIfAny(ln, ko, ao)
<1>1. CASE old = new
  BY <1>1 DEF MarkForEviction
<1>2. CASE old # new
  <2>1. kn \in Keys /\ ko \in Keys /\ kn # ko
    BY DEF Keys, Identifiers
  <2>2. an \in SUBSET Nodes /\ ao \in SUBSET Nodes
    BY StateAssumption DEF StateAssumption, Added
  <2>3. MarkForEviction(l, old, new) = lo
    BY <1>2 DEF MarkForEviction
  <2>4. an # {} => kn \in ListedKeys(old, new)
    BY DEF ListedKeys
  <2>5. ao # {} => ko \in ListedKeys(old, new)
    BY DEF ListedKeys
  <2>6. ListedHashes(old, new, kn) = an /\ ListedHashes(old, new, ko) = ao
    BY <2>1 DEF ListedHashes
  <2> HIDE DEF kn, ko, an, ao
  <2>7. ln \in Lists /\ Tidy(ln)
    BY <2>1, <2>2, PutHasType DEF PutIfAny
  <2>8. ln.cache[ko] \in {NoEntry, l.cache[ko]}
    BY <2>1, <2>2, PutLeavesOthers DEF PutIfAny
  <2>9. ASSUME IsInverse(l),
               \A k \in ListedKeys(old, new) :
                 \/ l.cache[k].refs = 0
                 \/ l.cache[k].hashes = ListedHashes(old, new, k)
        PROVE  IsInverse(lo)
    <3>1. IsInverse(ln)
      <4>1. CASE an = {}
        BY <4>1, <2>9 DEF PutIfAny
      <4>2. CASE an # {}
        <5>1. l.cache[kn].refs = 0 \/ l.cache[kn].hashes = an
          BY <4>2, <2>4, <2>6, <2>9
        <5>2. IsInverse(Put(l, kn, an))
          BY <5>1, <2>1, <2>2, <2>9, PutKeepsInverse
        <5> QED
          BY <5>2, <4>2 DEF PutIfAny
      <4> QED
        BY <4>1, <4>2
    <3> HIDE DEF ln
    <3>2. CASE ao = {}
      BY <3>1, <3>2 DEF PutIfAny
    <3>3. CASE ao # {}
      <4>1. l.cache[ko].refs = 0 \/ l.cache[ko].hashes = ao
        BY <3>3, <2>5, <2>6, <2>9
      <4>2. ln.cache[ko].refs = 0 \/ ln.cache[ko].hashes = ao
        BY <4>1, <2>8 DEF NoEntry
      <4>3. IsInverse(Put(ln, ko, ao))
        BY <4>2, <3>1, <2>7, <2>1, <2>2, PutKeepsInverse
      <4> QED
        BY <4>3, <3>3 DEF PutIfAny
    <3> QED
      BY <3>2, <3>3
  <2> HIDE DEF ln
  <2>10. lo \in Lists /\ Tidy(lo)
    BY <2>7, <2>1, <2>2, PutHasType DEF PutIfAny
  <2> HIDE DEF lo
  <2> QED
    BY <2>3, <2>9, <2>10, <1>2
<1> QED
  BY <1>1, <1>2
\* The invariant in the parts the steps below deal with.
LEMMA IInvParts ==
  ASSUME IInv
  PROVE  /\ TypeOK /\ TypeOfChain /\ TypeOfPruning /\ TypeOfDisk /\ TypeOfSnapshots
         /\ TypeOfMarkers
         /\ ChainIsCommitted /\ Tidy(list) /\ (PutsMayDiffer \/ IsInverse(list))
         /\ OpsAreCounted /\ NoCallPassed /\ IdleIsNoSnapshot /\ NoMarkerOfFinished
BY TypeOKIsItsParts, Zenon
   DEF IInv, TypeParts, NoEntryIsEmpty, Tidy, InverseUnlessDiffer, ReversedIsInverse

LEMMA IInvFromParts ==
  ASSUME TypeOfChain', TypeOfPruning', TypeOfDisk', TypeOfSnapshots', TypeOfMarkers',
         ChainIsCommitted', Tidy(list'), PutsMayDiffer \/ IsInverse(list'),
         OpsAreCounted', NoCallPassed', IdleIsNoSnapshot', NoMarkerOfFinished'
  PROVE  IInv'
<1>1. TypeOK'
  BY TypeOKIsItsParts, Zenon DEF TypeParts
<1>2. NoEntryIsEmpty'
  BY DEF NoEntryIsEmpty, Tidy
<1>3. InverseUnlessDiffer'
  BY DEF InverseUnlessDiffer, ReversedIsInverse, IsInverse
<1> QED
  BY <1>1, <1>2, <1>3, Zenon DEF IInv

\* The number of operations that block pruning is what it is counted from.
LEMMA OpsFacts ==
  ASSUME TypeOfSnapshots, OpsAreCounted
  PROVE  /\ SnapshotOps \in Nat /\ iterators.open \in Nat
         /\ snap.st = "waiting" => SnapshotOps = 1
         /\ snap.st = "copying" => SnapshotOps = 2
         /\ snap.st = "copied" => SnapshotOps = 1
         /\ snap.st \notin {"waiting", "copying", "copied"} => SnapshotOps = 0
         /\ blockingOps = 0 => SnapshotOps = 0
<1>1. /\ snap.st = "waiting" => SnapshotOps = 1
      /\ snap.st = "copying" => SnapshotOps = 2
      /\ snap.st = "copied" => SnapshotOps = 1
      /\ snap.st \notin {"waiting", "copying", "copied"} => SnapshotOps = 0
  BY DEF SnapshotOps
<1>2. SnapshotOps \in Nat
  BY <1>1
<1>3. iterators.open \in Nat
  BY DEF TypeOfSnapshots
<1> QED
  BY <1>1, <1>2, <1>3 DEF OpsAreCounted

\* What the calls to the pruning manager leave alone stays as it was.
LEMMA PruningFrame ==
  ASSUME IInv, UNCHANGED unchangedByPruning
  PROVE  /\ TypeOfChain' /\ TypeOfSnapshots' /\ TypeOfMarkers' /\ ChainIsCommitted'
         /\ OpsAreCounted' /\ IdleIsNoSnapshot' /\ NoMarkerOfFinished'
         /\ SnapshotOps' = SnapshotOps
         /\ emptied' = emptied /\ epoch' = epoch /\ active' = active /\ metaRoot' = metaRoot
<1>1. /\ UNCHANGED <<chain, final, lastRestartNonce, commits, restarts>>
      /\ UNCHANGED <<active, epoch, emptied, metaRoot>>
      /\ UNCHANGED <<snap, lastSnapshot, adding, blockingOps, iterators>>
      /\ UNCHANGED <<marker, latestFinished>>
  BY DEF unchangedByPruning, chainVars, snapVars, markerVars
<1>2. TypeOfChain' /\ ChainIsCommitted'
  BY <1>1, IInvParts DEF TypeOfChain, ChainIsCommitted
<1>3. TypeOfSnapshots' /\ SnapshotOps' = SnapshotOps /\ IdleIsNoSnapshot'
  BY <1>1, IInvParts DEF TypeOfSnapshots, SnapshotOps, IdleIsNoSnapshot
<1>4. TypeOfMarkers' /\ NoMarkerOfFinished'
  BY <1>1, IInvParts DEF TypeOfMarkers, NoMarkerOfFinished
<1>5. OpsAreCounted'
  BY <1>1, <1>3, IInvParts DEF OpsAreCounted
<1> QED
  BY <1>1, <1>2, <1>3, <1>4, <1>5

\* The first call of todo, and what is left when it has been made.
LEMMA FirstCall ==
  ASSUME IInv, NEW call, NextCall(call)
  PROVE  /\ Head(todo) \in Calls /\ Head(todo).key \in Keys
         /\ Head(todo).call = call
         /\ Tail(todo) \in Seq(Calls)
         /\ SnapshotOps > 0 =>
              /\ call \in Unresolved
              /\ \A i \in 1 .. Len(Tail(todo)) : Tail(todo)[i].call \in Unresolved
<1>1. todo \in Seq(Calls) /\ todo # <<>> /\ Head(todo).call = call
  BY IInvParts DEF TypeOfPruning, NextCall
<1>2. Head(todo) \in Calls /\ Tail(todo) \in Seq(Calls) /\ Head(todo) = todo[1]
  BY <1>1
<1>3. Len(todo) >= 1 /\ Len(Tail(todo)) = Len(todo) - 1
  BY <1>1
<1>4. \A i \in 1 .. Len(Tail(todo)) : Tail(todo)[i] = todo[i + 1] /\ i + 1 \in 1 .. Len(todo)
  BY <1>1, <1>3
<1>5. ASSUME SnapshotOps > 0
      PROVE  /\ call \in Unresolved
             /\ \A i \in 1 .. Len(Tail(todo)) : Tail(todo)[i].call \in Unresolved
  <2>1. \A i \in 1 .. Len(todo) : todo[i].call \in Unresolved
    BY <1>5, IInvParts DEF NoCallPassed
  <2>2. 1 \in 1 .. Len(todo)
    BY <1>1, <1>3
  <2> QED
    BY <2>1, <2>2, <1>1, <1>2, <1>4
<1> QED
  BY <1>1, <1>2, <1>5 DEF Calls
\* Making or buffering the first call, with nothing put in its place, keeps the
\* invariant.
LEMMA CallMadeKeepsIInv ==
  ASSUME IInv, NEW call, NextCall(call), todo' = Tail(todo), UNCHANGED unchangedByPruning,
         \/ list' = list
         \/ list' = Evict(list, Head(todo).key),
         \/ buffer' = buffer
         \/ \E c \in {"prune", "cancelPrune"} :
              buffer' = AddToBuffer(buffer, [call |-> c, key |-> Head(todo).key]),
         db' \in [Epochs -> SUBSET Nodes]
  PROVE  IInv'
<1>1. list' \in Lists /\ Tidy(list') /\ (PutsMayDiffer \/ IsInverse(list'))
  <2>1. list \in Lists /\ Tidy(list) /\ (PutsMayDiffer \/ IsInverse(list))
    BY IInvParts DEF TypeOfPruning
  <2>2. Head(todo).key \in Keys
    BY FirstCall
  <2> QED
    BY <2>1, <2>2, EvictFacts
<1>2. buffer' \in Seq(Buffered) /\ Len(buffer') <= PruningBufferLen
  <2>1. buffer \in Seq(Buffered) /\ Len(buffer) <= PruningBufferLen
    BY IInvParts DEF TypeOfPruning
  <2>2. \A c \in {"prune", "cancelPrune"} : [call |-> c, key |-> Head(todo).key] \in Buffered
    BY FirstCall DEF Buffered
  <2> QED
    BY <2>1, <2>2, AddToBufferHasType
<1>3. TypeOfPruning'
  <2>1. emptied' \in BOOLEAN
    BY PruningFrame, IInvParts, Zenon DEF TypeOfPruning
  <2> QED
    BY <2>1, <1>1, <1>2, FirstCall, Zenon DEF TypeOfPruning
<1>4. NoCallPassed'
  <2>1. SnapshotOps' = SnapshotOps
    BY PruningFrame
  <2> QED
    BY <2>1, FirstCall DEF NoCallPassed
<1>5. TypeOfDisk'
  BY PruningFrame, IInvParts DEF TypeOfDisk
<1> QED
  BY <1>1, <1>3, <1>4, <1>5, PruningFrame, IInvFromParts

LEMMA CancelPruneKeepsIInv ==
  ASSUME IInv, CancelPrune
  PROVE  IInv'
<1>1. /\ NextCall("CancelPrune") /\ todo' = Tail(todo) /\ db' = db
      /\ UNCHANGED unchangedByPruning
  BY DEF CancelPrune
<1>2. db' \in [Epochs -> SUBSET Nodes]
  BY <1>1, IInvParts DEF TypeOfDisk
<1>3. /\ list' = list \/ list' = Evict(list, Head(todo).key)
      /\ \/ buffer' = buffer
         \/ \E c \in {"prune", "cancelPrune"} :
              buffer' = AddToBuffer(buffer, [call |-> c, key |-> Head(todo).key])
  BY DEF CancelPrune
<1> QED
  BY <1>1, <1>2, <1>3, CallMadeKeepsIInv

LEMMA cancelPruneKeepsIInv ==
  ASSUME IInv, cancelPrune
  PROVE  IInv'
<1>1. /\ NextCall("cancelPrune") /\ todo' = Tail(todo) /\ db' = db
      /\ UNCHANGED unchangedByPruning
      /\ list' = Evict(list, Head(todo).key) /\ buffer' = buffer
  BY DEF cancelPrune
<1>2. db' \in [Epochs -> SUBSET Nodes]
  BY <1>1, IInvParts DEF TypeOfDisk
<1> QED
  BY <1>1, <1>2, CallMadeKeepsIInv

LEMMA pruneKeepsIInv ==
  ASSUME IInv, prune
  PROVE  IInv'
<1>1. /\ NextCall("prune") /\ todo' = Tail(todo)
      /\ UNCHANGED unchangedByPruning
      /\ list' = Evict(list, Head(todo).key) /\ buffer' = buffer
  BY DEF prune
<1>2. db' \in [Epochs -> SUBSET Nodes]
  <2>1. db \in [Epochs -> SUBSET Nodes] /\ epoch \in Epochs
    BY IInvParts DEF TypeOfDisk
  <2>2. PICK removed : db' \in {db, [db EXCEPT ![epoch] = @ \ removed]}
    BY DEF prune
  <2> QED
    BY <2>1, <2>2
<1> QED
  BY <1>1, <1>2, CallMadeKeepsIInv

\* Emptying the buffer puts calls in todo that are past the check of the mode;
\* no snapshot blocks pruning then.
LEMMA PruneTrieKeepsIInv ==
  ASSUME IInv, PruneTrie
  PROVE  IInv'
<1> DEFINE c == Head(todo)
           resolved == [i \in 1 .. Len(buffer) |->
                          [call |-> buffer[i].call, key |-> buffer[i].key, on |-> c.on]]
           this == [c EXCEPT !.call = "prune"]
<1>1. NextCall("PruneTrie") /\ UNCHANGED unchangedByPruning /\ db' = db
  BY DEF PruneTrie
<1>2. db' \in [Epochs -> SUBSET Nodes]
  BY <1>1, IInvParts DEF TypeOfDisk
<1>3. CASE IsPruningBlocked
  <2>1. /\ todo' = Tail(todo)
        /\ list' = list \/ list' = Evict(list, Head(todo).key)
        /\ \/ buffer' = buffer
           \/ \E d \in {"prune", "cancelPrune"} :
                buffer' = AddToBuffer(buffer, [call |-> d, key |-> Head(todo).key])
    BY <1>3 DEF PruneTrie
  <2> QED
    BY <2>1, <1>1, <1>2, CallMadeKeepsIInv
<1>4. CASE ~ IsPruningBlocked
  <2>1. todo' = resolved \o <<this>> \o Tail(todo) /\ buffer' = <<>> /\ list' = list
    BY <1>4 DEF PruneTrie
  <2>2. c \in Calls /\ Tail(todo) \in Seq(Calls)
    BY <1>1, FirstCall
  <2>3. this \in Calls
    BY <2>2 DEF Calls
  <2>4. buffer \in Seq(Buffered) /\ PruningBufferLen \in Nat
    BY IInvParts, ListAssumption DEF TypeOfPruning, ListAssumption
  <2>5. resolved \in Seq(Calls)
    <3>1. Len(buffer) \in Nat /\ \A i \in 1 .. Len(buffer) : buffer[i] \in Buffered
      BY <2>4
    <3>2. c.on \in BOOLEAN
      BY <2>2 DEF Calls
    <3>3. \A i \in 1 .. Len(buffer) :
            [call |-> buffer[i].call, key |-> buffer[i].key, on |-> c.on] \in Calls
      BY <3>1, <3>2 DEF Buffered, Calls
    <3> HIDE DEF c
    <3> QED
      BY <3>1, <3>3
  <2> HIDE DEF resolved, this, c
  <2>6. todo' \in Seq(Calls)
    BY <2>1, <2>2, <2>3, <2>5
  <2>7. TypeOfPruning'
    <3>1. list' \in Lists /\ emptied' \in BOOLEAN
      BY <2>1, <1>1, PruningFrame, IInvParts, Zenon DEF TypeOfPruning
    <3>2. buffer' \in Seq(Buffered) /\ Len(buffer') <= PruningBufferLen
      BY <2>1, <2>4
    <3> QED
      BY <3>1, <3>2, <2>6, Zenon DEF TypeOfPruning
  <2>8. NoCallPassed'
    <3>1. SnapshotOps = 0
      BY <1>4, IInvParts, OpsFacts DEF IsPruningBlocked
    <3>2. SnapshotOps' = SnapshotOps
      BY <1>1, PruningFrame
    <3> QED
      BY <3>1, <3>2 DEF NoCallPassed
  <2>9. TypeOfDisk'
    BY <1>1, <1>2, PruningFrame, IInvParts DEF TypeOfDisk
  <2>10. Tidy(list') /\ (PutsMayDiffer \/ IsInverse(list'))
    BY <2>1, IInvParts
  <2> QED
    BY <2>7, <2>8, <2>9, <2>10, <1>1, PruningFrame, IInvFromParts
<1> QED
  BY <1>3, <1>4
\* What the snapshot worker leaves alone stays as it was; the disk keeps its type
\* if the DBs and the marked epochs do.
LEMMA SnapshotFrame ==
  ASSUME IInv, UNCHANGED unchangedBySnapshot
  PROVE  /\ TypeOfChain' /\ TypeOfPruning' /\ ChainIsCommitted'
         /\ Tidy(list') /\ (PutsMayDiffer \/ IsInverse(list'))
         /\ lastSnapshot' \in Marks /\ adding' \subseteq Marks
         /\ epoch' = epoch /\ metaRoot' = metaRoot /\ todo' = todo /\ iterators' = iterators
<1>1. /\ UNCHANGED <<chain, final, lastRestartNonce, commits, restarts>>
      /\ UNCHANGED <<todo, list, buffer, emptied>>
      /\ UNCHANGED <<epoch, metaRoot, iterators, lastSnapshot, adding>>
  BY DEF unchangedBySnapshot, chainVars, pruningVars
<1>2. TypeOfChain' /\ ChainIsCommitted'
  BY <1>1, IInvParts DEF TypeOfChain, ChainIsCommitted
<1>3. TypeOfPruning'
  BY <1>1, IInvParts, Zenon DEF TypeOfPruning
<1>4. Tidy(list') /\ (PutsMayDiffer \/ IsInverse(list'))
  BY <1>1, IInvParts
<1>5. lastSnapshot' \in Marks /\ adding' \subseteq Marks
  BY <1>1, IInvParts DEF TypeOfSnapshots
<1> QED
  BY <1>1, <1>2, <1>3, <1>4, <1>5

\* A step of the snapshot worker that enters and leaves the mode as its next
\* state counts, and starts blocking pruning only if it did already, keeps the
\* invariant.
LEMMA WorkerKeepsIInv ==
  ASSUME IInv, UNCHANGED unchangedBySnapshot,
         snap' \in Snapshots, IdleIsNoSnapshot',
         blockingOps' \in Nat, OpsAreCounted',
         SnapshotOps' > 0 => SnapshotOps > 0,
         db' \in [Epochs -> SUBSET Nodes], active' \subseteq Epochs,
         TypeOfMarkers', NoMarkerOfFinished'
  PROVE  IInv'
<1>1. TypeOfDisk'
  BY SnapshotFrame, IInvParts DEF TypeOfDisk
<1>2. TypeOfSnapshots'
  BY SnapshotFrame, IInvParts DEF TypeOfSnapshots
<1>3. NoCallPassed'
  BY SnapshotFrame, IInvParts DEF NoCallPassed
<1> QED
  BY <1>1, <1>2, <1>3, SnapshotFrame, IInvFromParts

\* The markers, when a step leaves them alone.
LEMMA MarkersFrame ==
  ASSUME IInv, UNCHANGED markerVars
  PROVE  TypeOfMarkers' /\ NoMarkerOfFinished'
BY IInvParts DEF markerVars, TypeOfMarkers, NoMarkerOfFinished

\* Leaving the mode, when it has been entered, undoes one entry.
LEMMA ExitFacts ==
  ASSUME NEW n \in Nat
  PROVE  /\ ExitPruningBufferingMode(n) \in Nat
         /\ n >= 1 => ExitPruningBufferingMode(n) = n - 1
BY DEF ExitPruningBufferingMode

\* The snapshot in progress and the DBs, with their types.
LEMMA SnapshotFacts ==
  ASSUME IInv
  PROVE  /\ snap \in Snapshots /\ snap.epoch \in Epochs /\ NoSnapshot \in Snapshots
         /\ snap.st # "idle" => snap.root \in Roots
         /\ db \in [Epochs -> SUBSET Nodes] /\ active \subseteq Epochs /\ epoch \in Epochs
         /\ blockingOps \in Nat /\ blockingOps = iterators.open + SnapshotOps
         /\ iterators.open \in Nat /\ SnapshotOps \in Nat
<1>1. snap \in Snapshots /\ blockingOps \in Nat
  BY IInvParts DEF TypeOfSnapshots
<1>2. snap.epoch \in Epochs
  BY <1>1 DEF Snapshots
<1>3. NoSnapshot \in Snapshots
  BY NumberFacts DEF NoSnapshot, Snapshots
<1>4. snap.st # "idle" => snap.root \in Roots
  BY IInvParts DEF IdleIsNoSnapshot, NoSnapshot
<1>5. db \in [Epochs -> SUBSET Nodes] /\ active \subseteq Epochs /\ epoch \in Epochs
  BY IInvParts DEF TypeOfDisk
<1>6. /\ blockingOps = iterators.open + SnapshotOps
      /\ iterators.open \in Nat /\ SnapshotOps \in Nat
  BY IInvParts, OpsFacts DEF OpsAreCounted
<1> QED
  BY <1>1, <1>2, <1>3, <1>4, <1>5, <1>6

LEMMA StartCopyingKeepsIInv ==
  ASSUME IInv, StartCopying
  PROVE  IInv'
<1>1. /\ snap.st = "waiting" /\ snap' = [snap EXCEPT !.st = "copying"]
      /\ blockingOps' = blockingOps + 1
      /\ UNCHANGED unchangedBySnapshot /\ UNCHANGED markerVars
      /\ db' = db /\ active' = active
  BY DEF StartCopying, EnterPruningBufferingMode
<1>2. snap' \in Snapshots /\ snap'.st = "copying" /\ snap'.root = snap.root
  BY <1>1, SnapshotFacts DEF Snapshots
<1>3. SnapshotOps = 1 /\ SnapshotOps' = 2 /\ IdleIsNoSnapshot'
  BY <1>1, <1>2, SnapshotFacts DEF SnapshotOps, IdleIsNoSnapshot
<1>4. OpsAreCounted' /\ blockingOps' \in Nat
  BY <1>1, <1>3, SnapshotFacts, SnapshotFrame DEF OpsAreCounted
<1> QED
  BY <1>1, <1>2, <1>3, <1>4, SnapshotFacts, MarkersFrame, WorkerKeepsIInv

LEMMA WaitTimesOutKeepsIInv ==
  ASSUME IInv, WaitTimesOut
  PROVE  IInv'
<1>1. /\ snap.st = "waiting" /\ snap' = NoSnapshot
      /\ blockingOps' = ExitPruningBufferingMode(blockingOps)
      /\ UNCHANGED unchangedBySnapshot /\ UNCHANGED markerVars
      /\ db' = db /\ active' = active
  BY DEF WaitTimesOut
<1>2. snap' \in Snapshots
  BY <1>1, SnapshotFacts
<1>3. SnapshotOps = 1 /\ SnapshotOps' = 0 /\ IdleIsNoSnapshot'
  BY <1>1 DEF SnapshotOps, IdleIsNoSnapshot, NoSnapshot
<1>4. blockingOps' = blockingOps - 1
  BY <1>1, <1>3, SnapshotFacts, ExitFacts
<1>5. OpsAreCounted' /\ blockingOps' \in Nat
  BY <1>1, <1>3, <1>4, SnapshotFacts, SnapshotFrame DEF OpsAreCounted
<1> QED
  BY <1>1, <1>2, <1>3, <1>5, SnapshotFacts, MarkersFrame, WorkerKeepsIInv

\* Copying nodes writes nodes.
LEMMA CopiedHasType ==
  ASSUME db \in [Epochs -> SUBSET Nodes], NEW nodes \in SUBSET Nodes, NEW e \in Epochs
  PROVE  Copied(nodes, e) \in [Epochs -> SUBSET Nodes]
BY DEF Copied

LEMMA CopyKeepsIInv ==
  ASSUME IInv, Copy
  PROVE  IInv'
<1>1. /\ snap.st = "copying"
      /\ blockingOps' = ExitPruningBufferingMode(blockingOps)
      /\ UNCHANGED unchangedBySnapshot /\ UNCHANGED markerVars /\ active' = active
  BY DEF Copy
<1>2. \/ snap' = [snap EXCEPT !.st = "copied"]
      \/ snap' = [snap EXCEPT !.st = "copied", !.err = TRUE]
  BY DEF Copy
<1>3. snap' \in Snapshots /\ snap'.st = "copied" /\ snap'.root = snap.root
  BY <1>2, SnapshotFacts DEF Snapshots
<1>4. SnapshotOps = 2 /\ SnapshotOps' = 1 /\ IdleIsNoSnapshot'
  BY <1>1, <1>3, SnapshotFacts DEF SnapshotOps, IdleIsNoSnapshot
<1>5. blockingOps' = blockingOps - 1
  BY <1>1, <1>4, SnapshotFacts, ExitFacts
<1>6. OpsAreCounted' /\ blockingOps' \in Nat
  BY <1>1, <1>4, <1>5, SnapshotFacts, SnapshotFrame DEF OpsAreCounted
<1>7. db' \in [Epochs -> SUBSET Nodes]
  <2> DEFINE found == NodesOf[snap.root] \cap SourceNodes(snap.epoch)
             missing == NodesOf[snap.root] \ found
  <2>1. \/ \E part \in SUBSET found : db' = Copied(part, snap.epoch)
        \/ db' = [Copied(found, snap.epoch) EXCEPT ![epoch] = @ \cup missing]
    BY DEF Copy
  <2>2. NodesOf[snap.root] \subseteq Nodes
    BY <1>1, SnapshotFacts, StateAssumption DEF StateAssumption
  <2>3. found \in SUBSET Nodes /\ missing \in SUBSET Nodes
    BY <2>2
  <2> HIDE DEF found, missing
  <2>4. \A part \in SUBSET found : Copied(part, snap.epoch) \in [Epochs -> SUBSET Nodes]
    BY <2>3, SnapshotFacts, CopiedHasType
  <2> QED
    BY <2>1, <2>3, <2>4, SnapshotFacts
<1> QED
  BY <1>1, <1>3, <1>4, <1>6, <1>7, SnapshotFacts, MarkersFrame, WorkerKeepsIInv

LEMMA FinishKeepsIInv ==
  ASSUME IInv, Finish
  PROVE  IInv'
<1>1. /\ snap.st = "copied" /\ snap' = [snap EXCEPT !.st = "finished"]
      /\ blockingOps' = ExitPruningBufferingMode(blockingOps)
      /\ UNCHANGED unchangedBySnapshot /\ UNCHANGED markerVars
      /\ db' = db /\ active' = active
  BY DEF Finish
<1>2. snap' \in Snapshots /\ snap'.st = "finished" /\ snap'.root = snap.root
  BY <1>1, SnapshotFacts DEF Snapshots
<1>3. SnapshotOps = 1 /\ SnapshotOps' = 0 /\ IdleIsNoSnapshot'
  BY <1>1, <1>2, SnapshotFacts DEF SnapshotOps, IdleIsNoSnapshot
<1>4. blockingOps' = blockingOps - 1
  BY <1>1, <1>3, SnapshotFacts, ExitFacts
<1>5. OpsAreCounted' /\ blockingOps' \in Nat
  BY <1>1, <1>3, <1>4, SnapshotFacts, SnapshotFrame DEF OpsAreCounted
<1> QED
  BY <1>1, <1>2, <1>3, <1>5, SnapshotFacts, MarkersFrame, WorkerKeepsIInv

LEMMA IncompleteKeepsIInv ==
  ASSUME IInv, Incomplete
  PROVE  IInv'
<1>1. /\ snap.st = "finished" /\ snap' = NoSnapshot
      /\ blockingOps' = blockingOps
      /\ UNCHANGED unchangedBySnapshot /\ UNCHANGED markerVars
      /\ db' = db /\ active' = active
  BY DEF Incomplete
<1>2. snap' \in Snapshots
  BY <1>1, SnapshotFacts
<1>3. SnapshotOps = 0 /\ SnapshotOps' = 0 /\ IdleIsNoSnapshot'
  BY <1>1 DEF SnapshotOps, IdleIsNoSnapshot, NoSnapshot
<1>4. OpsAreCounted' /\ blockingOps' \in Nat
  BY <1>1, <1>3, SnapshotFacts, SnapshotFrame DEF OpsAreCounted
<1> QED
  BY <1>1, <1>2, <1>3, <1>4, SnapshotFacts, MarkersFrame, WorkerKeepsIInv

LEMMA RemoveMarkerKeepsIInv ==
  ASSUME IInv, RemoveMarker
  PROVE  IInv'
<1>1. /\ snap.st = "finished" /\ snap' = [snap EXCEPT !.st = "unmarked"]
      /\ blockingOps' = blockingOps
      /\ UNCHANGED unchangedBySnapshot
      /\ db' = db /\ active' = active
      /\ marker' = [e \in Epochs |-> NoRoot] /\ latestFinished' = snap.epoch
  BY DEF RemoveMarker
<1>2. snap' \in Snapshots /\ snap'.st = "unmarked" /\ snap'.root = snap.root
  BY <1>1, SnapshotFacts DEF Snapshots
<1>3. SnapshotOps = 0 /\ SnapshotOps' = 0 /\ IdleIsNoSnapshot'
  BY <1>1, <1>2, SnapshotFacts DEF SnapshotOps, IdleIsNoSnapshot
<1>4. OpsAreCounted' /\ blockingOps' \in Nat
  BY <1>1, <1>3, SnapshotFacts, SnapshotFrame DEF OpsAreCounted
<1>5. TypeOfMarkers' /\ NoMarkerOfFinished'
  BY <1>1, SnapshotFacts DEF TypeOfMarkers, NoMarkerOfFinished
<1> QED
  BY <1>1, <1>2, <1>3, <1>4, <1>5, SnapshotFacts, WorkerKeepsIInv

LEMMA MarkActiveKeepsIInv ==
  ASSUME IInv, MarkActive
  PROVE  IInv'
<1>1. /\ snap.st = "unmarked" /\ snap' = NoSnapshot
      /\ blockingOps' = blockingOps
      /\ UNCHANGED unchangedBySnapshot /\ UNCHANGED markerVars
      /\ db' = db /\ active' = active \cup {snap.epoch}
  BY DEF MarkActive
<1>2. snap' \in Snapshots
  BY <1>1, SnapshotFacts
<1>3. SnapshotOps = 0 /\ SnapshotOps' = 0 /\ IdleIsNoSnapshot'
  BY <1>1 DEF SnapshotOps, IdleIsNoSnapshot, NoSnapshot
<1>4. OpsAreCounted' /\ blockingOps' \in Nat
  BY <1>1, <1>3, SnapshotFacts, SnapshotFrame DEF OpsAreCounted
<1> QED
  BY <1>1, <1>2, <1>3, <1>4, SnapshotFacts, MarkersFrame, WorkerKeepsIInv
\* The chain, the calls and the disk, when a step leaves them alone.
LEMMA NodeFrame ==
  ASSUME IInv, UNCHANGED <<chainVars, pruningVars, diskVars, metaRoot>>
  PROVE  /\ TypeOfChain' /\ TypeOfPruning' /\ TypeOfDisk' /\ ChainIsCommitted'
         /\ Tidy(list') /\ (PutsMayDiffer \/ IsInverse(list')) /\ todo' = todo
<1>1. /\ UNCHANGED <<chain, final, lastRestartNonce, commits, restarts>>
      /\ UNCHANGED <<todo, list, buffer, emptied>>
      /\ UNCHANGED <<db, active, epoch, metaRoot>>
  BY DEF chainVars, pruningVars, diskVars
<1>2. TypeOfChain' /\ ChainIsCommitted'
  BY <1>1, IInvParts DEF TypeOfChain, ChainIsCommitted
<1>3. TypeOfPruning'
  BY <1>1, IInvParts, Zenon DEF TypeOfPruning
<1>4. Tidy(list') /\ (PutsMayDiffer \/ IsInverse(list'))
  BY <1>1, IInvParts
<1>5. TypeOfDisk'
  BY <1>1, IInvParts DEF TypeOfDisk
<1> QED
  BY <1>1, <1>2, <1>3, <1>4, <1>5

\* A late marker is put only for an epoch above the last finished snapshot's.
LEMMA AddMarkerKeepsIInv ==
  ASSUME IInv, NEW m \in adding, AddMarker(m)
  PROVE  IInv'
<1>1. /\ UNCHANGED <<chainVars, pruningVars, diskVars, metaRoot>>
      /\ UNCHANGED <<snap, lastSnapshot, latestFinished, blockingOps, iterators>>
      /\ adding' = adding \ {m}
  BY DEF AddMarker
<1>2. TypeOfSnapshots' /\ SnapshotOps' = SnapshotOps /\ IdleIsNoSnapshot'
  BY <1>1, IInvParts DEF TypeOfSnapshots, SnapshotOps, IdleIsNoSnapshot
<1>3. OpsAreCounted'
  BY <1>1, <1>2, IInvParts DEF OpsAreCounted
<1>4. NoCallPassed'
  BY <1>1, <1>2, NodeFrame, IInvParts DEF NoCallPassed
<1>5. TypeOfMarkers' /\ NoMarkerOfFinished'
  <2>1. m.epoch \in Epochs /\ m.root \in Roots \cup {NoRoot}
    BY IInvParts DEF TypeOfSnapshots, Marks
  <2>2. \/ marker' = marker
        \/ ~ (m.epoch <= latestFinished) /\ marker' = [marker EXCEPT ![m.epoch] = m.root]
    BY DEF AddMarker
  <2>3. TypeOfMarkers'
    BY <1>1, <2>1, <2>2, IInvParts DEF TypeOfMarkers
  <2>4. \A e \in Epochs : e \in Int
    BY NumberFacts
  <2>5. latestFinished \in Epochs
    BY IInvParts DEF TypeOfMarkers
  <2>6. NoMarkerOfFinished'
    BY <1>1, <2>1, <2>2, <2>4, <2>5, IInvParts DEF TypeOfMarkers, NoMarkerOfFinished
  <2> QED
    BY <2>3, <2>6
<1> QED
  BY <1>1, <1>2, <1>3, <1>4, <1>5, NodeFrame, IInvFromParts

\* Iterators enter and leave the mode once each.
LEMMA IteratorsKeepIInv ==
  ASSUME IInv, OpenIterator \/ CloseIterator
  PROVE  IInv'
<1>1. /\ UNCHANGED <<chainVars, pruningVars, diskVars, metaRoot>>
      /\ UNCHANGED <<snap, lastSnapshot, adding>> /\ UNCHANGED markerVars
  BY DEF OpenIterator, CloseIterator, snapVars
<1>2. SnapshotOps' = SnapshotOps /\ IdleIsNoSnapshot'
  BY <1>1, IInvParts DEF SnapshotOps, IdleIsNoSnapshot
<1>3. iterators \in [open : Nat, opened : 0 .. MaxIterators] /\ MaxIterators \in Nat
  BY IInvParts, NumberFacts DEF TypeOfSnapshots
<1>4. /\ iterators' \in [open : Nat, opened : 0 .. MaxIterators]
      /\ blockingOps' = iterators'.open + SnapshotOps
      /\ blockingOps' \in Nat
  <2>1. CASE OpenIterator
    <3>1. /\ iterators.opened < MaxIterators
          /\ iterators' = [open |-> iterators.open + 1, opened |-> iterators.opened + 1]
          /\ blockingOps' = blockingOps + 1
      BY <2>1 DEF OpenIterator, EnterPruningBufferingMode
    <3> QED
      BY <3>1, <1>3, SnapshotFacts
  <2>2. CASE CloseIterator
    <3>1. /\ iterators.open > 0
          /\ iterators' = [iterators EXCEPT !.open = @ - 1]
          /\ blockingOps' = ExitPruningBufferingMode(blockingOps)
      BY <2>2 DEF CloseIterator
    <3>2. blockingOps >= 1
      BY <3>1, SnapshotFacts
    <3>3. blockingOps' = blockingOps - 1
      BY <3>1, <3>2, SnapshotFacts, ExitFacts
    <3>4. iterators'.open = iterators.open - 1
      BY <3>1, <1>3
    <3>5. iterators' \in [open : Nat, opened : 0 .. MaxIterators]
      BY <3>1, <1>3
    <3> QED
      BY <3>1, <3>2, <3>3, <3>4, <3>5, SnapshotFacts
  <2> QED
    BY <2>1, <2>2
<1>5. TypeOfSnapshots'
  BY <1>1, <1>4, IInvParts DEF TypeOfSnapshots
<1>6. OpsAreCounted'
  BY <1>2, <1>4 DEF OpsAreCounted
<1>7. NoCallPassed'
  BY <1>1, <1>2, NodeFrame, IInvParts DEF NoCallPassed
<1> QED
  BY <1>1, <1>2, <1>5, <1>6, <1>7, NodeFrame, MarkersFrame, IInvFromParts

\* The calls of a rollback are made through the interface of the manager, and
\* what is left of the chain is a chain.
LEMMA RollBackKeepsIInv ==
  ASSUME IInv, RollBackOneBlock
  PROVE  IInv'
<1> DEFINE giveUp == [call |-> "CancelPrune", key |-> <<RootAt(Height - 1), "Old">>,
                      on |-> FALSE]
           pruneNew == [call |-> "PruneTrie", key |-> <<RootAt(Height), "New">>,
                        on |-> IsPruningEnabled(Height, lastRestartNonce)]
<1>1. /\ Height > final /\ chain' = SubSeq(chain, 1, Len(chain) - 1)
      /\ UNCHANGED <<final, lastRestartNonce, commits, restarts>>
      /\ UNCHANGED <<list, buffer, emptied>> /\ UNCHANGED <<db, active, epoch, metaRoot>>
      /\ UNCHANGED <<snap, lastSnapshot, adding, blockingOps, iterators>>
      /\ UNCHANGED markerVars
  BY DEF RollBackOneBlock, diskVars, snapVars
<1>2. \/ todo' = <<>> \o <<>>
      \/ todo' = <<giveUp>> \o <<>>
      \/ todo' = <<>> \o <<giveUp, pruneNew>>
      \/ todo' = <<giveUp>> \o <<giveUp, pruneNew>>
  BY DEF RollBackOneBlock
<1>3. TypeOK /\ StartNonce \in Nat /\ MaxCommits \in Nat
  BY IInvParts, NumberFacts
<1>4. TypeOfChain' /\ ChainIsCommitted'
  <2>1. chain \in Seq(Blocks) /\ Len(chain) \in Nat /\ Len(chain) >= 2
    BY <1>1, <1>3, ChainFacts DEF TypeOK
  <2>2. chain' \in Seq(Blocks) /\ Len(chain') = Len(chain) - 1
    BY <1>1, <2>1
  <2>3. final \in StartNonce .. StartNonce + Len(chain') - 1
    BY <1>1, <1>3, <2>1, <2>2, ChainFacts
  <2>4. Len(chain) <= commits + 1 /\ Len(chain) <= MaxCommits + 1 /\ commits \in Nat
    BY IInvParts DEF ChainIsCommitted, TypeOfChain
  <2> QED
    BY <1>1, <1>3, <2>1, <2>2, <2>3, <2>4, IInvParts DEF ChainIsCommitted, TypeOfChain
<1>5. giveUp \in Calls /\ pruneNew \in Calls
  <2>1. Height - 1 \in StartNonce .. Height /\ Height \in StartNonce .. Height
    BY <1>1, <1>3, ChainFacts
  <2>2. RootAt(Height - 1) \in Roots /\ RootAt(Height) \in Roots
    BY <2>1, <1>3, ChainFacts
  <2>3. IsPruningEnabled(Height, lastRestartNonce) \in BOOLEAN
    BY DEF IsPruningEnabled
  <2> QED
    BY <2>2, <2>3 DEF Calls, Keys, Identifiers
<1>6. giveUp.call \in Unresolved /\ pruneNew.call \in Unresolved
  BY DEF Unresolved
<1> HIDE DEF giveUp, pruneNew
<1>7. todo' \in Seq(Calls) /\ \A i \in 1 .. Len(todo') : todo'[i].call \in Unresolved
  <2>1. CASE todo' = <<>> \o <<>>
    BY <2>1, <1>5, <1>6
  <2>2. CASE todo' = <<giveUp>> \o <<>>
    BY <2>2, <1>5, <1>6
  <2>3. CASE todo' = <<>> \o <<giveUp, pruneNew>>
    BY <2>3, <1>5, <1>6
  <2>4. CASE todo' = <<giveUp>> \o <<giveUp, pruneNew>>
    BY <2>4, <1>5, <1>6
  <2> QED
    BY <2>1, <2>2, <2>3, <2>4, <1>2
<1>8. TypeOfPruning' /\ Tidy(list') /\ (PutsMayDiffer \/ IsInverse(list'))
  BY <1>1, <1>7, IInvParts, Zenon DEF TypeOfPruning
<1>9. TypeOfDisk'
  BY <1>1, IInvParts DEF TypeOfDisk
<1>10. TypeOfSnapshots' /\ SnapshotOps' = SnapshotOps /\ IdleIsNoSnapshot'
  BY <1>1, IInvParts DEF TypeOfSnapshots, SnapshotOps, IdleIsNoSnapshot
<1>11. OpsAreCounted'
  BY <1>1, <1>10, IInvParts DEF OpsAreCounted
<1>12. NoCallPassed'
  BY <1>7 DEF NoCallPassed
<1> QED
  BY <1>1, <1>4, <1>8, <1>9, <1>10, <1>11, <1>12, MarkersFrame, IInvFromParts
\* A restart forgets what is in memory; the snapshot it may take up is the only
\* operation that blocks pruning then.
LEMMA RestartKeepsIInv ==
  ASSUME IInv, NEW nonce \in StartNonce .. Height, Restart(nonce)
  PROVE  IInv'
<1>1. /\ restarts < MaxRestarts
      /\ nonce \in final .. (IF todo = <<>> THEN Height ELSE Height - 1)
      /\ chain' = SubSeq(chain, 1, nonce - StartNonce + 1)
      /\ lastRestartNonce' = 0 /\ restarts' = restarts + 1
      /\ todo' = <<>> /\ list' = EmptyList /\ buffer' = <<>>
      /\ latestFinished' = 0
      /\ iterators' = [iterators EXCEPT !.open = 0]
      /\ UNCHANGED <<final, commits, emptied, marker>>
      /\ UNCHANGED <<db, active, epoch, metaRoot>>
  BY DEF Restart, diskVars
<1>2. TypeOK /\ StartNonce \in Nat /\ MaxCommits \in Nat /\ MaxRestarts \in Nat
  BY IInvParts, NumberFacts
<1>3. TypeOfChain' /\ ChainIsCommitted'
  <2> DEFINE len == nonce - StartNonce + 1
  <2>1. chain \in Seq(Blocks) /\ Len(chain) \in Nat
    BY <1>2 DEF TypeOK
  <2>2. nonce >= final /\ nonce <= Height
    BY <1>1, <1>2, ChainFacts
  <2>3. len \in 1 .. Len(chain)
    BY <2>1, <2>2, <1>2, ChainFacts
  <2>4. final \in StartNonce .. StartNonce + len - 1
    BY <2>2, <1>2, ChainFacts
  <2> HIDE DEF len
  <2>5. chain' \in Seq(Blocks) /\ Len(chain') = len
    BY <1>1, <2>1, <2>3 DEF len
  <2>6. Len(chain) <= commits + 1 /\ Len(chain) <= MaxCommits + 1 /\ commits \in Nat
    BY IInvParts DEF ChainIsCommitted, TypeOfChain
  <2>7. restarts' \in 0 .. MaxRestarts
    <3>1. restarts \in 0 .. MaxRestarts
      BY IInvParts DEF TypeOfChain
    <3> QED
      BY ONLY <1>1, <1>2, <3>1
  <2> QED
    <3>1. Len(chain') \in 1 .. MaxCommits + 1 /\ Len(chain') <= commits + 1
      BY <1>2, <2>1, <2>3, <2>5, <2>6
    <3>2. lastRestartNonce' \in 0 .. StartNonce + MaxCommits
      BY <1>1, <1>2
    <3>3. final' = final /\ commits' = commits
      BY <1>1
    <3>4. commits \in 0 .. MaxCommits
      BY IInvParts DEF TypeOfChain
    <3> QED
      BY <3>1, <3>2, <3>3, <3>4, <2>4, <2>5, <2>7 DEF ChainIsCommitted, TypeOfChain
<1>4. TypeOfPruning' /\ Tidy(list') /\ (PutsMayDiffer \/ IsInverse(list'))
  <2>1. todo' \in Seq(Calls) /\ buffer' \in Seq(Buffered) /\ Len(buffer') <= PruningBufferLen
    BY <1>1, ListAssumption DEF ListAssumption
  <2>2. emptied' \in BOOLEAN
    BY <1>1, IInvParts, Zenon DEF TypeOfPruning
  <2> QED
    BY <1>1, <2>1, <2>2, EmptyListFacts, Zenon DEF TypeOfPruning
<1>5. TypeOfDisk' /\ epoch \in Epochs
  BY <1>1, IInvParts DEF TypeOfDisk
<1>6. TypeOfMarkers' /\ NoMarkerOfFinished'
  <2>1. marker' = marker /\ marker \in [Epochs -> Roots \cup {NoRoot}]
    BY <1>1, IInvParts DEF TypeOfMarkers
  <2>2. \A e \in Epochs : marker[e] # NoRoot => e > 0
    BY IInvParts, NumberFacts DEF NoMarkerOfFinished, TypeOfMarkers
  <2> QED
    BY <1>1, <2>1, <2>2, NumberFacts DEF TypeOfMarkers, NoMarkerOfFinished
<1>7. iterators' \in [open : Nat, opened : 0 .. MaxIterators] /\ iterators'.open = 0
  BY <1>1, IInvParts DEF TypeOfSnapshots
<1>8. NoMark \in Marks /\ NoSnapshot \in Snapshots
  BY NumberFacts DEF NoMark, Marks, NoSnapshot, Snapshots
<1>9. /\ adding' \subseteq Marks /\ lastSnapshot' \in Marks
      /\ \/ snap' = NoSnapshot /\ blockingOps' = 0
         \/ /\ marker[epoch] \in Roots
            /\ snap' = [st |-> "waiting", root |-> marker[epoch], epoch |-> epoch,
                        err |-> FALSE]
            /\ blockingOps' = 1
  <2>1. CASE marker[epoch] = NoRoot
    <3>1. snap' = NoSnapshot /\ lastSnapshot' = NoMark /\ adding' = {} /\ blockingOps' = 0
      BY <2>1 DEF Restart
    <3> QED
      BY <3>1, <1>8
  <2>2. CASE marker[epoch] # NoRoot
    <3>1. SnapshotState(marker[epoch], epoch, NoMark, NoSnapshot, {}, 0)
      BY <2>2 DEF Restart
    <3>2. marker[epoch] \in Roots
      BY <2>2, <1>5, IInvParts DEF TypeOfMarkers
    <3>3. {} \in SUBSET Marks /\ 0 \in Nat /\ 0 + 1 = 1
      OBVIOUS
    <3> QED
      BY <3>1, <3>2, <3>3, <1>5, <1>8, SnapshotStateFacts
  <2> QED
    BY <2>1, <2>2
<1>10. /\ snap' \in Snapshots /\ blockingOps' \in Nat /\ IdleIsNoSnapshot'
       /\ SnapshotOps' = blockingOps'
  <2>1. CASE snap' = NoSnapshot /\ blockingOps' = 0
    BY <2>1, <1>8 DEF SnapshotOps, IdleIsNoSnapshot, NoSnapshot
  <2>2. CASE /\ marker[epoch] \in Roots
             /\ snap' = [st |-> "waiting", root |-> marker[epoch], epoch |-> epoch,
                         err |-> FALSE]
             /\ blockingOps' = 1
    BY <2>2, <1>5 DEF SnapshotOps, IdleIsNoSnapshot, Snapshots
  <2> QED
    BY <2>1, <2>2, <1>9
<1>11. TypeOfSnapshots' /\ OpsAreCounted'
  <2>1. adding' \subseteq Marks /\ lastSnapshot' \in Marks
    BY <1>9
  <2>2. \A a \in Nat : a = 0 + a
    OBVIOUS
  <2>3. blockingOps' = iterators'.open + SnapshotOps'
    BY <2>2, <1>7, <1>10, Zenon
  <2> QED
    BY <2>1, <2>3, <1>7, <1>10 DEF TypeOfSnapshots, OpsAreCounted
<1>12. NoCallPassed'
  BY <1>1 DEF NoCallPassed
<1> QED
  BY <1>3, <1>4, <1>5, <1>6, <1>10, <1>11, <1>12, IInvFromParts

\* A commit extends the chain, lists what it adds and what it makes obsolete,
\* and may start a snapshot; its calls are made through the manager's interface.
LEMMA CommitBlockKeepsIInv ==
  ASSUME IInv, NEW root \in Roots, NEW start \in BOOLEAN, NEW withMeta \in BOOLEAN,
         NEW n \in final .. Height, NEW m \in final .. n, NEW g \in final .. n,
         CommitBlock(root, start, withMeta, g, n, m)
  PROVE  IInv'
<1> DEFINE last == chain[Len(chain)]
           blockEpoch == IF start THEN last.epoch + 1 ELSE last.epoch
           putEpoch == IF start THEN last.epoch ELSE blockEpoch
           meta == IF withMeta THEN last.meta + 1 ELSE last.meta
           restartNonce == IF lastRestartNonce = 0 THEN Height + 1 ELSE lastRestartNonce
           toSnapshot == IF metaRoot[meta] = NoRoot THEN RootAt(g) ELSE metaRoot[meta]
<1>1. /\ commits < MaxCommits
      /\ MayFollow(root)
      /\ start => blockEpoch \in Epochs
      /\ withMeta => meta \in Epochs
      /\ chain' = Append(chain, [root |-> root, epoch |-> blockEpoch, meta |-> meta])
      /\ epoch' = IF start THEN blockEpoch ELSE epoch
      /\ db' = [db EXCEPT ![putEpoch] = @ \cup Added(last.root, root)]
      /\ list' = MarkForEviction(list, last.root, root)
      /\ lastRestartNonce' = restartNonce
      /\ todo' = updateStateStorage(final, m, restartNonce)
      /\ final' = n
      /\ commits' = commits + 1
      /\ UNCHANGED <<buffer, active, iterators, restarts>> /\ UNCHANGED markerVars
  BY DEF CommitBlock
<1>2. /\ withMeta => /\ metaRoot' = [metaRoot EXCEPT ![meta] = toSnapshot]
                     /\ SnapshotState(toSnapshot, meta, lastSnapshot, snap, adding,
                                      blockingOps)
      /\ ~ withMeta => UNCHANGED <<metaRoot, snap, lastSnapshot, adding, blockingOps>>
  BY DEF CommitBlock, snapVars
<1>3. emptied' \in BOOLEAN
  BY DEF CommitBlock
<1>4. TypeOK /\ StartNonce \in Nat /\ MaxCommits \in Nat
  BY IInvParts, NumberFacts
<1>5. last \in Blocks /\ last.root = RootAt(Height)
  <2>1. Len(chain) \in 1 .. Len(chain)
    BY <1>4, ChainFacts
  <2> QED
    BY <2>1, <1>4, ChainFacts
<1> HIDE DEF last
<1>6. last.root \in Roots /\ last.epoch \in Epochs /\ last.meta \in Epochs
  BY <1>5 DEF Blocks
<1>7. blockEpoch \in Epochs /\ putEpoch \in Epochs /\ meta \in Epochs
  BY <1>1, <1>6
<1> HIDE DEF blockEpoch, putEpoch, meta
<1>8. g \in StartNonce .. Height /\ m \in StartNonce .. Height /\ final \in StartNonce .. Height
  BY <1>4, ChainFacts
<1>9. toSnapshot \in Roots
  <2>1. RootAt(g) \in Roots
    BY <1>4, <1>8, ChainFacts
  <2>2. metaRoot[meta] \in Roots \cup {NoRoot}
    BY <1>7, IInvParts DEF TypeOfDisk
  <2> QED
    BY <2>1, <2>2
<1> HIDE DEF toSnapshot
<1>10. restartNonce \in 0 .. StartNonce + MaxCommits
  <2>1. Len(chain) <= commits + 1 /\ commits \in Nat
    BY IInvParts DEF TypeOfChain, ChainIsCommitted
  <2>2. Height + 1 = StartNonce + Len(chain) /\ Len(chain) \in Nat
    BY <1>4, ChainFacts
  <2>3. commits < MaxCommits
    BY <1>1
  <2>4. Height + 1 \in 0 .. StartNonce + MaxCommits
    BY <2>1, <2>2, <2>3, <1>4
  <2>5. lastRestartNonce \in 0 .. StartNonce + MaxCommits
    BY IInvParts DEF TypeOfChain
  <2> QED
    BY <2>4, <2>5
<1> HIDE DEF restartNonce
<1>11. TypeOfChain' /\ ChainIsCommitted'
  <2>1. chain \in Seq(Blocks) /\ Len(chain) \in Nat
    BY <1>4 DEF TypeOK
  <2>2. [root |-> root, epoch |-> blockEpoch, meta |-> meta] \in Blocks
    BY <1>7 DEF Blocks
  <2>3. chain' \in Seq(Blocks) /\ Len(chain') = Len(chain) + 1
    BY <1>1, <2>1, <2>2
  <2>4. final' \in StartNonce .. StartNonce + Len(chain') - 1
    BY <1>1, <1>4, <2>1, <2>3, ChainFacts
  <2>5. Len(chain) <= commits + 1 /\ commits \in 0 .. MaxCommits
    BY IInvParts DEF ChainIsCommitted, TypeOfChain
  <2>6. commits' \in 0 .. MaxCommits /\ Len(chain') <= commits' + 1
    BY <1>1, <1>4, <2>1, <2>3, <2>5
  <2>7. Len(chain') \in 1 .. MaxCommits + 1
    BY <1>4, <2>1, <2>3, <2>6
  <2>8. restarts' \in 0 .. MaxRestarts /\ lastRestartNonce' \in 0 .. StartNonce + MaxCommits
    BY <1>1, <1>10, IInvParts DEF TypeOfChain
  <2> QED
    BY <2>3, <2>4, <2>6, <2>7, <2>8 DEF ChainIsCommitted, TypeOfChain
<1>12. todo' \in Seq(Calls) /\ \A i \in 1 .. Len(todo') : todo'[i].call \in Unresolved
  BY <1>1, <1>4, <1>8, UpdateStateStorageFacts
<1>13. list' \in Lists /\ Tidy(list') /\ (PutsMayDiffer \/ IsInverse(list'))
  <2>1. list \in Lists /\ Tidy(list) /\ (PutsMayDiffer \/ IsInverse(list))
    BY IInvParts DEF TypeOfPruning
  <2>2. \/ PutsMayDiffer
        \/ root = last.root
        \/ \A k \in ListedKeys(last.root, root) :
             \/ list.cache[k].refs = 0
             \/ list.cache[k].hashes = ListedHashes(last.root, root, k)
    BY <1>1, <1>5 DEF MayFollow
  <2> QED
    BY <2>1, <2>2, <1>1, <1>6, MarkForEvictionFacts
<1>14. TypeOfPruning'
  <2>1. buffer' \in Seq(Buffered) /\ Len(buffer') <= PruningBufferLen
    BY <1>1, IInvParts DEF TypeOfPruning
  <2> QED
    BY <2>1, <1>3, <1>12, <1>13, Zenon DEF TypeOfPruning
<1>15. TypeOfDisk'
  <2>1. Added(last.root, root) \subseteq Nodes
    BY <1>6, StateAssumption DEF StateAssumption, Added
  <2>2. db' \in [Epochs -> SUBSET Nodes]
    BY <1>1, <1>7, <2>1, SnapshotFacts
  <2>3. metaRoot' \in [Epochs -> Roots \cup {NoRoot}]
    BY <1>2, <1>7, <1>9, IInvParts DEF TypeOfDisk
  <2>4. epoch' \in Epochs /\ active' \subseteq Epochs
    BY <1>1, <1>7, SnapshotFacts
  <2> QED
    BY <2>2, <2>3, <2>4 DEF TypeOfDisk
<1>16. /\ adding' \subseteq Marks /\ lastSnapshot' \in Marks
       /\ \/ snap' = snap /\ blockingOps' = blockingOps
          \/ /\ snap = NoSnapshot
             /\ snap' = [st |-> "waiting", root |-> toSnapshot, epoch |-> meta, err |-> FALSE]
             /\ blockingOps' = blockingOps + 1
  <2>1. /\ lastSnapshot \in Marks /\ snap \in Snapshots /\ adding \in SUBSET Marks
        /\ blockingOps \in Nat
    BY IInvParts DEF TypeOfSnapshots
  <2>2. CASE withMeta
    <3>1. SnapshotState(toSnapshot, meta, lastSnapshot, snap, adding, blockingOps)
      BY <1>2, <2>2
    <3> QED
      BY <3>1, <2>1, <1>7, <1>9, SnapshotStateFacts
  <2>3. CASE ~ withMeta
    BY <1>2, <2>1, <2>3
  <2> QED
    BY <2>2, <2>3
<1>17. /\ snap' \in Snapshots /\ blockingOps' \in Nat /\ IdleIsNoSnapshot'
       /\ blockingOps' = iterators.open + SnapshotOps'
  <2>1. CASE snap' = snap /\ blockingOps' = blockingOps
    <3>1. SnapshotOps' = SnapshotOps /\ IdleIsNoSnapshot'
      BY <2>1, IInvParts DEF SnapshotOps, IdleIsNoSnapshot
    <3> QED
      BY <2>1, <3>1, SnapshotFacts
  <2>2. CASE /\ snap = NoSnapshot
             /\ snap' = [st |-> "waiting", root |-> toSnapshot, epoch |-> meta, err |-> FALSE]
             /\ blockingOps' = blockingOps + 1
    <3>1. snap' \in Snapshots /\ IdleIsNoSnapshot' /\ SnapshotOps' = 1
      BY <2>2, <1>7, <1>9 DEF SnapshotOps, IdleIsNoSnapshot, Snapshots
    <3>2. SnapshotOps = 0
      BY <2>2 DEF SnapshotOps, NoSnapshot
    <3> QED
      BY <2>2, <3>1, <3>2, SnapshotFacts
  <2> QED
    BY <2>1, <2>2, <1>16
<1>18. TypeOfSnapshots' /\ OpsAreCounted'
  <2>1. iterators' = iterators /\ iterators \in [open : Nat, opened : 0 .. MaxIterators]
    BY <1>1, IInvParts DEF TypeOfSnapshots
  <2> QED
    BY <2>1, <1>16, <1>17 DEF TypeOfSnapshots, OpsAreCounted
<1>19. NoCallPassed'
  BY <1>12 DEF NoCallPassed
<1> QED
  BY <1>1, <1>11, <1>13, <1>14, <1>15, <1>17, <1>18, <1>19, MarkersFrame, IInvFromParts
LEMMA NextIInv ==
  ASSUME IInv, [Next]_vars
  PROVE  IInv'
<1>1. CASE UNCHANGED vars
  <2>1. /\ UNCHANGED <<chainVars, pruningVars, diskVars, metaRoot>> /\ UNCHANGED markerVars
        /\ UNCHANGED <<snap, lastSnapshot, adding, blockingOps, iterators>>
    BY <1>1 DEF vars, snapVars
  <2>2. TypeOfSnapshots' /\ SnapshotOps' = SnapshotOps /\ IdleIsNoSnapshot'
    BY <2>1, IInvParts DEF TypeOfSnapshots, SnapshotOps, IdleIsNoSnapshot
  <2>3. OpsAreCounted' /\ NoCallPassed'
    BY <2>1, <2>2, NodeFrame, IInvParts DEF OpsAreCounted, NoCallPassed
  <2> QED
    BY <2>1, <2>2, <2>3, NodeFrame, MarkersFrame, IInvFromParts
<1>2. CASE Commit
  <2>1. PICK root \in Roots, start \in BOOLEAN, withMeta \in BOOLEAN, n \in final .. Height :
          \E m \in final .. n, g \in final .. n :
            CommitBlock(root, start, withMeta, g, n, m)
    BY <1>2, Zenon DEF Commit
  <2> QED
    BY <2>1, CommitBlockKeepsIInv
<1>3. CASE RollBackOneBlock
  BY <1>3, RollBackKeepsIInv
<1>4. CASE Pruning
  BY <1>4, CancelPruneKeepsIInv, PruneTrieKeepsIInv, cancelPruneKeepsIInv, pruneKeepsIInv
  DEF Pruning
<1>5. CASE SnapshotWorker
  BY <1>5, StartCopyingKeepsIInv, WaitTimesOutKeepsIInv, CopyKeepsIInv, FinishKeepsIInv,
     IncompleteKeepsIInv, RemoveMarkerKeepsIInv, MarkActiveKeepsIInv
  DEF SnapshotWorker
<1>6. CASE \E m \in adding : AddMarker(m)
  BY <1>6, AddMarkerKeepsIInv
<1>7. CASE OpenIterator \/ CloseIterator
  BY <1>7, IteratorsKeepIInv
<1>8. CASE \E nonce \in StartNonce .. Height : Restart(nonce)
  BY <1>8, RestartKeepsIInv
<1> QED
  BY <1>1, <1>2, <1>3, <1>4, <1>5, <1>6, <1>7, <1>8, Zenon DEF Next

LEMMA SpecIInv == Spec => []IInv
BY InitIInv, NextIInv, PTL DEF Spec

-----------------------------------------------------------------------------
(* The theorems *)

\* Every variable keeps its type: the final nonce stays within the chain, the
\* pruning buffer within its capacity, the calls of updateStateStorage and of a
\* rollback name states of the chain.
THEOREM TypeCorrect == Spec => []TypeOK
<1>1. IInv => TypeOK
  BY DEF IInv
<1> QED
  BY <1>1, SpecIInv, PTL

\* However commits, evictions, rollbacks and restarts follow each other, the
\* reversed cache of the eviction waiting list leads from a hash to exactly the
\* entries that list it, if a key that is still listed is only listed again
\* with the same hashes (Put drops the hashes of a second listing).
THEOREM ReverseLookupsCorrect == Spec => [](PutsMayDiffer \/ ReversedIsInverse)
<1>1. IInv => PutsMayDiffer \/ ReversedIsInverse
  BY DEF IInv, InverseUnlessDiffer
<1> QED
  BY <1>1, SpecIInv, PTL

\* The marker of a finished snapshot never comes back, however late the AddMarker
\* goroutines run and whatever snapshots were skipped.
THEOREM FinishedStaysUnmarked == Spec => []NoMarkerOfFinished
<1>1. IInv => NoMarkerOfFinished
  BY DEF IInv
<1> QED
  BY <1>1, SpecIInv, PTL

\* The counter of the trie storage manager is the number of those who block
\* pruning: no enter and no exit of the buffering mode is lost, and the guard of
\* ExitPruningBufferingMode never applies.
THEOREM BlockingIsCounted == Spec => []OpsAreCounted
<1>1. IInv => OpsAreCounted
  BY DEF IInv
<1> QED
  BY <1>1, SpecIInv, PTL

\* Nothing leaves the DB of any epoch but what prune removes.
LEMMA DisksGrow ==
  ASSUME IInv, [Next]_vars, ~ prune, NEW x \in Epochs
  PROVE  db[x] \subseteq db'[x]
<1>1. db \in [Epochs -> SUBSET Nodes]
  BY SnapshotFacts
<1>2. CASE db' = db
  BY <1>2
<1>3. CASE Commit
  <2>1. PICK root, start, withMeta, n, m, g : CommitBlock(root, start, withMeta, g, n, m)
    BY <1>3, Zenon DEF Commit
  <2>2. \E e, nodes : db' = [db EXCEPT ![e] = @ \cup nodes]
    BY <2>1 DEF CommitBlock
  <2> QED
    BY <1>1, <2>2
<1>4. CASE Copy
  <2>1. \A nodes : db[x] \subseteq Copied(nodes, snap.epoch)[x]
    BY <1>1, SnapshotFacts DEF Copied
  <2>2. \A nodes : Copied(nodes, snap.epoch) = [e \in Epochs |-> Copied(nodes, snap.epoch)[e]]
    BY <1>1 DEF Copied
  <2>3. \/ \E nodes : db' = Copied(nodes, snap.epoch)
        \/ \E nodes, more : db' = [Copied(nodes, snap.epoch) EXCEPT ![epoch] = @ \cup more]
    BY <1>4 DEF Copy
  <2> QED
    BY <2>1, <2>2, <2>3
<1>5. CASE UNCHANGED vars
  BY <1>2, <1>5 DEF vars, diskVars
<1>6. CASE RollBackOneBlock
  BY <1>2, <1>6 DEF RollBackOneBlock, diskVars
<1>7. CASE Pruning
  BY <1>2, <1>7 DEF Pruning, CancelPrune, PruneTrie, cancelPrune
<1>8. CASE SnapshotWorker
  BY <1>2, <1>4, <1>8 DEF SnapshotWorker, StartCopying, WaitTimesOut, Finish, Incomplete,
                          RemoveMarker, MarkActive
<1>9. CASE \E m \in adding : AddMarker(m)
  BY <1>2, <1>9 DEF AddMarker, diskVars
<1>10. CASE OpenIterator \/ CloseIterator
  BY <1>2, <1>10 DEF OpenIterator, CloseIterator, diskVars
<1>11. CASE \E nonce \in StartNonce .. Height : Restart(nonce)
  BY <1>2, <1>11 DEF Restart, diskVars
<1> QED
  BY <1>3, <1>5, <1>6, <1>7, <1>8, <1>9, <1>10, <1>11, Zenon DEF Next

\* While a snapshot waits for its epoch or copies, no node of its state leaves
\* the epochs it reads from: neither commits, rollbacks and finality, nor the
\* calls that were buffered before it, nor a restart that takes it up again.
THEOREM SnapshotsReadWhatTheyNeed == Spec => SnapshotSourceIsKept
<1> DEFINE Kept ==
      snap.st \in {"waiting", "copying"} /\ snap'.root = snap.root /\ snap'.epoch = snap.epoch
      => (NodesOf[snap.root] \cap SourceNodes(snap.epoch)) \subseteq SourceNodes(snap.epoch)'
<1>1. ASSUME IInv, [Next]_vars
      PROVE  Kept
  <2> SUFFICES ASSUME snap.st \in {"waiting", "copying"}, snap'.epoch = snap.epoch
               PROVE  SourceNodes(snap.epoch) \subseteq SourceNodes(snap.epoch)'
    OBVIOUS
  <2>1. ~ prune
    <3>1. SnapshotOps > 0
      BY <1>1, IInvParts, OpsFacts
    <3>2. "prune" \notin Unresolved
      BY DEF Unresolved
    <3> QED
      BY <1>1, <3>1, <3>2, FirstCall DEF prune
  <2>2. \A x \in Epochs : db[x] \subseteq db'[x]
    BY <1>1, <2>1, DisksGrow
  <2> QED
    BY <2>2 DEF SourceNodes
<1>2. IInv /\ [Next]_vars => [Kept]_vars
  BY <1>1
<1> QED
  BY <1>2, SpecIInv, PTL DEF Spec, SnapshotSourceIsKept
-----------------------------------------------------------------------------
(***************************************************************************)
(* The states a rollback may return to                                     *)
(*                                                                         *)
(* Every call to the pruning manager takes one reference from the entry it *)
(* names, whether it is made at once or waits in the buffer, and an entry  *)
(* may be listed again while calls for it wait.  So the references are     *)
(* counted: what the waiting calls will take, and one more for each block  *)
(* of the chain that the entry still stands for.  The definitions below    *)
(* are about c, the states of the chain; f, the place of the final one in  *)
(* it; l, a waiting list; and q, the calls that wait.                      *)
(***************************************************************************)

(* A call takes a reference, and removes hashes if it prunes.              *)
Awaited(call) == [key |-> call.key, prunes |-> call.call \in {"prune", "PruneTrie"}]

(* The calls in the order they take effect: those in the buffer first.     *)
Pending(b, t) ==
  [i \in 1 .. Len(b) + Len(t) |->
     IF i <= Len(b) THEN Awaited(b[i]) ELSE Awaited(t[i - Len(b)])]

Waiting == Pending(buffer, todo)

WaitingCalls == [key : Keys, prunes : BOOLEAN]

\* The number of the first n calls of q that name key k.
Count(q, n, k) == Cardinality({i \in 1 .. n : q[i].key = k})

States == [i \in 1 .. Len(chain) |-> chain[i].root]
FinalAt == final - StartNonce + 1

(* Where the chain leaves a state for good, updateStateStorage calls the   *)
(* pruning manager; it has not done so from here on.                       *)
SettledAt(f) == IF Scheduled /\ f > 1 THEN f - 1 ELSE f

(* A state that the chain has left does not come back.                     *)
Contiguous(c) ==
  \A i, j, x \in 1 .. Len(c) : i <= x /\ x <= j /\ c[i] = c[j] => c[x] = c[i]

(* Entry k has these hashes and a reference more than n calls take.        *)
Listed(l, k, n, hashes) == l.cache[k].refs >= n + 1 /\ l.cache[k].hashes = hashes

(* The calls that wait do not take more than there is.  The state the      *)
(* chain begins with was not committed and has no New entry.               *)
Balanced(c, l, q) ==
  \A k \in Keys : k # <<c[1], "New">> => l.cache[k].refs >= Count(q, Len(q), k)

(* Where the chain goes on to another state and that is not settled, what  *)
(* became obsolete is listed,                                              *)
ObsoleteListed(c, f, l, q) ==
  \A a \in SettledAt(f) .. Len(c) - 1 :
    c[a + 1] # c[a] =>
      Listed(l, <<c[a], "Old">>, Count(q, Len(q), <<c[a], "Old">>), Added(c[a + 1], c[a]))

(* and so is what a state added that the chain has not left for good.      *)
AddedListed(c, f, l, q) ==
  \A b \in 2 .. Len(c) :
    c[b - 1] # c[b] /\ (\E a \in SettledAt(f) .. Len(c) : c[a] = c[b]) =>
      Listed(l, <<c[b], "New">>, Count(q, Len(q), <<c[b], "New">>), Added(c[b - 1], c[b]))

(* A call that prunes what became obsolete after the state at a waits in   *)
(* place i: what the later states added is listed when its turn comes.     *)
PrunesAfter(c, l, q, i, a) ==
  /\ c[a] = q[i].key[1] /\ c[a + 1] # c[a]
  /\ l.cache[q[i].key].hashes \subseteq Added(c[a + 1], c[a])
  /\ \A b \in a + 1 .. Len(c) :
       c[b - 1] # c[b] =>
         Listed(l, <<c[b], "New">>, Count(q, i, <<c[b], "New">>), Added(c[b - 1], c[b]))

ObsoletePruned(c, f, l, q) ==
  \A i \in 1 .. Len(q) :
    q[i].prunes /\ q[i].key[2] = "Old" => \E a \in 1 .. f - 1 : PrunesAfter(c, l, q, i, a)

(* A call that prunes what a rolled back block added comes before the next *)
(* block is committed.                                                     *)
RolledBackPruned(c, l, q) ==
  \A i \in 1 .. Len(q) :
    q[i].prunes /\ q[i].key[2] = "New" =>
      /\ \A a \in 1 .. Len(c) : c[a] # q[i].key[1]
      /\ l.cache[q[i].key].hashes \subseteq Added(c[Len(c)], q[i].key[1])

Paid(c, f, l, q) ==
  /\ Balanced(c, l, q)
  /\ ObsoleteListed(c, f, l, q)
  /\ AddedListed(c, f, l, q)
  /\ ObsoletePruned(c, f, l, q)
  /\ RolledBackPruned(c, l, q)

-----------------------------------------------------------------------------
(* Counting calls *)

\* Counts are natural numbers, grow with the calls counted, and count a call.
LEMMA CountFacts ==
  ASSUME NEW q, NEW n \in Nat, NEW k
  PROVE  /\ Count(q, n, k) \in Nat
         /\ \A m \in 0 .. n : Count(q, m, k) <= Count(q, n, k)
         /\ \A j \in 1 .. n : q[j].key = k => Count(q, n, k) >= 1
<1> DEFINE S(m) == {i \in 1 .. m : q[i].key = k}
<1>1. ASSUME NEW m \in Nat
      PROVE  IsFiniteSet(S(m)) /\ Cardinality(S(m)) \in Nat
  <2>1. IsFiniteSet(1 .. m)
    BY FS_Interval
  <2> QED
    BY <2>1, FS_Subset, FS_CardinalityType
<1>2. ASSUME NEW m \in 0 .. n
      PROVE  Count(q, m, k) <= Count(q, n, k)
  <2>1. S(m) \subseteq S(n)
    OBVIOUS
  <2>2. Cardinality(S(m)) <= Cardinality(S(n))
    BY <2>1, <1>1, FS_Subset
  <2> QED
    BY <2>2 DEF Count
<1>3. ASSUME NEW j \in 1 .. n, q[j].key = k
      PROVE  Count(q, n, k) >= 1
  <2>1. S(n) # {}
    BY <1>3
  <2>2. Cardinality(S(n)) # 0
    BY <2>1, <1>1, FS_EmptySet
  <2> QED
    BY <2>2, <1>1 DEF Count
<1> QED
  BY <1>1, <1>2, <1>3 DEF Count

\* p is q without the call in place j.
Without(p, q, j) ==
  /\ Len(p) = Len(q) - 1
  /\ \A i \in 1 .. Len(q) - 1 : p[i] = IF i < j THEN q[i] ELSE q[i + 1]

\* A call that goes is counted no more.
LEMMA CountWithout ==
  ASSUME NEW q, NEW p, Len(q) \in Nat, NEW j \in 1 .. Len(q), Without(p, q, j), NEW k,
         NEW n \in 1 .. Len(q)
  PROVE  /\ n >= j => Count(q, n, k) =
                        Count(p, n - 1, k) + IF q[j].key = k THEN 1 ELSE 0
         /\ n < j => Count(q, n, k) = Count(p, n, k)
<1> DEFINE S == {i \in 1 .. n : q[i].key = k}
           T == {i \in 1 .. n - 1 : p[i].key = k}
           g == [i \in T |-> IF i < j THEN i ELSE i + 1]
<1>0. \A i \in 1 .. Len(q) - 1 : p[i] = IF i < j THEN q[i] ELSE q[i + 1]
  BY DEF Without
<1>1. CASE n >= j
  <2>1. IsFiniteSet(S) /\ IsFiniteSet(T) /\ Cardinality(S) \in Nat
    <3>1. IsFiniteSet(1 .. n) /\ IsFiniteSet(1 .. n - 1)
      BY FS_Interval
    <3> QED
      BY <3>1, FS_Subset, FS_CardinalityType
  <2>2. ASSUME NEW i \in T
        PROVE  g[i] \in S \ {j}
    BY <2>2, <1>0, <1>1
  <2>3. ASSUME NEW x \in S \ {j}
        PROVE  \E i \in T : g[i] = x
    <3>1. CASE x < j
      <4>1. x \in T
        BY <2>3, <3>1, <1>0, <1>1
      <4> QED
        BY <4>1, <3>1
    <3>2. CASE x > j
      <4>1. x - 1 \in 1 .. n - 1 /\ x - 1 \in 1 .. Len(q) - 1 /\ ~ (x - 1 < j)
        BY <2>3, <3>2
      <4>2. p[x - 1] = q[x]
        BY <4>1, <1>0, <2>3
      <4>3. x - 1 \in T
        BY <4>1, <4>2, <2>3
      <4> QED
        BY <4>1, <4>3
    <3> QED
      BY <3>1, <3>2, <2>3
  <2>4. \A x, y \in T : g[x] = g[y] => x = y
    OBVIOUS
  <2>5. g \in [T -> S \ {j}]
    BY <2>2
  <2> HIDE DEF g, S, T
  <2>6. g \in Surjection(T, S \ {j}) /\ g \in Injection(T, S \ {j})
    BY <2>3, <2>4, <2>5 DEF Surjection, Injection, IsInjective
  <2>7. Cardinality(S \ {j}) = Cardinality(T)
    BY <2>1, <2>6, FS_Surjection
  <2>8. Cardinality(S \ {j}) = IF j \in S THEN Cardinality(S) - 1 ELSE Cardinality(S)
    BY <2>1, FS_RemoveElement
  <2>9. j \in S <=> q[j].key = k
    BY <1>1 DEF S
  <2>10. Count(q, n, k) = Cardinality(S) /\ Count(p, n - 1, k) = Cardinality(T)
    BY DEF Count, S, T
  <2> QED
    BY <2>1, <2>7, <2>8, <2>9, <2>10, <1>1
<1>2. CASE n < j
  <2>1. \A i \in 1 .. n : p[i] = q[i]
    BY <1>0, <1>2
  <2>2. {i \in 1 .. n : q[i].key = k} = {i \in 1 .. n : p[i].key = k}
    BY <2>1
  <2>3. Count(q, n, k) = Count(p, n, k)
    BY <2>2 DEF Count
  <2> QED
    BY <2>3, <1>2
<1> QED
  BY <1>1, <1>2

\* The same calls are counted the same.
LEMMA CountSame ==
  ASSUME NEW q, NEW p, NEW n, \A i \in 1 .. n : p[i] = q[i], NEW k
  PROVE  Count(p, n, k) = Count(q, n, k)
<1>1. {i \in 1 .. n : p[i].key = k} = {i \in 1 .. n : q[i].key = k}
  OBVIOUS
<1> QED
  BY <1>1 DEF Count

\* Calls that come after the others and name other keys, or name a key once.
LEMMA CountLonger ==
  ASSUME NEW q, NEW p, NEW n \in Nat, NEW m \in Nat, n <= m,
         \A i \in 1 .. n : p[i] = q[i], NEW k
  PROVE  /\ (\A i \in n + 1 .. m : p[i].key # k) => Count(p, m, k) = Count(q, n, k)
         /\ (\A i, j \in n + 1 .. m : p[i].key = k /\ p[j].key = k => i = j)
            => Count(p, m, k) <= Count(q, n, k) + 1
<1> DEFINE S == {i \in 1 .. n : q[i].key = k}
           T == {i \in 1 .. m : p[i].key = k}
<1>1. IsFiniteSet(S) /\ IsFiniteSet(T) /\ Cardinality(S) \in Nat
  <2>1. IsFiniteSet(1 .. n) /\ IsFiniteSet(1 .. m)
    BY FS_Interval
  <2> QED
    BY <2>1, FS_Subset, FS_CardinalityType
<1>2. ASSUME \A i \in n + 1 .. m : p[i].key # k
      PROVE  Cardinality(T) = Cardinality(S)
  <2>1. T = S
    BY <1>2
  <2> QED
    BY <2>1
<1>3. ASSUME \A i, j \in n + 1 .. m : p[i].key = k /\ p[j].key = k => i = j
      PROVE  Cardinality(T) <= Cardinality(S) + 1
  <2>1. CASE \A i \in n + 1 .. m : p[i].key # k
    BY <2>1, <1>2, <1>1
  <2>2. CASE \E i \in n + 1 .. m : p[i].key = k
    <3>1. PICK x \in n + 1 .. m : p[x].key = k
      BY <2>2
    <3>2. T \subseteq S \cup {x}
      BY <3>1, <1>3
    <3> HIDE DEF S, T
    <3>3. /\ IsFiniteSet(S \cup {x})
          /\ Cardinality(S \cup {x}) \in {Cardinality(S), Cardinality(S) + 1}
      BY <1>1, FS_AddElement
    <3>4. Cardinality(T) <= Cardinality(S \cup {x}) /\ Cardinality(T) \in Nat
      BY <3>2, <3>3, <1>1, FS_Subset, FS_CardinalityType
    <3> QED
      BY <3>3, <3>4, <1>1
  <2> QED
    BY <2>1, <2>2
<1> QED
  BY <1>2, <1>3 DEF Count
-----------------------------------------------------------------------------
(* A call is made, or dropped from the buffer *)

\* What Evict does to the entries.
LEMMA EvictEntries ==
  ASSUME NEW l \in Lists, NEW key \in Keys, NEW k \in Keys
  PROVE  /\ k # key => Evict(l, key).cache[k] = l.cache[k]
         /\ l.cache[key].refs >= 2 =>
              /\ Evict(l, key).cache[key].refs = l.cache[key].refs - 1
              /\ Evict(l, key).cache[key].hashes = l.cache[key].hashes
         /\ l.cache[key].refs < 2 => Evict(l, key).cache[key] = NoEntry
         /\ l.cache[k].refs \in Nat
<1>1. l.cache \in [Keys -> [refs : Nat, hashes : SUBSET Nodes]]
  BY DEF Lists
<1>2. CASE l.cache[key].refs <= 1
  <2>1. Evict(l, key).cache = [l.cache EXCEPT ![key] = NoEntry]
    BY <1>2 DEF Evict
  <2> QED
    BY <1>1, <1>2, <2>1
<1>3. CASE ~ (l.cache[key].refs <= 1)
  <2>1. Evict(l, key).cache = [l.cache EXCEPT ![key] =
                                 [refs |-> l.cache[key].refs - 1, hashes |-> l.cache[key].hashes]]
    BY <1>3 DEF Evict, Lists
  <2> QED
    BY <1>1, <1>3, <2>1
<1> QED
  BY <1>2, <1>3

\* The calls of a sequence of them.
LEMMA CallsWait ==
  ASSUME NEW q \in Seq(WaitingCalls), NEW i \in 1 .. Len(q)
  PROVE  q[i] \in WaitingCalls /\ q[i].key \in Keys
<1>1. q[i] \in WaitingCalls
  OBVIOUS
<1> QED
  BY <1>1 DEF WaitingCalls

\* A call that is made takes a reference: what is listed with one more than the
\* calls counted take stays so when a call goes that was counted, or was not
\* made.
LEMMA ListedWithout ==
  ASSUME NEW l \in Lists, NEW q \in Seq(WaitingCalls), NEW p \in Seq(WaitingCalls),
         NEW j \in 1 .. Len(q), Without(p, q, j),
         NEW v, v = l \/ v = Evict(l, q[j].key),
         NEW k \in Keys, NEW n \in 1 .. Len(q), NEW hashes,
         n >= j \/ k # q[j].key,
         Listed(l, k, Count(q, n, k), hashes)
  PROVE  /\ n >= j => Listed(v, k, Count(p, n - 1, k), hashes)
         /\ n < j => Listed(v, k, Count(p, n, k), hashes)
<1>1. q[j] \in WaitingCalls /\ q[j].key \in Keys
  BY CallsWait
<1>2. Len(q) \in Nat /\ j \in Nat /\ n \in Nat
  OBVIOUS
<1>3. /\ n >= j => Count(q, n, k) = Count(p, n - 1, k) + IF q[j].key = k THEN 1 ELSE 0
      /\ n < j => Count(q, n, k) = Count(p, n, k)
  BY <1>2, CountWithout
<1>4. Count(q, n, k) \in Nat /\ Count(p, n, k) \in Nat /\ Count(p, n - 1, k) \in Nat
  BY <1>2, CountFacts
<1>5. l.cache[k].refs \in Nat /\ l.cache[k].refs >= Count(q, n, k) + 1
      /\ l.cache[k].hashes = hashes
  BY <1>1, EvictEntries DEF Listed
<1>6. CASE v = l
  BY <1>3, <1>4, <1>5, <1>6 DEF Listed
<1>7. CASE v = Evict(l, q[j].key) /\ k # q[j].key
  <2>1. v.cache[k] = l.cache[k]
    BY <1>1, <1>7, EvictEntries
  <2> QED
    BY <2>1, <1>3, <1>4, <1>5, <1>7 DEF Listed
<1>8. CASE v = Evict(l, q[j].key) /\ k = q[j].key
  <2>1. n >= j /\ Count(q, n, k) = Count(p, n - 1, k) + 1
    BY <1>3, <1>8
  <2>2. l.cache[k].refs >= 2
    BY <2>1, <1>4, <1>5
  <2>3. v.cache[k].refs = l.cache[k].refs - 1 /\ v.cache[k].hashes = hashes
    BY <2>2, <1>1, <1>5, <1>8, EvictEntries
  <2> QED
    <3> DEFINE x == Count(p, n - 1, k)
               y == l.cache[k].refs
    <3>1. x \in Nat /\ y \in Nat /\ y >= (x + 1) + 1 /\ v.cache[k].refs = y - 1
      BY ONLY <2>1, <2>3, <1>4, <1>5
    <3> HIDE DEF x, y
    <3>2. v.cache[k].refs >= x + 1
      BY ONLY <3>1
    <3>3. Listed(v, k, x, hashes)
      BY ONLY <3>2, <2>3 DEF Listed
    <3>4. ~ (n < j)
      BY ONLY <2>1, <1>2
    <3> QED
      BY ONLY <3>3, <3>4 DEF x
<1> QED
  BY <1>6, <1>7, <1>8

\* The places of a chain, and the keys of its states.
LEMMA PlaceFacts ==
  ASSUME NEW c \in Seq(Roots), NEW f \in 1 .. Len(c)
  PROVE  /\ Len(c) \in Nat /\ f \in Nat
         /\ SettledAt(f) \in 1 .. f /\ SettledAt(f) \in Nat
         /\ \A a \in 1 .. Len(c) :
              c[a] \in Roots /\ <<c[a], "Old">> \in Keys /\ <<c[a], "New">> \in Keys
BY DEF SettledAt, Keys, Identifiers

\* Making the first call, dropping it, or making the call that prunes what a
\* rolled back block added before its turn keeps the references paid for.
LEMMA PaidWithout ==
  ASSUME NEW c \in Seq(Roots), NEW f \in 1 .. Len(c), NEW l \in Lists,
         NEW q \in Seq(WaitingCalls), NEW p \in Seq(WaitingCalls),
         NEW j \in 1 .. Len(q), Without(p, q, j),
         NEW v, v = l \/ v = Evict(l, q[j].key),
         j = 1 \/ (q[j].prunes /\ q[j].key[2] = "New"),
         Paid(c, f, l, q)
  PROVE  Paid(c, f, v, p)
<1>0. /\ Balanced(c, l, q) /\ ObsoleteListed(c, f, l, q) /\ AddedListed(c, f, l, q)
      /\ ObsoletePruned(c, f, l, q) /\ RolledBackPruned(c, l, q)
  BY DEF Paid
<1>1. q[j] \in WaitingCalls /\ q[j].key \in Keys
  BY CallsWait
<1>2. Len(q) \in Nat /\ Len(q) >= 1 /\ j \in Nat /\ Len(p) = Len(q) - 1
      /\ Len(q) \in 1 .. Len(q) /\ Len(p) \in Nat
  BY DEF Without
<1>3. \A i \in 1 .. Len(q) - 1 : p[i] = IF i < j THEN q[i] ELSE q[i + 1]
  BY DEF Without
<1>4. ASSUME NEW k \in Keys, NEW hashes, Listed(l, k, Count(q, Len(q), k), hashes)
      PROVE  Listed(v, k, Count(p, Len(p), k), hashes)
  <2>1. Len(q) >= j
    BY <1>2
  <2>2. Listed(v, k, Count(p, Len(q) - 1, k), hashes)
    BY <2>1, <1>2, <1>4, ListedWithout
  <2> QED
    BY <2>2, <1>2
<1>5. Balanced(c, v, p)
  <2> SUFFICES ASSUME NEW k \in Keys, k # <<c[1], "New">>
               PROVE  v.cache[k].refs >= Count(p, Len(p), k)
    BY DEF Balanced
  <2>1. l.cache[k].refs >= Count(q, Len(q), k)
    BY <1>0 DEF Balanced
  <2>2. Count(q, Len(q), k) = Count(p, Len(p), k) + IF q[j].key = k THEN 1 ELSE 0
    BY <1>2, CountWithout
  <2>3. Count(q, Len(q), k) \in Nat /\ Count(p, Len(p), k) \in Nat
    BY <1>2, CountFacts
  <2>4. l.cache[k].refs \in Nat
    BY <1>1, EvictEntries
  <2>5. CASE v = l
    BY <2>1, <2>2, <2>3, <2>4, <2>5
  <2>6. CASE v = Evict(l, q[j].key) /\ k # q[j].key
    <3>1. v.cache[k] = l.cache[k]
      BY <1>1, <2>6, EvictEntries
    <3> QED
      BY <3>1, <2>1, <2>2, <2>3, <2>4
  <2>7. CASE v = Evict(l, q[j].key) /\ k = q[j].key /\ l.cache[k].refs >= 2
    <3>1. v.cache[k].refs = l.cache[k].refs - 1
      BY <1>1, <2>7, EvictEntries
    <3> QED
      BY <3>1, <2>1, <2>2, <2>3, <2>4, <2>7
  <2>8. CASE v = Evict(l, q[j].key) /\ k = q[j].key /\ l.cache[k].refs < 2
    <3>1. v.cache[k].refs = 0
      BY <1>1, <2>8, EvictEntries DEF NoEntry
    <3> QED
      BY <3>1, <2>1, <2>2, <2>3, <2>4, <2>8
  <2> QED
    BY <2>4, <2>5, <2>6, <2>7, <2>8
<1>6. ObsoleteListed(c, f, v, p)
  <2> SUFFICES ASSUME NEW a \in SettledAt(f) .. Len(c) - 1, c[a + 1] # c[a]
               PROVE  Listed(v, <<c[a], "Old">>, Count(p, Len(p), <<c[a], "Old">>),
                             Added(c[a + 1], c[a]))
    BY DEF ObsoleteListed
  <2>0. a \in 1 .. Len(c)
    BY PlaceFacts
  <2>1. <<c[a], "Old">> \in Keys
    BY <2>0, PlaceFacts
  <2> QED
    BY <2>1, <1>0, <1>4 DEF ObsoleteListed
<1>7. AddedListed(c, f, v, p)
  <2> SUFFICES ASSUME NEW b \in 2 .. Len(c), c[b - 1] # c[b],
                      \E a \in SettledAt(f) .. Len(c) : c[a] = c[b]
               PROVE  Listed(v, <<c[b], "New">>, Count(p, Len(p), <<c[b], "New">>),
                             Added(c[b - 1], c[b]))
    BY DEF AddedListed
  <2>0. b \in 1 .. Len(c)
    BY PlaceFacts
  <2>1. <<c[b], "New">> \in Keys
    BY <2>0, PlaceFacts
  <2> QED
    BY <2>1, <1>0, <1>4 DEF AddedListed
<1>8. ASSUME NEW k \in Keys
      PROVE  v.cache[k].hashes \subseteq l.cache[k].hashes
  <2>1. CASE v = l
    BY <2>1
  <2>2. CASE v = Evict(l, q[j].key)
    <3>1. l.cache[k].refs \in Nat /\ l.cache[q[j].key].refs \in Nat
      BY <1>1, EvictEntries
    <3> QED
      BY <3>1, <2>2, <1>1, EvictEntries DEF NoEntry
  <2> QED
    BY <2>1, <2>2
<1>9. ASSUME NEW i \in 1 .. Len(p)
      PROVE  \E x \in 1 .. Len(q) :
               /\ p[i] = q[x] /\ q[x].key \in Keys /\ x # j
               /\ (x < j /\ x = i) \/ (x > j /\ x = i + 1)
  <2>1. CASE i < j
    <3>1. i \in 1 .. Len(q) /\ p[i] = q[i] /\ q[i] \in WaitingCalls
      BY <2>1, <1>2, <1>3
    <3> QED
      BY <3>1, <2>1 DEF WaitingCalls
  <2>2. CASE ~ (i < j)
    <3>1. i + 1 \in 1 .. Len(q) /\ p[i] = q[i + 1] /\ q[i + 1] \in WaitingCalls /\ i + 1 > j
      BY <2>2, <1>2, <1>3
    <3> QED
      BY <3>1 DEF WaitingCalls
  <2> QED
    BY <2>1, <2>2
<1>10. ObsoletePruned(c, f, v, p)
  <2> SUFFICES ASSUME NEW i \in 1 .. Len(p), p[i].prunes, p[i].key[2] = "Old"
               PROVE  \E a \in 1 .. f - 1 : PrunesAfter(c, v, p, i, a)
    BY DEF ObsoletePruned
  <2>1. PICK x \in 1 .. Len(q) :
               /\ p[i] = q[x] /\ q[x].key \in Keys /\ x # j
               /\ (x < j /\ x = i) \/ (x > j /\ x = i + 1)
    BY <1>9
  <2>2. PICK a \in 1 .. f - 1 : PrunesAfter(c, l, q, x, a)
    BY <2>1, <1>0 DEF ObsoletePruned
  <2>3. a \in Nat /\ a + 1 <= Len(c) /\ a >= 1
    BY PlaceFacts
  <2>4. /\ c[a] = p[i].key[1] /\ c[a + 1] # c[a]
        /\ v.cache[p[i].key].hashes \subseteq Added(c[a + 1], c[a])
    BY <2>1, <2>2, <1>8 DEF PrunesAfter
  <2>5. ASSUME NEW b \in a + 1 .. Len(c), c[b - 1] # c[b]
        PROVE  Listed(v, <<c[b], "New">>, Count(p, i, <<c[b], "New">>), Added(c[b - 1], c[b]))
    <3> DEFINE k == <<c[b], "New">>
    <3>1. b \in 1 .. Len(c)
      BY <2>3
    <3>2. k \in Keys
      BY <3>1, PlaceFacts
    <3>3. Listed(l, k, Count(q, x, k), Added(c[b - 1], c[b]))
      BY <2>2, <2>5 DEF PrunesAfter
    <3>4. x >= j \/ k # q[j].key
      <4>1. CASE j = 1
        BY <4>1
      <4>2. CASE q[j].prunes /\ q[j].key[2] = "New"
        <5>1. c[b] # q[j].key[1]
          BY <4>2, <3>1, <1>0 DEF RolledBackPruned
        <5> QED
          BY <5>1
      <4> QED
        BY <4>1, <4>2
    <3> HIDE DEF k
    <3>5. /\ x >= j => Listed(v, k, Count(p, x - 1, k), Added(c[b - 1], c[b]))
          /\ x < j => Listed(v, k, Count(p, x, k), Added(c[b - 1], c[b]))
      <4> DEFINE hashes == Added(c[b - 1], c[b])
      <4>1. Listed(l, k, Count(q, x, k), hashes)
        BY <3>3
      <4> HIDE DEF hashes
      <4>2. /\ x >= j => Listed(v, k, Count(p, x - 1, k), hashes)
            /\ x < j => Listed(v, k, Count(p, x, k), hashes)
        BY ONLY <3>2, <3>4, <4>1, ListedWithout, Without(p, q, j),
                v = l \/ v = Evict(l, q[j].key)
      <4> QED
        BY <4>2 DEF hashes
    <3>6. (x < j /\ x = i) \/ (x >= j /\ x - 1 = i)
      BY ONLY <2>1, i \in 1 .. Len(p), x \in 1 .. Len(q), j \in 1 .. Len(q), <1>2
    <3>7. Listed(v, k, Count(p, i, k), Added(c[b - 1], c[b]))
      <4>1. CASE x < j /\ x = i
        BY ONLY <3>5, <4>1
      <4>2. CASE x >= j /\ x - 1 = i
        BY ONLY <3>5, <4>2
      <4> QED
        BY ONLY <3>6, <4>1, <4>2
    <3> QED
      BY <3>7 DEF k
  <2>6. PrunesAfter(c, v, p, i, a)
    BY <2>4, <2>5 DEF PrunesAfter
  <2> QED
    BY <2>6
<1>11. RolledBackPruned(c, v, p)
  <2> SUFFICES ASSUME NEW i \in 1 .. Len(p), p[i].prunes, p[i].key[2] = "New"
               PROVE  /\ \A a \in 1 .. Len(c) : c[a] # p[i].key[1]
                      /\ v.cache[p[i].key].hashes \subseteq Added(c[Len(c)], p[i].key[1])
    BY DEF RolledBackPruned
  <2>1. PICK x \in 1 .. Len(q) : p[i] = q[x] /\ q[x].key \in Keys
    BY <1>9
  <2>2. /\ \A a \in 1 .. Len(c) : c[a] # q[x].key[1]
        /\ l.cache[q[x].key].hashes \subseteq Added(c[Len(c)], q[x].key[1])
    BY <2>1, <1>0 DEF RolledBackPruned
  <2> QED
    BY <2>1, <2>2, <1>8
<1> QED
  BY <1>5, <1>6, <1>7, <1>10, <1>11 DEF Paid
\* A node is kept for any entry that still lists it, except that what became
\* obsolete is not kept for what became obsolete.
LEMMA KeptForEntry ==
  ASSUME NEW l \in Lists, Tidy(l), IsInverse(l), NEW key \in Keys, NEW k \in Keys, k # key,
         NEW h \in l.cache[k].hashes, ~ (k[2] = "Old" /\ key[2] = "Old")
  PROVE  ShouldKeepHash(Evict(l, key), h, key[2])
<1>1. h \in Nodes
  BY DEF Lists
<1>2. IsInverse(Evict(l, key))
  BY EvictFacts
<1>3. Evict(l, key).cache[k] = l.cache[k]
  BY EvictEntries
<1>4. k \in Evict(l, key).reversedCache[h]
  BY <1>1, <1>2, <1>3 DEF IsInverse
<1> QED
  BY <1>4 DEF ShouldKeepHash

\* A node of a state from the final one on is kept when a call prunes: one that
\* became obsolete before is in the state because a later one added it again,
\* and that is still listed; one that a rolled back block added was there when a
\* block of the chain made it obsolete, and that is still listed.
LEMMA TargetsAreKept ==
  ASSUME NEW c \in Seq(Roots), NEW f \in 1 .. Len(c),
         NEW l \in Lists, Tidy(l), IsInverse(l),
         NEW q \in Seq(WaitingCalls), Len(q) >= 1, q[1].prunes, Paid(c, f, l, q),
         NEW y \in f .. Len(c), NEW h \in NodesOf[c[y]], h \in EvictedHashes(l, q[1].key)
  PROVE  ShouldKeepHash(Evict(l, q[1].key), h, q[1].key[2])
<1> DEFINE key == q[1].key
<1>1. 1 \in 1 .. Len(q) /\ q[1] \in WaitingCalls /\ key \in Keys
  BY CallsWait
<1>2. h \in l.cache[key].hashes
  BY DEF EvictedHashes
<1>3. key[2] \in {"Old", "New"}
  BY <1>1 DEF Keys, Identifiers
<1>4. /\ ObsoleteListed(c, f, l, q) /\ ObsoletePruned(c, f, l, q)
      /\ RolledBackPruned(c, l, q)
  BY DEF Paid
<1>5. Len(c) \in Nat /\ f \in Nat /\ y \in Nat /\ SettledAt(f) \in 1 .. f
  BY PlaceFacts
<1>6. CASE key[2] = "Old"
  <2>1. PICK a \in 1 .. f - 1 : PrunesAfter(c, l, q, 1, a)
    BY <1>1, <1>4, <1>6 DEF ObsoletePruned
  <2>2. h \notin NodesOf[c[a + 1]] /\ a \in Nat /\ a + 1 <= y
    BY <2>1, <1>2, <1>5 DEF PrunesAfter, Added
  <2> DEFINE B == {b \in a + 1 .. y : h \in NodesOf[c[b]]}
             b == Min(B)
  <2>3. B \subseteq Nat /\ y \in B
    BY <2>2, <1>5
  <2>4. b \in B /\ \A x \in B : b <= x
    BY <2>3, MinIsLeast
  <2>5. b \in a + 1 .. y /\ h \in NodesOf[c[b]] /\ b # a + 1
    BY <2>2, <2>4
  <2>6. b - 1 \in a + 1 .. y /\ b - 1 \notin B
    BY <2>2, <2>4, <2>5
  <2> HIDE DEF b
  <2>7. h \notin NodesOf[c[b - 1]]
    BY <2>6
  <2>8. b \in 1 .. Len(c) /\ b \in a + 1 .. Len(c) /\ c[b - 1] # c[b]
    BY <2>2, <2>5, <2>7, <1>5
  <2> HIDE DEF B
  <2>9. l.cache[<<c[b], "New">>].hashes = Added(c[b - 1], c[b])
    BY <2>1, <2>8 DEF PrunesAfter, Listed
  <2>10. h \in l.cache[<<c[b], "New">>].hashes
    BY <2>5, <2>7, <2>9 DEF Added
  <2>11. <<c[b], "New">> \in Keys /\ <<c[b], "New">> # key
    <3>1. <<c[b], "New">> \in Keys
      BY <2>8, PlaceFacts
    <3>2. <<c[b], "New">>[2] = "New"
      OBVIOUS
    <3> QED
      BY <3>1, <3>2, <1>6
  <2> HIDE DEF key
  <2>12. ShouldKeepHash(Evict(l, key), h, key[2])
    BY <2>10, <2>11, <1>1, KeptForEntry
  <2> QED
    BY <2>12 DEF key
<1>7. CASE key[2] = "New"
  <2>1. h \notin NodesOf[c[Len(c)]]
    BY <1>1, <1>2, <1>4, <1>7 DEF RolledBackPruned, Added
  <2> DEFINE B == {b \in y .. Len(c) : h \in NodesOf[c[b]]}
             b == Max(B)
  <2>2. B \subseteq 0 .. Len(c) /\ y \in B
    BY <1>5
  <2>3. b \in B /\ \A x \in B : x <= b
    BY <2>2, <1>5, MaxIsGreatest
  <2>4. b \in y .. Len(c) /\ h \in NodesOf[c[b]] /\ b # Len(c)
    BY <2>1, <2>3
  <2>5. b + 1 \in y .. Len(c) /\ b + 1 \notin B
    BY <2>3, <2>4, <1>5
  <2> HIDE DEF b
  <2>6. h \notin NodesOf[c[b + 1]]
    BY <2>5
  <2>7. b \in 1 .. Len(c) /\ b \in SettledAt(f) .. Len(c) - 1 /\ c[b + 1] # c[b]
    BY <2>4, <2>5, <2>6, <1>5
  <2> HIDE DEF B
  <2>8. l.cache[<<c[b], "Old">>].hashes = Added(c[b + 1], c[b])
    BY <2>7, <1>4 DEF ObsoleteListed, Listed
  <2>9. h \in l.cache[<<c[b], "Old">>].hashes
    BY <2>4, <2>6, <2>8 DEF Added
  <2>10. <<c[b], "Old">> \in Keys /\ <<c[b], "Old">> # key
    <3>1. <<c[b], "Old">> \in Keys
      BY <2>7, PlaceFacts
    <3>2. <<c[b], "Old">>[2] = "Old"
      OBVIOUS
    <3> QED
      BY <3>1, <3>2, <1>7
  <2> HIDE DEF key
  <2>11. ShouldKeepHash(Evict(l, key), h, key[2])
    BY <2>9, <2>10, <1>1, <1>7, KeptForEntry
  <2> QED
    BY <2>11 DEF key
<1> QED
  BY <1>3, <1>6, <1>7
-----------------------------------------------------------------------------
(* A block is rolled back *)

\* None of the calls prunes what a rolled back block added.
OnlyObsolete(q) == \A i \in 1 .. Len(q) : q[i].prunes => q[i].key[2] = "Old"

\* A state the chain has left is none of those that follow.
LEMMA LeftForGood ==
  ASSUME NEW c \in Seq(Roots), Contiguous(c), NEW a \in 1 .. Len(c) - 1, c[a + 1] # c[a],
         NEW b \in a + 1 .. Len(c)
  PROVE  c[b] # c[a]
<1>1. a \in 1 .. Len(c) /\ a + 1 \in 1 .. Len(c) /\ b \in 1 .. Len(c)
  OBVIOUS
<1>2. a <= a + 1 /\ a + 1 <= b
  OBVIOUS
<1> QED
  BY <1>1, <1>2 DEF Contiguous

\* The states before it are others than the one the chain has entered.
LEMMA EnteredOnce ==
  ASSUME NEW c \in Seq(Roots), Contiguous(c), NEW b \in 2 .. Len(c), c[b - 1] # c[b],
         NEW a \in 1 .. b - 1
  PROVE  c[a] # c[b]
<1>1. a \in 1 .. Len(c) /\ b - 1 \in 1 .. Len(c) /\ b \in 1 .. Len(c)
  OBVIOUS
<1>2. a <= b - 1 /\ b - 1 <= b
  OBVIOUS
<1> QED
  BY <1>1, <1>2 DEF Contiguous

\* The block that goes takes with it what it stood for in the list, by the two
\* calls of PruneStateOnRollback.
LEMMA PaidRolledBack ==
  ASSUME NEW c \in Seq(Roots), Contiguous(c), NEW f \in 1 .. Len(c) - 1, NEW l \in Lists,
         NEW q \in Seq(WaitingCalls), OnlyObsolete(q), Paid(c, f, l, q),
         NEW d \in Seq(Roots), Len(d) = Len(c) - 1, \A i \in 1 .. Len(d) : d[i] = c[i],
         NEW p \in Seq(WaitingCalls), \A i \in 1 .. Len(q) : p[i] = q[i],
         \/ c[Len(c)] = c[Len(c) - 1] /\ Len(p) = Len(q)
         \/ /\ c[Len(c)] # c[Len(c) - 1] /\ Len(p) = Len(q) + 2
            /\ p[Len(q) + 1] = [key |-> <<c[Len(c) - 1], "Old">>, prunes |-> FALSE]
            /\ p[Len(q) + 2] = [key |-> <<c[Len(c)], "New">>, prunes |-> TRUE]
  PROVE  Paid(d, f, l, p)
<1> DEFINE L == Len(c)
           old == <<c[L - 1], "Old">>
           new == <<c[L], "New">>
<1>0. /\ Balanced(c, l, q) /\ ObsoleteListed(c, f, l, q) /\ AddedListed(c, f, l, q)
      /\ ObsoletePruned(c, f, l, q)
  BY DEF Paid
<1>1. L \in Nat /\ L >= 2 /\ f \in Nat /\ L - 1 \in 1 .. L /\ f \in 1 .. L
  OBVIOUS
<1>2. SettledAt(f) \in 1 .. f /\ SettledAt(f) \in Nat
  BY <1>1, PlaceFacts
<1>3. Len(q) \in Nat /\ Len(p) \in Nat /\ Len(q) <= Len(p)
  OBVIOUS
<1>4. /\ p[Len(q) + 1].key = old /\ p[Len(q) + 2].key = new /\ Len(p) = Len(q) + 2
      /\ ~ p[Len(q) + 1].prunes /\ p[Len(q) + 2].prunes
      \/ Len(p) = Len(q)
  OBVIOUS
<1>5. old # new
  OBVIOUS
<1> HIDE DEF old, new
<1>6. ASSUME NEW k
      PROVE  /\ Count(p, Len(p), k) \in Nat /\ Count(q, Len(q), k) \in Nat
             /\ (Len(p) = Len(q) \/ (k # old /\ k # new)) =>
                   Count(p, Len(p), k) = Count(q, Len(q), k)
             /\ Count(p, Len(p), k) <= Count(q, Len(q), k) + 1
  <2>0. ASSUME NEW i \in Len(q) + 1 .. Len(p)
        PROVE  /\ Len(p) # Len(q)
               /\ \/ i = Len(q) + 1 /\ p[i].key = old
                  \/ i = Len(q) + 2 /\ p[i].key = new
    <3>1. Len(p) # Len(q)
      BY ONLY <1>3, i \in Len(q) + 1 .. Len(p)
    <3>2. Len(p) = Len(q) + 2 /\ p[Len(q) + 1].key = old /\ p[Len(q) + 2].key = new
      BY ONLY <3>1, <1>4, Zenon
    <3>3. i = Len(q) + 1 \/ i = Len(q) + 2
      BY ONLY <3>2, <1>3, i \in Len(q) + 1 .. Len(p)
    <3> QED
      BY ONLY <3>1, <3>2, <3>3
  <2>1. ASSUME Len(p) = Len(q) \/ (k # old /\ k # new)
        PROVE  \A i \in Len(q) + 1 .. Len(p) : p[i].key # k
    BY ONLY <2>0, <2>1
  <2>2. \A i, j \in Len(q) + 1 .. Len(p) : p[i].key = k /\ p[j].key = k => i = j
    BY ONLY <2>0, <1>5
  <2>3. Count(p, Len(p), k) \in Nat /\ Count(q, Len(q), k) \in Nat
    BY <1>3, CountFacts
  <2>4. /\ (\A i \in Len(q) + 1 .. Len(p) : p[i].key # k) =>
              Count(p, Len(p), k) = Count(q, Len(q), k)
        /\ (\A i, j \in Len(q) + 1 .. Len(p) : p[i].key = k /\ p[j].key = k => i = j)
           => Count(p, Len(p), k) <= Count(q, Len(q), k) + 1
    BY <1>3, CountLonger
  <2>5. Count(p, Len(p), k) <= Count(q, Len(q), k) + 1
    BY <2>2, <2>4, Zenon
  <2>6. Len(p) = Len(q) \/ (k # old /\ k # new) =>
          Count(p, Len(p), k) = Count(q, Len(q), k)
    BY <2>1, <2>4, Zenon
  <2> QED
    BY <2>3, <2>5, <2>6, Zenon
<1>7. ASSUME Len(p) # Len(q)
      PROVE  /\ c[L] # c[L - 1]
             /\ l.cache[old].refs >= Count(q, Len(q), old) + 1
             /\ l.cache[new].refs >= Count(q, Len(q), new) + 1
             /\ l.cache[new].hashes = Added(c[L - 1], c[L])
  <2>1. c[L] # c[L - 1]
    BY <1>7
  <2>2. L - 1 \in SettledAt(f) .. Len(c) - 1 /\ (L - 1) + 1 = L
    BY <1>1, <1>2
  <2>3. L \in 2 .. Len(c) /\ L \in SettledAt(f) .. Len(c)
    BY <1>1, <1>2
  <2>4. Listed(l, old, Count(q, Len(q), old), Added(c[L], c[L - 1]))
    BY <2>1, <2>2, <1>0 DEF ObsoleteListed, old
  <2>5. Listed(l, new, Count(q, Len(q), new), Added(c[L - 1], c[L]))
    BY <2>1, <2>3, <1>0 DEF AddedListed, new
  <2> QED
    BY <2>1, <2>4, <2>5 DEF Listed
<1>8. Balanced(d, l, p)
  <2> SUFFICES ASSUME NEW k \in Keys, k # <<d[1], "New">>
               PROVE  l.cache[k].refs >= Count(p, Len(p), k)
    BY DEF Balanced
  <2>1. k # <<c[1], "New">>
    BY <1>1
  <2>2. l.cache[k].refs >= Count(q, Len(q), k) /\ l.cache[k].refs \in Nat
    BY <2>1, <1>0, EvictEntries DEF Balanced
  <2>3. CASE Len(p) = Len(q) \/ (k # old /\ k # new)
    <3>1. Count(p, Len(p), k) = Count(q, Len(q), k)
      BY <2>3, <1>6
    <3> QED
      BY <3>1, <2>2
  <2>4. CASE Len(p) # Len(q) /\ (k = old \/ k = new)
    <3>1. l.cache[k].refs >= Count(q, Len(q), k) + 1
      BY <2>4, <1>7
    <3>2. /\ Count(p, Len(p), k) <= Count(q, Len(q), k) + 1
          /\ Count(p, Len(p), k) \in Nat /\ Count(q, Len(q), k) \in Nat
      BY <1>6
    <3> QED
      BY <3>1, <3>2, <2>2
  <2> QED
    BY <2>3, <2>4
<1>9. ObsoleteListed(d, f, l, p)
  <2> SUFFICES ASSUME NEW a \in SettledAt(f) .. Len(d) - 1, d[a + 1] # d[a]
               PROVE  Listed(l, <<d[a], "Old">>, Count(p, Len(p), <<d[a], "Old">>),
                             Added(d[a + 1], d[a]))
    BY DEF ObsoleteListed
  <2>1. /\ a \in 1 .. L - 1 /\ a \in SettledAt(f) .. L - 1 /\ L - 1 \in a + 1 .. L
        /\ d[a] = c[a] /\ d[a + 1] = c[a + 1]
    BY <1>1, <1>2
  <2>2. c[L - 1] # c[a]
    BY <2>1, LeftForGood
  <2>3. <<c[a], "Old">> # old /\ <<c[a], "Old">> # new
    BY <2>2 DEF old, new
  <2>4. Listed(l, <<c[a], "Old">>, Count(q, Len(q), <<c[a], "Old">>), Added(c[a + 1], c[a]))
    BY <2>1, <1>0 DEF ObsoleteListed
  <2>5. Count(p, Len(p), <<c[a], "Old">>) = Count(q, Len(q), <<c[a], "Old">>)
    BY <2>3, <1>6
  <2> QED
    BY <2>1, <2>4, <2>5
<1>10. AddedListed(d, f, l, p)
  <2> SUFFICES ASSUME NEW b \in 2 .. Len(d), d[b - 1] # d[b],
                      NEW a \in SettledAt(f) .. Len(d), d[a] = d[b]
               PROVE  Listed(l, <<d[b], "New">>, Count(p, Len(p), <<d[b], "New">>),
                             Added(d[b - 1], d[b]))
    BY DEF AddedListed
  <2>0. /\ b \in 2 .. L /\ a \in SettledAt(f) .. L /\ b \in 1 .. L - 1
        /\ b \in 1 .. Len(d) /\ b - 1 \in 1 .. Len(d) /\ a \in 1 .. Len(d)
    BY ONLY <1>1, <1>2, Len(d) = Len(c) - 1, b \in 2 .. Len(d), a \in SettledAt(f) .. Len(d)
  <2>1. /\ b \in 2 .. L /\ a \in SettledAt(f) .. L /\ b \in 1 .. L - 1
        /\ d[b] = c[b] /\ d[b - 1] = c[b - 1] /\ d[a] = c[a]
    BY <2>0
  <2>2. Listed(l, <<c[b], "New">>, Count(q, Len(q), <<c[b], "New">>), Added(c[b - 1], c[b]))
    BY <2>1, <1>0 DEF AddedListed
  <2>3. Count(p, Len(p), <<c[b], "New">>) = Count(q, Len(q), <<c[b], "New">>)
    <3>1. CASE Len(p) = Len(q)
      BY <3>1, <1>6
    <3>2. CASE Len(p) # Len(q)
      <4>0. L \in 2 .. Len(c) /\ c[L - 1] # c[L]
        BY <3>2, <1>1, <1>7
      <4>1. c[b] # c[L]
        BY <4>0, <2>0, EnteredOnce
      <4>2. <<c[b], "New">> # old /\ <<c[b], "New">> # new
        BY <4>1 DEF old, new
      <4> QED
        BY <4>2, <1>6
    <3> QED
      BY <3>1, <3>2
  <2> QED
    BY <2>1, <2>2, <2>3
<1>11. ObsoletePruned(d, f, l, p)
  <2> SUFFICES ASSUME NEW i \in 1 .. Len(p), p[i].prunes, p[i].key[2] = "Old"
               PROVE  \E a \in 1 .. f - 1 : PrunesAfter(d, l, p, i, a)
    BY DEF ObsoletePruned
  <2>1. i \in 1 .. Len(q)
    <3>1. new[2] = "New"
      BY DEF new
    <3> QED
      BY <3>1, <1>3, <1>4
  <2>2. p[i] = q[i]
    BY <2>1
  <2>3. PICK a \in 1 .. f - 1 : PrunesAfter(c, l, q, i, a)
    BY <2>1, <2>2, <1>0 DEF ObsoletePruned
  <2>4. /\ a \in 1 .. Len(d) /\ a + 1 \in 1 .. Len(d)
        /\ d[a] = c[a] /\ d[a + 1] = c[a + 1]
    <3>1. a \in 1 .. Len(d) /\ a + 1 \in 1 .. Len(d)
      BY <1>1
    <3> QED
      BY <3>1
  <2>5. ASSUME NEW b \in a + 1 .. Len(d), d[b - 1] # d[b]
        PROVE  Listed(l, <<d[b], "New">>, Count(p, i, <<d[b], "New">>), Added(d[b - 1], d[b]))
    <3>0. b \in a + 1 .. Len(c) /\ b \in 1 .. Len(d) /\ b - 1 \in 1 .. Len(d)
      BY <1>1
    <3>1. b \in a + 1 .. Len(c) /\ d[b] = c[b] /\ d[b - 1] = c[b - 1]
      BY <3>0
    <3>2. Count(p, i, <<c[b], "New">>) = Count(q, i, <<c[b], "New">>)
      <4>1. \A x \in 1 .. i : p[x] = q[x]
        BY <2>1, <1>3
      <4> QED
        <5> DEFINE k == <<c[b], "New">>
        <5> HIDE DEF k
        <5>1. Count(p, i, k) = Count(q, i, k)
          BY ONLY <4>1, CountSame
        <5> QED
          BY ONLY <5>1 DEF k
    <3>3. Listed(l, <<c[b], "New">>, Count(q, i, <<c[b], "New">>), Added(c[b - 1], c[b]))
      BY <3>1, <2>3, <2>5 DEF PrunesAfter
    <3> QED
      BY <3>1, <3>2, <3>3
  <2>6. PrunesAfter(d, l, p, i, a)
    BY <2>2, <2>3, <2>4, <2>5 DEF PrunesAfter
  <2> QED
    BY <2>6
<1>12. RolledBackPruned(d, l, p)
  <2> SUFFICES ASSUME NEW i \in 1 .. Len(p), p[i].prunes, p[i].key[2] = "New"
               PROVE  /\ \A a \in 1 .. Len(d) : d[a] # p[i].key[1]
                      /\ l.cache[p[i].key].hashes \subseteq Added(d[Len(d)], p[i].key[1])
    BY DEF RolledBackPruned
  <2>1. i \notin 1 .. Len(q)
    BY DEF OnlyObsolete
  <2>2. i = Len(q) + 2 /\ p[i].key = new /\ Len(p) # Len(q)
    BY <2>1, <1>3, <1>4
  <2>3. new[1] = c[L]
    BY DEF new
  <2>4. Len(d) \in 1 .. Len(d) /\ d[Len(d)] = c[L - 1]
    BY <1>1
  <2>5. ASSUME NEW a \in 1 .. Len(d)
        PROVE  d[a] # c[L]
    <3>1. a \in 1 .. L - 1 /\ L \in 2 .. Len(c) /\ d[a] = c[a]
      BY <1>1
    <3>2. c[L - 1] # c[L]
      BY <2>2, <1>7
    <3>3. c[a] # c[L]
      BY <3>1, <3>2, EnteredOnce
    <3> QED
      BY <3>1, <3>3
  <2> QED
    BY <2>2, <2>3, <2>4, <2>5, <1>7
<1> QED
  BY <1>8, <1>9, <1>10, <1>11, <1>12 DEF Paid
-----------------------------------------------------------------------------
(* A block is committed *)

\* The calls p adds to q are, in the order of the chain, the two calls for the
\* places where the chain c leaves a state, from SettledAt(f) up to SettledAt(m);
\* w gives their places.
Finalises(c, f, m, q, p, w) ==
  \A i \in Len(q) + 1 .. Len(p) :
    /\ w[i] \in SettledAt(f) .. SettledAt(m) - 1
    /\ c[w[i] + 1] # c[w[i]]
    /\ p[i] \in {[key |-> <<c[w[i]], "New">>, prunes |-> FALSE],
                 [key |-> <<c[w[i]], "Old">>, prunes |-> TRUE]}
    /\ \A j \in Len(q) + 1 .. i : w[j] <= w[i] /\ (p[j].key = p[i].key => j = i)

\* The entries a commit of state r on state s leaves, if the list is not emptied.
ListsStep(l, v, s, r) ==
  \A k \in Keys :
    IF k = <<r, "New">> /\ r # s
    THEN v.cache[k].refs = l.cache[k].refs + 1 /\ v.cache[k].hashes = Added(s, r)
    ELSE IF k = <<s, "Old">> /\ r # s
    THEN v.cache[k].refs = l.cache[k].refs + 1 /\ v.cache[k].hashes = Added(r, s)
    ELSE v.cache[k] = l.cache[k]

\* What a state added that the chain has not left for good is listed, or the
\* chain begins with that state.
LEMMA AddedBefore ==
  ASSUME NEW c \in Seq(Roots), NEW f \in 1 .. Len(c), NEW l \in Lists, NEW q,
         AddedListed(c, f, l, q), NEW a \in SettledAt(f) .. Len(c), c[a] # c[1]
  PROVE  l.cache[<<c[a], "New">>].refs >= Count(q, Len(q), <<c[a], "New">>) + 1
<1> DEFINE B == {b \in 1 .. a : c[b] = c[a]}
           b == Min(B)
<1>1. Len(c) \in Nat /\ a \in 1 .. Len(c)
  BY PlaceFacts
<1>2. B \subseteq Nat /\ a \in B
  BY <1>1
<1>3. b \in B /\ \A x \in B : b <= x
  BY <1>2, MinIsLeast
<1>4. b \in 1 .. a /\ c[b] = c[a] /\ b # 1
  BY <1>3
<1>5. b - 1 \in 1 .. a /\ b - 1 \notin B
  BY <1>1, <1>3, <1>4
<1> HIDE DEF b
<1>6. c[b - 1] # c[a]
  BY <1>5
<1>7. b \in 2 .. Len(c) /\ c[b - 1] # c[b]
  BY <1>1, <1>4, <1>6
<1>8. Listed(l, <<c[b], "New">>, Count(q, Len(q), <<c[b], "New">>), Added(c[b - 1], c[b]))
  BY <1>4, <1>7 DEF AddedListed
<1> QED
  BY <1>4, <1>8 DEF Listed

\* Later final blocks have settled more.
LEMMA SettledGrows ==
  ASSUME NEW f \in Nat, NEW m \in Nat, 1 <= f, f <= m
  PROVE  /\ SettledAt(f) \in Nat /\ SettledAt(m) \in Nat /\ 1 <= SettledAt(f)
         /\ SettledAt(f) <= SettledAt(m) /\ SettledAt(m) <= m
BY DEF SettledAt

\* A reference more than there was is one more than the calls take.
LEMMA ListedOnceMore ==
  ASSUME NEW l, NEW v, NEW k, NEW n, n \in Nat, NEW hashes,
         l.cache[k].refs \in Nat, l.cache[k].refs >= n,
         v.cache[k].refs = l.cache[k].refs + 1, v.cache[k].hashes = hashes
  PROVE  Listed(v, k, n, hashes)
<1> DEFINE x == l.cache[k].refs
           y == v.cache[k].refs
<1>1. x \in Nat /\ x >= n /\ y = x + 1
  OBVIOUS
<1> HIDE DEF x, y
<1>2. y >= n + 1
  BY ONLY <1>1, n \in Nat
<1> QED
  BY ONLY <1>2, v.cache[k].hashes = hashes DEF Listed, y

LEMMA EnoughLeft ==
  \A a, b, x, y \in Nat : y <= x + 1 /\ b >= a /\ a >= x + 1 => b >= y
OBVIOUS

LEMMA PaidCommitted ==
  ASSUME NEW c \in Seq(Roots), Contiguous(c), NEW f \in 1 .. Len(c), NEW l \in Lists,
         NEW q \in Seq(WaitingCalls), OnlyObsolete(q), Paid(c, f, l, q),
         NEW r \in Roots, r = c[Len(c)] \/ \A i \in 1 .. Len(c) : c[i] # r,
         NEW d \in Seq(Roots), Len(d) = Len(c) + 1, d[Len(c) + 1] = r,
         \A i \in 1 .. Len(c) : d[i] = c[i],
         NEW v \in Lists, ListsStep(l, v, c[Len(c)], r),
         NEW g \in f .. Len(c), NEW m \in f .. g,
         NEW p \in Seq(WaitingCalls), Len(p) >= Len(q), \A i \in 1 .. Len(q) : p[i] = q[i],
         NEW w, Finalises(c, f, m, q, p, w)
  PROVE  Paid(d, g, v, p)
<1> DEFINE L == Len(c)
           s == c[L]
           old == <<s, "Old">>
           new == <<r, "New">>
           more == Len(q) + 1 .. Len(p)
<1>0. /\ Balanced(c, l, q) /\ ObsoleteListed(c, f, l, q) /\ AddedListed(c, f, l, q)
      /\ ObsoletePruned(c, f, l, q)
  BY DEF Paid
<1>1. L \in Nat /\ L >= 1 /\ f \in Nat /\ g \in Nat /\ m \in Nat /\ g \in 1 .. L
      /\ 1 <= f /\ f <= m /\ m <= g /\ g <= L /\ 1 \in 1 .. L /\ L \in 1 .. L
  OBVIOUS
<1>2. /\ SettledAt(f) \in Nat /\ SettledAt(m) \in Nat /\ SettledAt(g) \in Nat
      /\ 1 <= SettledAt(f) /\ SettledAt(f) <= SettledAt(g) /\ SettledAt(m) <= SettledAt(g)
      /\ SettledAt(g) <= g /\ SettledAt(m) <= m /\ SettledAt(f) <= f
  BY <1>1, SettledGrows
<1>3. Len(q) \in Nat /\ Len(p) \in Nat /\ Len(q) <= Len(p)
  OBVIOUS
<1>4. ASSUME NEW i \in more
      PROVE  /\ w[i] \in SettledAt(f) .. SettledAt(m) - 1 /\ w[i] \in 1 .. L - 1
             /\ c[w[i] + 1] # c[w[i]] /\ w[i] < SettledAt(g)
             /\ \/ p[i].key = <<c[w[i]], "New">> /\ ~ p[i].prunes
                \/ p[i].key = <<c[w[i]], "Old">> /\ p[i].prunes
             /\ \A j \in Len(q) + 1 .. i : w[j] <= w[i] /\ (p[j].key = p[i].key => j = i)
  <2>1. /\ w[i] \in SettledAt(f) .. SettledAt(m) - 1 /\ c[w[i] + 1] # c[w[i]]
        /\ p[i] \in {[key |-> <<c[w[i]], "New">>, prunes |-> FALSE],
                     [key |-> <<c[w[i]], "Old">>, prunes |-> TRUE]}
        /\ \A j \in Len(q) + 1 .. i : w[j] <= w[i] /\ (p[j].key = p[i].key => j = i)
    BY DEF Finalises
  <2>2. w[i] \in SettledAt(f) .. SettledAt(m) - 1
    BY <2>1
  <2>3. w[i] \in 1 .. L - 1 /\ w[i] < SettledAt(g)
    BY ONLY <2>2, <1>1, <1>2
  <2>4. \/ p[i].key = <<c[w[i]], "New">> /\ ~ p[i].prunes
        \/ p[i].key = <<c[w[i]], "Old">> /\ p[i].prunes
    <3> DEFINE x == c[w[i]]
    <3>1. \/ p[i] = [key |-> <<x, "New">>, prunes |-> FALSE]
          \/ p[i] = [key |-> <<x, "Old">>, prunes |-> TRUE]
      BY <2>1
    <3> HIDE DEF x
    <3>2. \/ p[i].key = <<x, "New">> /\ ~ p[i].prunes
          \/ p[i].key = <<x, "Old">> /\ p[i].prunes
      BY ONLY <3>1
    <3> QED
      BY ONLY <3>2 DEF x
  <2> QED
    BY ONLY <2>1, <2>3, <2>4
<1>5. ASSUME NEW i \in more, NEW b \in 1 .. L, c[b] = c[w[i]]
      PROVE  b <= w[i]
  <2>1. w[i] \in 1 .. L - 1 /\ c[w[i] + 1] # c[w[i]]
    BY <1>4
  <2>2. ~ (b \in w[i] + 1 .. L)
    BY <2>1, <1>5, LeftForGood
  <2> QED
    BY <2>1, <2>2, <1>1
<1>6. <<c[1], "New">> = <<d[1], "New">>
  BY <1>1
<1>7. ASSUME NEW k \in Keys
      PROVE  /\ l.cache[k].refs \in Nat /\ v.cache[k].refs \in Nat
             /\ Count(q, Len(q), k) \in Nat /\ Count(p, Len(p), k) \in Nat
             /\ Count(p, Len(p), k) <= Count(q, Len(q), k) + 1
             /\ v.cache[k].refs >= l.cache[k].refs
             /\ k # old /\ k # new => v.cache[k] = l.cache[k]
             /\ r = s => v.cache[k] = l.cache[k]
  <2>1. l.cache[k].refs \in Nat /\ v.cache[k].refs \in Nat
    BY EvictEntries
  <2>2. Count(q, Len(q), k) \in Nat /\ Count(p, Len(p), k) \in Nat
    BY <1>3, CountFacts
  <2>3. \A i, j \in more : p[i].key = k /\ p[j].key = k => i = j
    <3> SUFFICES ASSUME NEW i \in more, NEW j \in more, p[i].key = k, p[j].key = k
                 PROVE  i = j
      OBVIOUS
    <3>1. i \in Int /\ j \in Int /\ (j \in Len(q) + 1 .. i \/ i \in Len(q) + 1 .. j)
      BY <1>3
    <3> QED
      BY <3>1, <1>4
  <2>4. Count(p, Len(p), k) <= Count(q, Len(q), k) + 1
    BY <2>3, <1>3, CountLonger
  <2>5. v.cache[k].refs >= l.cache[k].refs
        /\ (k # old /\ k # new => v.cache[k] = l.cache[k])
        /\ (r = s => v.cache[k] = l.cache[k])
    BY <2>1 DEF ListsStep
  <2> QED
    BY <2>1, <2>2, <2>4, <2>5
<1>8. ASSUME NEW k, NEW x \in Len(q) .. Len(p), \A i \in Len(q) + 1 .. x : p[i].key # k
      PROVE  Count(p, x, k) = Count(q, Len(q), k)
  <2>1. x \in Nat /\ Len(q) \in Nat /\ Len(q) <= x
    BY <1>3
  <2>2. /\ (\A i \in Len(q) + 1 .. x : p[i].key # k)
           => Count(p, x, k) = Count(q, Len(q), k)
        /\ (\A i, j \in Len(q) + 1 .. x : p[i].key = k /\ p[j].key = k => i = j)
           => Count(p, x, k) <= Count(q, Len(q), k) + 1
    <3>1. \A i \in 1 .. Len(q) : p[i] = q[i]
      OBVIOUS
    <3> QED
      BY ONLY <3>1, <2>1, CountLonger, Zenon
  <2> QED
    BY <2>2, <1>8
<1>9. ASSUME r # s
      PROVE  /\ old \in Keys /\ new \in Keys /\ r # c[1]
             /\ v.cache[old].refs = l.cache[old].refs + 1
             /\ v.cache[old].hashes = Added(r, s)
             /\ v.cache[new].refs = l.cache[new].refs + 1
             /\ v.cache[new].hashes = Added(s, r)
             /\ \A i \in more : p[i].key # old /\ p[i].key # new
             /\ \A i \in 1 .. L : c[i] # r
  <2>1. old \in Keys /\ new \in Keys /\ old # new
    BY <1>1, PlaceFacts DEF Keys, Identifiers
  <2>2. \A i \in 1 .. L : c[i] # r
    BY <1>9
  <2>3. /\ v.cache[old].refs = l.cache[old].refs + 1
        /\ v.cache[old].hashes = Added(r, s)
        /\ v.cache[new].refs = l.cache[new].refs + 1
        /\ v.cache[new].hashes = Added(s, r)
    BY <2>1, <1>9 DEF ListsStep
  <2>4. ASSUME NEW i \in more
        PROVE  p[i].key # old /\ p[i].key # new
    <3>1. c[w[i]] # s /\ c[w[i]] # r
      <4>1. w[i] \in 1 .. L - 1
        BY <1>4
      <4>2. c[w[i]] # s
        BY <4>1, <1>1, <1>5
      <4> QED
        BY <4>1, <4>2, <2>2
    <3> QED
      <4>1. p[i].key = <<c[w[i]], "New">> \/ p[i].key = <<c[w[i]], "Old">>
        BY ONLY <1>4, i \in more, Zenon
      <4> QED
        BY ONLY <4>1, <3>1
  <2> QED
    BY <2>1, <2>2, <2>3, <2>4, <1>1
<1> HIDE DEF old, new
<1>10. Balanced(d, v, p)
  <2> SUFFICES ASSUME NEW k \in Keys, k # <<c[1], "New">>
               PROVE  v.cache[k].refs >= Count(p, Len(p), k)
    BY <1>6 DEF Balanced
  <2>1. CASE \A i \in more : p[i].key # k
    <3>1. Count(p, Len(p), k) = Count(q, Len(q), k)
      BY <2>1, <1>3, <1>8
    <3>2. l.cache[k].refs >= Count(q, Len(q), k)
      BY <1>0 DEF Balanced
    <3> QED
      <4>1. /\ l.cache[k].refs \in Nat /\ v.cache[k].refs \in Nat
            /\ Count(q, Len(q), k) \in Nat /\ Count(p, Len(p), k) \in Nat
            /\ Count(p, Len(p), k) <= Count(q, Len(q), k) + 1
            /\ v.cache[k].refs >= l.cache[k].refs
        BY ONLY <1>7, k \in Keys, Zenon
      <4> QED
        BY ONLY <4>1, <3>1, <3>2
  <2>2. CASE \E i \in more : p[i].key = k
    <3>1. PICK i \in more : p[i].key = k
      BY <2>2
    <3>2. w[i] \in SettledAt(f) .. L /\ w[i] \in SettledAt(f) .. L - 1 /\ c[w[i] + 1] # c[w[i]]
      <4>1. w[i] \in SettledAt(f) .. SettledAt(m) - 1 /\ c[w[i] + 1] # c[w[i]]
        BY ONLY <1>4, i \in more, Zenon
      <4> QED
        <5>1. ASSUME NEW z, z \in SettledAt(f) .. SettledAt(m) - 1
              PROVE  z \in SettledAt(f) .. L /\ z \in SettledAt(f) .. L - 1
          BY ONLY <5>1, <1>1, <1>2
        <5> QED
          BY ONLY <4>1, <5>1, Zenon
    <3>3. l.cache[k].refs >= Count(q, Len(q), k) + 1
      <4>1. CASE k = <<c[w[i]], "Old">>
        BY <4>1, <3>2, <1>0 DEF ObsoleteListed, Listed
      <4>2. CASE k = <<c[w[i]], "New">>
        <5>1. c[w[i]] # c[1]
          BY <4>2
        <5> QED
          BY <5>1, <4>2, <3>2, <1>0, AddedBefore
      <4> QED
        BY <4>1, <4>2, <3>1, <1>4
    <3> QED
      <4>1. /\ l.cache[k].refs \in Nat /\ v.cache[k].refs \in Nat
            /\ Count(q, Len(q), k) \in Nat /\ Count(p, Len(p), k) \in Nat
            /\ Count(p, Len(p), k) <= Count(q, Len(q), k) + 1
            /\ v.cache[k].refs >= l.cache[k].refs
        BY ONLY <1>7, k \in Keys, Zenon
      <4> QED
        BY ONLY <4>1, <3>3, EnoughLeft, Zenon
  <2> QED
    BY <2>1, <2>2
<1>11. ObsoleteListed(d, g, v, p)
  <2> SUFFICES ASSUME NEW a \in SettledAt(g) .. Len(d) - 1, d[a + 1] # d[a]
               PROVE  Listed(v, <<d[a], "Old">>, Count(p, Len(p), <<d[a], "Old">>),
                             Added(d[a + 1], d[a]))
    BY DEF ObsoleteListed
  <2>1. a \in Nat /\ a \in 1 .. L /\ d[a] = c[a]
    BY <1>1, <1>2
  <2>2. CASE a = L
    <3>1. d[a] = s /\ d[a + 1] = r /\ r # s
      BY <2>1, <2>2
    <3>2. Count(p, Len(p), old) = Count(q, Len(q), old)
      <4>1. Len(p) \in Len(q) .. Len(p)
        BY <1>3
      <4>2. \A i \in Len(q) + 1 .. Len(p) : p[i].key # old
        BY <3>1, <1>9
      <4> QED
        BY <4>1, <4>2, <1>8
    <3>3. l.cache[old].refs >= Count(q, Len(q), old)
      <4>1. old \in Keys /\ old # <<c[1], "New">>
        BY <3>1, <1>9 DEF old
      <4> QED
        BY <4>1, <1>0 DEF Balanced
    <3>4. Listed(v, old, Count(p, Len(p), old), Added(r, s))
      <4>1. /\ old \in Keys /\ v.cache[old].refs = l.cache[old].refs + 1
            /\ v.cache[old].hashes = Added(r, s)
        BY <3>1, <1>9
      <4>2. l.cache[old].refs \in Nat /\ Count(q, Len(q), old) \in Nat
        BY <4>1, <1>7
      <4> QED
        <5>1. Count(p, Len(p), old) \in Nat /\ l.cache[old].refs >= Count(p, Len(p), old)
          BY ONLY <3>2, <3>3, <4>2
        <5> QED
          BY ONLY <5>1, <4>1, <4>2, ListedOnceMore, Zenon
    <3> QED
      BY <3>1, <3>4 DEF old
  <2>3. CASE a # L
    <3> DEFINE k == <<c[a], "Old">>
    <3>1. a \in 1 .. L - 1 /\ a + 1 \in 1 .. L /\ a \in SettledAt(f) .. L - 1
      BY <2>1, <2>3, <1>1, <1>2
    <3>2. d[a + 1] = c[a + 1] /\ c[a + 1] # c[a]
      BY <2>1, <3>1
    <3>3. Listed(l, k, Count(q, Len(q), k), Added(c[a + 1], c[a]))
      BY <3>1, <3>2, <1>0 DEF ObsoleteListed
    <3>4. k # old /\ k # new
      <4>1. L \in a + 1 .. L
        BY <3>1
      <4>2. c[a] # s
        BY <4>1, <3>1, <3>2, LeftForGood
      <4> QED
        BY <4>2 DEF old, new
    <3>5. \A i \in more : p[i].key # k
      <4> SUFFICES ASSUME NEW i \in more, p[i].key = k PROVE FALSE
        OBVIOUS
      <4>1. c[a] = c[w[i]]
        BY <1>4
      <4>2. a <= w[i] /\ w[i] < SettledAt(g) /\ w[i] \in Nat
        <5>1. a <= w[i]
          BY ONLY <4>1, <2>1, <1>5, i \in more, Zenon
        <5>2. w[i] < SettledAt(g) /\ w[i] \in 1 .. L - 1
          BY ONLY <1>4, i \in more, Zenon
        <5> QED
          BY ONLY <5>1, <5>2, <1>1
      <4> QED
        <5>1. a >= SettledAt(g) /\ a \in Nat /\ SettledAt(g) \in Nat
          BY ONLY <2>1, <1>2
        <5> QED
          BY ONLY <5>1, <4>2
    <3>6. k \in Keys
      BY <2>1, PlaceFacts
    <3> HIDE DEF k
    <3>7. Count(p, Len(p), k) = Count(q, Len(q), k)
      BY <3>5, <1>3, <1>8
    <3>8. v.cache[k] = l.cache[k]
      BY <3>4, <3>6, <1>7
    <3>9. Listed(v, k, Count(p, Len(p), k), Added(c[a + 1], c[a]))
      BY <3>3, <3>7, <3>8 DEF Listed
    <3> QED
      BY <3>9, <3>2, <2>1 DEF k
  <2> QED
    BY <2>2, <2>3
<1>12. ASSUME r # s, NEW x \in Len(q) .. Len(p)
       PROVE  Listed(v, new, Count(p, x, new), Added(s, r))
  <2>1. Count(p, x, new) = Count(q, Len(q), new)
    <3>1. ASSUME NEW i \in Len(q) + 1 .. x
          PROVE  p[i].key # new
      <4>1. i \in more
        BY ONLY <1>3, x \in Len(q) .. Len(p), i \in Len(q) + 1 .. x
      <4> QED
        BY ONLY <4>1, <1>9, <1>12, Zenon
    <3> QED
      BY ONLY <3>1, <1>8, x \in Len(q) .. Len(p), Zenon
  <2>2. new \in Keys /\ new # <<c[1], "New">>
    BY <1>9, <1>12 DEF new
  <2>3. l.cache[new].refs >= Count(q, Len(q), new)
    BY <2>2, <1>0 DEF Balanced
  <2>4. /\ v.cache[new].refs = l.cache[new].refs + 1
        /\ v.cache[new].hashes = Added(s, r)
    BY <1>9, <1>12
  <2>5. l.cache[new].refs \in Nat /\ Count(q, Len(q), new) \in Nat
    BY <2>2, <1>7
  <2> QED
    <3>1. Count(p, x, new) \in Nat /\ l.cache[new].refs >= Count(p, x, new)
      BY ONLY <2>1, <2>3, <2>5
    <3> QED
      BY ONLY <3>1, <2>4, <2>5, ListedOnceMore, Zenon
<1>13. ASSUME NEW b \in 1 .. L, ~ (r = c[b] /\ r # s)
       PROVE  v.cache[<<c[b], "New">>] = l.cache[<<c[b], "New">>]
  <2>1. <<c[b], "New">> \in Keys /\ <<c[b], "New">> # old
    BY PlaceFacts DEF old
  <2>2. <<c[b], "New">> # new \/ r = s
    BY <1>13 DEF new
  <2> QED
    BY <2>1, <2>2, <1>7
<1>14. AddedListed(d, g, v, p)
  <2> SUFFICES ASSUME NEW b \in 2 .. Len(d), d[b - 1] # d[b],
                      NEW a \in SettledAt(g) .. Len(d), d[a] = d[b]
               PROVE  Listed(v, <<d[b], "New">>, Count(p, Len(p), <<d[b], "New">>),
                             Added(d[b - 1], d[b]))
    BY DEF AddedListed
  <2>1. CASE b = L + 1
    <3>1. d[b - 1] = s /\ d[b] = r /\ r # s
      BY <2>1, <1>1
    <3>2. Listed(v, new, Count(p, Len(p), new), Added(s, r))
      BY <3>1, <1>3, <1>12
    <3> QED
      BY <3>1, <3>2 DEF new
  <2>2. CASE b # L + 1
    <3> DEFINE k == <<c[b], "New">>
    <3>1. b \in 2 .. L /\ b \in 1 .. L /\ b - 1 \in 1 .. L
      BY <2>2, <1>1
    <3>2. d[b] = c[b] /\ d[b - 1] = c[b - 1]
      BY <3>1
    <3>3. PICK e \in SettledAt(g) .. L : c[e] = c[b]
      <4>1. CASE a = L + 1
        <5>1. r = c[b] /\ L \in SettledAt(g) .. L
          BY <4>1, <3>2, <1>1, <1>2
        <5>2. c[L] = c[b]
          BY <5>1, <3>1
        <5> QED
          BY <5>1, <5>2
      <4>2. CASE a # L + 1
        <5>1. a \in SettledAt(g) .. L /\ a \in 1 .. L
          BY <4>2, <1>1, <1>2
        <5> QED
          BY <5>1, <3>2
      <4> QED
        BY <4>1, <4>2
    <3>4. e \in SettledAt(f) .. L /\ e \in 1 .. L
      BY <1>1, <1>2
    <3>5. Listed(l, k, Count(q, Len(q), k), Added(c[b - 1], c[b]))
      BY <3>1, <3>2, <3>3, <3>4, <1>0 DEF AddedListed
    <3>6. \A i \in more : p[i].key # k
      <4> SUFFICES ASSUME NEW i \in more, p[i].key = k PROVE FALSE
        OBVIOUS
      <4>1. c[e] = c[w[i]]
        BY <3>3, <1>4
      <4>2. e <= w[i] /\ w[i] < SettledAt(g) /\ w[i] \in Nat
        <5>1. e <= w[i]
          BY ONLY <4>1, <3>4, <1>5, i \in more, Zenon
        <5>2. w[i] < SettledAt(g) /\ w[i] \in 1 .. L - 1
          BY ONLY <1>4, i \in more, Zenon
        <5> QED
          BY ONLY <5>1, <5>2, <1>1
      <4>3. e >= SettledAt(g) /\ e \in Nat
        BY <3>3, <3>4, <1>1, <1>2
      <4> QED
        BY ONLY <4>2, <4>3, <1>2
    <3>7. v.cache[k] = l.cache[k]
      BY <3>1, <1>9, <1>13
    <3> HIDE DEF k
    <3>8. Count(p, Len(p), k) = Count(q, Len(q), k)
      <4>1. Len(p) \in Len(q) .. Len(p)
        BY ONLY <1>3
      <4> QED
        BY ONLY <4>1, <3>6, <1>8, Zenon
    <3>9. Listed(v, k, Count(p, Len(p), k), Added(c[b - 1], c[b]))
      BY <3>5, <3>7, <3>8 DEF Listed
    <3> QED
      BY <3>9, <3>2 DEF k
  <2> QED
    BY <2>1, <2>2
<1>15. ASSUME NEW i \in 1 .. Len(p), NEW a \in 1 .. L - 1, c[a + 1] # c[a],
              p[i].key = <<c[a], "Old">>, a <= g - 1,
              l.cache[<<c[a], "Old">>].hashes \subseteq Added(c[a + 1], c[a]),
              \A b \in a + 1 .. L : c[b - 1] # c[b] =>
                Listed(l, <<c[b], "New">>, Count(p, i, <<c[b], "New">>), Added(c[b - 1], c[b])),
              r # s => Listed(v, new, Count(p, i, new), Added(s, r))
       PROVE  PrunesAfter(d, v, p, i, a)
  <2>1. a \in 1 .. L /\ a + 1 \in 1 .. L /\ d[a] = c[a] /\ d[a + 1] = c[a + 1]
    <3>1. a \in 1 .. L /\ a + 1 \in 1 .. L
      BY <1>1
    <3> QED
      BY <3>1
  <2>2. v.cache[<<c[a], "Old">>] = l.cache[<<c[a], "Old">>]
    <3>1. L \in a + 1 .. L
      BY <2>1
    <3>2. c[a] # s
      BY <3>1, <1>15, LeftForGood
    <3>3. <<c[a], "Old">> # old /\ <<c[a], "Old">> # new /\ <<c[a], "Old">> \in Keys
      BY <2>1, <3>2, PlaceFacts DEF old, new
    <3> QED
      BY <3>3, <1>7
  <2>3. ASSUME NEW b \in a + 1 .. Len(d), d[b - 1] # d[b]
        PROVE  Listed(v, <<d[b], "New">>, Count(p, i, <<d[b], "New">>), Added(d[b - 1], d[b]))
    <3>1. CASE b = L + 1
      <4>1. b - 1 = L /\ d[L] = s /\ d[L + 1] = r
        BY ONLY <3>1, <1>1, \A x \in 1 .. Len(c) : d[x] = c[x], d[Len(c) + 1] = r
      <4>2. d[b - 1] = s /\ d[b] = r /\ r # s
        BY ONLY <4>1, <3>1, <2>3
      <4> QED
        BY <4>2, <1>15 DEF new
    <3>2. CASE b # L + 1
      <4>1. b \in a + 1 .. L /\ b \in 1 .. L /\ b - 1 \in 1 .. L
        BY ONLY <3>2, <1>1, Len(d) = Len(c) + 1, b \in a + 1 .. Len(d), a \in 1 .. L - 1
      <4>2. d[b] = c[b] /\ d[b - 1] = c[b - 1]
        BY <4>1
      <4>3. Listed(l, <<c[b], "New">>, Count(p, i, <<c[b], "New">>), Added(c[b - 1], c[b]))
        BY <4>1, <4>2, <2>3, <1>15
      <4>4. v.cache[<<c[b], "New">>] = l.cache[<<c[b], "New">>]
        BY <4>1, <1>9, <1>13
      <4>5. Listed(v, <<c[b], "New">>, Count(p, i, <<c[b], "New">>), Added(c[b - 1], c[b]))
        BY <4>3, <4>4 DEF Listed
      <4> QED
        BY <4>2, <4>5
    <3> QED
      BY <3>1, <3>2
  <2>4. p[i].key[1] = c[a]
    BY <1>15
  <2> QED
    BY <2>1, <2>2, <2>3, <2>4, <1>15 DEF PrunesAfter
<1>16. ObsoletePruned(d, g, v, p)
  <2> SUFFICES ASSUME NEW i \in 1 .. Len(p), p[i].prunes, p[i].key[2] = "Old"
               PROVE  \E a \in 1 .. g - 1 : PrunesAfter(d, v, p, i, a)
    BY DEF ObsoletePruned
  <2>1. CASE i \in 1 .. Len(q)
    <3>1. p[i] = q[i]
      BY <2>1
    <3>2. PICK a \in 1 .. f - 1 : PrunesAfter(c, l, q, i, a)
      BY <2>1, <3>1, <1>0 DEF ObsoletePruned
    <3>3. a \in 1 .. L - 1 /\ a \in 1 .. g - 1 /\ a <= g - 1
      BY <1>1
    <3>4. p[i].key = <<c[a], "Old">>
      <4>1. p[i].key \in Roots \X Identifiers
        BY CallsWait DEF Keys
      <4>2. p[i].key[1] = c[a]
        BY <3>1, <3>2 DEF PrunesAfter
      <4> QED
        BY <4>1, <4>2
    <3>5. /\ c[a + 1] # c[a]
          /\ l.cache[<<c[a], "Old">>].hashes \subseteq Added(c[a + 1], c[a])
      BY <3>1, <3>2, <3>4 DEF PrunesAfter
    <3>6. ASSUME NEW k
          PROVE  /\ Count(p, i, k) = Count(q, i, k)
                 /\ Count(q, i, k) <= Count(q, Len(q), k)
                 /\ Count(q, i, k) \in Nat
      <4>1. \A x \in 1 .. i : p[x] = q[x]
        BY <2>1, <1>3
      <4>2. Count(p, i, k) = Count(q, i, k)
        BY <4>1, CountSame
      <4>3. i \in 0 .. Len(q) /\ i \in Nat
        BY <2>1, <1>3
      <4>4. Count(q, i, k) <= Count(q, Len(q), k) /\ Count(q, i, k) \in Nat
        BY <4>3, <1>3, CountFacts
      <4> QED
        BY <4>2, <4>4
    <3>7. \A b \in a + 1 .. L : c[b - 1] # c[b] =>
            Listed(l, <<c[b], "New">>, Count(p, i, <<c[b], "New">>), Added(c[b - 1], c[b]))
      BY <3>2, <3>6 DEF PrunesAfter
    <3>8. r # s => Listed(v, new, Count(p, i, new), Added(s, r))
      <4> SUFFICES ASSUME r # s PROVE Listed(v, new, Count(p, i, new), Added(s, r))
        OBVIOUS
      <4>1. Listed(v, new, Count(p, Len(q), new), Added(s, r))
        BY <1>3, <1>12
      <4>2. Count(p, Len(q), new) = Count(q, Len(q), new)
        BY CountSame
      <4>3. v.cache[new].refs \in Nat /\ Count(q, Len(q), new) \in Nat
        BY <1>7, <1>9
      <4> QED
        BY <4>1, <4>2, <4>3, <3>6 DEF Listed
    <3>9. PrunesAfter(d, v, p, i, a)
      BY <3>3, <3>4, <3>5, <3>7, <3>8, <1>15
    <3> QED
      BY <3>3, <3>9
  <2>2. CASE i \notin 1 .. Len(q)
    <3> DEFINE a == w[i]
    <3>1. i \in more /\ i \in Len(q) .. Len(p)
      BY <2>2, <1>3
    <3>2. /\ a \in SettledAt(f) .. SettledAt(m) - 1 /\ a \in 1 .. L - 1 /\ c[a + 1] # c[a]
          /\ p[i].key = <<c[a], "Old">>
      BY <3>1, <1>4
    <3>3. a \in 1 .. g - 1 /\ a <= g - 1 /\ a \in SettledAt(f) .. L - 1 /\ a \in Nat
      <4>1. ASSUME NEW z, z \in SettledAt(f) .. SettledAt(m) - 1, z \in 1 .. L - 1
            PROVE  z \in 1 .. g - 1 /\ z <= g - 1 /\ z \in SettledAt(f) .. L - 1 /\ z \in Nat
        BY ONLY <4>1, <1>1, <1>2
      <4> QED
        BY ONLY <3>2, <4>1, Zenon
    <3>4. l.cache[<<c[a], "Old">>].hashes \subseteq Added(c[a + 1], c[a])
      BY <3>2, <3>3, <1>0 DEF ObsoleteListed, Listed
    <3>5. ASSUME NEW b \in a + 1 .. L, c[b - 1] # c[b]
          PROVE  Listed(l, <<c[b], "New">>, Count(p, i, <<c[b], "New">>), Added(c[b - 1], c[b]))
      <4>1. b \in 2 .. L /\ b \in 1 .. L /\ b \in SettledAt(f) .. L /\ b > a /\ b \in Nat
        BY ONLY <3>3, <1>1, <1>2, b \in a + 1 .. L
      <4>2. Listed(l, <<c[b], "New">>, Count(q, Len(q), <<c[b], "New">>), Added(c[b - 1], c[b]))
        BY <4>1, <3>5, <1>0 DEF AddedListed
      <4>3. ASSUME NEW j \in Len(q) + 1 .. i, p[j].key = <<c[b], "New">>
            PROVE  FALSE
        <5>1. j \in more /\ w[j] <= a
          <6>1. j \in more
            BY ONLY <3>1, <1>3, j \in Len(q) + 1 .. i
          <6>2. w[j] <= a
            BY ONLY <3>1, <1>4, j \in Len(q) + 1 .. i, Zenon
          <6> QED
            BY ONLY <6>1, <6>2
        <5>2. c[b] = c[w[j]] /\ w[j] \in Nat
          <6>1. /\ w[j] \in 1 .. L - 1
                /\ p[j].key = <<c[w[j]], "New">> \/ p[j].key = <<c[w[j]], "Old">>
            BY ONLY <5>1, <1>4, Zenon
          <6>2. c[b] = c[w[j]]
            BY ONLY <6>1, <4>3
          <6> QED
            BY ONLY <6>1, <6>2, <1>1
        <5>3. b <= w[j]
          BY <5>1, <5>2, <4>1, <1>5
        <5>4. a \in Nat
          BY ONLY <3>3
        <5> QED
          BY ONLY <5>1, <5>2, <5>3, <5>4, <4>1
      <4>4. Count(p, i, <<c[b], "New">>) = Count(q, Len(q), <<c[b], "New">>)
        BY <4>3, <3>1, <1>8
      <4> QED
        BY <4>2, <4>4
    <3>6. r # s => Listed(v, new, Count(p, i, new), Added(s, r))
      BY <3>1, <1>12
    <3> HIDE DEF a
    <3>7. PrunesAfter(d, v, p, i, a)
      BY <3>2, <3>3, <3>4, <3>5, <3>6, <1>15
    <3> QED
      BY <3>3, <3>7
  <2> QED
    BY <2>1, <2>2
<1>17. OnlyObsolete(p)
  <2> SUFFICES ASSUME NEW i \in 1 .. Len(p), p[i].prunes PROVE p[i].key[2] = "Old"
    BY DEF OnlyObsolete
  <2>1. CASE i \in 1 .. Len(q)
    BY <2>1 DEF OnlyObsolete
  <2>2. CASE i \notin 1 .. Len(q)
    <3>1. i \in more
      BY <2>2, <1>3
    <3>2. p[i].key = <<c[w[i]], "Old">>
      BY <3>1, <1>4
    <3> QED
      BY <3>2
  <2> QED
    BY <2>1, <2>2
<1>18. RolledBackPruned(d, v, p)
  BY <1>17 DEF RolledBackPruned, OnlyObsolete
<1> QED
  BY <1>10, <1>11, <1>14, <1>16, <1>18 DEF Paid
-----------------------------------------------------------------------------
(* The calls that wait *)

\* The calls that wait, one by one.
LEMMA PendingFacts ==
  ASSUME NEW b \in Seq(Buffered), NEW t \in Seq(Calls)
  PROVE  /\ Pending(b, t) \in Seq(WaitingCalls)
         /\ Len(Pending(b, t)) = Len(b) + Len(t)
         /\ \A i \in 1 .. Len(b) : Pending(b, t)[i] = Awaited(b[i])
         /\ \A i \in 1 .. Len(t) : Pending(b, t)[Len(b) + i] = Awaited(t[i])
<1>1. Len(b) \in Nat /\ Len(t) \in Nat /\ Len(b) + Len(t) \in Nat
  OBVIOUS
<1>2. \A i \in 1 .. Len(b) : b[i] \in Buffered /\ Awaited(b[i]) \in WaitingCalls
  <2>1. ASSUME NEW call \in Buffered
        PROVE  Awaited(call) \in WaitingCalls
    <3>1. call.key \in Keys /\ (call.call \in {"prune", "PruneTrie"}) \in BOOLEAN
      BY DEF Buffered
    <3> QED
      BY <3>1 DEF Awaited, WaitingCalls
  <2> QED
    BY <2>1
<1>3. \A i \in 1 .. Len(t) : t[i] \in Calls /\ Awaited(t[i]) \in WaitingCalls
  <2>1. ASSUME NEW call \in Calls
        PROVE  Awaited(call) \in WaitingCalls
    <3>1. call.key \in Keys /\ (call.call \in {"prune", "PruneTrie"}) \in BOOLEAN
      BY DEF Calls
    <3> QED
      BY <3>1 DEF Awaited, WaitingCalls
  <2> QED
    BY <2>1
<1> DEFINE call(i) == IF i <= Len(b) THEN Awaited(b[i]) ELSE Awaited(t[i - Len(b)])
<1>4. ASSUME NEW i \in 1 .. Len(b) + Len(t)
      PROVE  call(i) \in WaitingCalls
  <2>1. CASE i <= Len(b)
    <3>1. i \in 1 .. Len(b)
      BY <2>1, <1>1
    <3> QED
      BY <2>1, <3>1, <1>2
  <2>2. CASE ~ (i <= Len(b))
    <3>1. i - Len(b) \in 1 .. Len(t)
      BY <2>2, <1>1
    <3> QED
      BY <2>2, <3>1, <1>3
  <2> QED
    BY <2>1, <2>2
<1>5. ASSUME NEW i \in 1 .. Len(b)
      PROVE  i \in 1 .. Len(b) + Len(t) /\ call(i) = Awaited(b[i])
  BY <1>1
<1>6. ASSUME NEW i \in 1 .. Len(t)
      PROVE  Len(b) + i \in 1 .. Len(b) + Len(t) /\ call(Len(b) + i) = Awaited(t[i])
  <2>1. Len(b) + i \in 1 .. Len(b) + Len(t) /\ ~ (Len(b) + i <= Len(b))
        /\ Len(b) + i - Len(b) = i
    BY <1>1
  <2> QED
    BY <2>1
<1>7. Pending(b, t) = [i \in 1 .. Len(b) + Len(t) |-> call(i)]
  BY DEF Pending
<1> HIDE DEF call
<1>8. Pending(b, t) \in Seq(WaitingCalls) /\ Len(Pending(b, t)) = Len(b) + Len(t)
  BY <1>1, <1>4, <1>7
<1> QED
  BY <1>5, <1>6, <1>7, <1>8

\* The calls that wait are the same when they are one by one.
LEMMA PendingSame ==
  ASSUME NEW b \in Seq(Buffered), NEW t \in Seq(Calls),
         NEW c \in Seq(Buffered), NEW u \in Seq(Calls),
         Len(b) + Len(t) = Len(c) + Len(u),
         \A i \in 1 .. Len(b) + Len(t) : Pending(b, t)[i] = Pending(c, u)[i]
  PROVE  Pending(b, t) = Pending(c, u)
<1> DEFINE P == Pending(b, t)
           Q == Pending(c, u)
<1>1. P \in Seq(WaitingCalls) /\ Q \in Seq(WaitingCalls) /\ Len(P) = Len(Q)
      /\ \A i \in 1 .. Len(P) : P[i] = Q[i]
  BY PendingFacts
<1> HIDE DEF P, Q
<1>2. P = Q
  BY <1>1
<1> QED
  BY <1>2 DEF P, Q

\* The first call of todo goes.
LEMMA PendingTail ==
  ASSUME NEW b \in Seq(Buffered), NEW t \in Seq(Calls), t # <<>>
  PROVE  /\ Len(b) + 1 \in 1 .. Len(Pending(b, t))
         /\ Pending(b, t)[Len(b) + 1] = Awaited(Head(t))
         /\ Without(Pending(b, Tail(t)), Pending(b, t), Len(b) + 1)
<1> DEFINE q == Pending(b, t)
           p == Pending(b, Tail(t))
<1>1. /\ Len(b) \in Nat /\ Len(t) \in Nat /\ Len(t) >= 1 /\ Tail(t) \in Seq(Calls)
      /\ Len(Tail(t)) = Len(t) - 1 /\ Head(t) = t[1]
      /\ \A i \in 1 .. Len(t) - 1 : Tail(t)[i] = t[i + 1]
  OBVIOUS
<1>2. /\ Len(q) = Len(b) + Len(t)
      /\ \A i \in 1 .. Len(b) : q[i] = Awaited(b[i])
      /\ \A i \in 1 .. Len(t) : q[Len(b) + i] = Awaited(t[i])
  BY PendingFacts
<1>3. /\ Len(p) = Len(b) + Len(t) - 1
      /\ \A i \in 1 .. Len(b) : p[i] = Awaited(b[i])
      /\ \A i \in 1 .. Len(t) - 1 : p[Len(b) + i] = Awaited(Tail(t)[i])
  BY <1>1, PendingFacts
<1> HIDE DEF p, q
<1>4. Len(b) + 1 \in 1 .. Len(q) /\ q[Len(b) + 1] = Awaited(Head(t))
  BY <1>1, <1>2
<1>5. Len(p) = Len(q) - 1
  BY <1>1, <1>2, <1>3
<1>6. ASSUME NEW i \in 1 .. Len(q) - 1
      PROVE  p[i] = IF i < Len(b) + 1 THEN q[i] ELSE q[i + 1]
  <2>1. CASE i < Len(b) + 1
    <3>1. i \in 1 .. Len(b)
      BY <2>1, <1>1
    <3> QED
      BY <2>1, <3>1, <1>2, <1>3
  <2>2. CASE ~ (i < Len(b) + 1)
    <3> DEFINE j == i - Len(b)
    <3>1. /\ j \in 1 .. Len(t) - 1 /\ j + 1 \in 1 .. Len(t)
          /\ Len(b) + j = i /\ Len(b) + (j + 1) = i + 1
      BY <2>2, <1>1, <1>2
    <3> HIDE DEF j
    <3>2. p[Len(b) + j] = Awaited(Tail(t)[j]) /\ q[Len(b) + (j + 1)] = Awaited(t[j + 1])
          /\ Tail(t)[j] = t[j + 1]
      BY <3>1, <1>1, <1>2, <1>3
    <3>3. p[i] = q[i + 1]
      BY <3>1, <3>2
    <3> QED
      BY <2>2, <3>3
  <2> QED
    BY <2>1, <2>2
<1>7. Without(p, q, Len(b) + 1)
  BY <1>5, <1>6 DEF Without
<1> QED
  BY <1>4, <1>7 DEF p, q
\* The first call of todo is put in the buffer: it still waits in its place, but
\* a full buffer has dropped its oldest call, or this one if it is of size 0.
LEMMA PendingBuffered ==
  ASSUME NEW b \in Seq(Buffered), Len(b) <= PruningBufferLen, NEW t \in Seq(Calls), t # <<>>,
         NEW rec \in Buffered, Awaited(rec) = Awaited(Head(t))
  PROVE  \/ Pending(AddToBuffer(b, rec), Tail(t)) = Pending(b, t)
         \/ Without(Pending(AddToBuffer(b, rec), Tail(t)), Pending(b, t), 1)
<1> DEFINE a == AddToBuffer(b, rec)
           q == Pending(b, t)
           p == Pending(a, Tail(t))
<1>1. /\ Len(b) \in Nat /\ Len(t) \in Nat /\ Len(t) >= 1 /\ Tail(t) \in Seq(Calls)
      /\ Len(Tail(t)) = Len(t) - 1 /\ Head(t) = t[1]
      /\ \A i \in 1 .. Len(t) - 1 : Tail(t)[i] = t[i + 1]
      /\ PruningBufferLen \in Nat
  BY ListAssumption DEF ListAssumption
<1>2. /\ Len(q) = Len(b) + Len(t)
      /\ \A i \in 1 .. Len(b) : q[i] = Awaited(b[i])
      /\ \A i \in 1 .. Len(t) : q[Len(b) + i] = Awaited(t[i])
  BY PendingFacts
<1>3. CASE PruningBufferLen = 0
  <2>1. a = b /\ Len(b) = 0 /\ Len(b) + 1 = 1
    BY <1>1, <1>3 DEF AddToBuffer
  <2>2. Without(Pending(b, Tail(t)), q, Len(b) + 1)
    BY PendingTail
  <2> HIDE DEF a, q
  <2> QED
    BY <2>1, <2>2 DEF a, q
<1>4. CASE PruningBufferLen # 0 /\ Len(b) = PruningBufferLen
  <2>1. a = Append(Tail(b), rec) /\ Len(b) >= 1
    BY <1>1, <1>4 DEF AddToBuffer
  <2>2. /\ a \in Seq(Buffered) /\ Len(a) = Len(b) /\ a[Len(b)] = rec
        /\ \A i \in 1 .. Len(b) - 1 : a[i] = b[i + 1]
    BY <1>1, <2>1
  <2> HIDE DEF a
  <2>3. /\ Len(p) = Len(b) + Len(t) - 1
        /\ \A i \in 1 .. Len(b) : p[i] = Awaited(a[i])
        /\ \A i \in 1 .. Len(t) - 1 : p[Len(b) + i] = Awaited(Tail(t)[i])
    <3>1. /\ Len(p) = Len(a) + Len(Tail(t))
          /\ \A i \in 1 .. Len(a) : p[i] = Awaited(a[i])
          /\ \A i \in 1 .. Len(Tail(t)) : p[Len(a) + i] = Awaited(Tail(t)[i])
      BY <1>1, <2>2, PendingFacts
    <3> HIDE DEF p, q
    <3> QED
      BY ONLY <3>1, <1>1, <2>2
  <2> HIDE DEF p, q
  <2>4. ASSUME NEW i \in 1 .. Len(q) - 1
        PROVE  p[i] = q[i + 1]
    <3>1. CASE i < Len(b)
      <4>1. i \in 1 .. Len(b) - 1 /\ i \in 1 .. Len(b) /\ i + 1 \in 1 .. Len(b)
        BY <3>1, <1>1
      <4> QED
        BY <4>1, <1>2, <2>2, <2>3
    <3>2. CASE i = Len(b)
      <4>1. i \in 1 .. Len(b) /\ 1 \in 1 .. Len(t)
        BY <3>2, <1>1
      <4>2. p[i] = Awaited(rec) /\ q[Len(b) + 1] = Awaited(t[1])
        BY <4>1, <3>2, <1>2, <2>2, <2>3
      <4> QED
        BY <4>2, <3>2, <1>1
    <3>3. CASE i > Len(b)
      <4> DEFINE j == i - Len(b)
      <4>1. /\ j \in 1 .. Len(t) - 1 /\ j + 1 \in 1 .. Len(t)
            /\ Len(b) + j = i /\ Len(b) + (j + 1) = i + 1
        BY <3>3, <1>1, <1>2
      <4> HIDE DEF j
      <4>2. p[Len(b) + j] = Awaited(Tail(t)[j]) /\ q[Len(b) + (j + 1)] = Awaited(t[j + 1])
            /\ Tail(t)[j] = t[j + 1]
        BY <4>1, <1>1, <1>2, <2>3
      <4> QED
        BY <4>1, <4>2
    <3> QED
      BY <3>1, <3>2, <3>3, <1>1
  <2>5. Len(p) = Len(q) - 1 /\ Len(q) \in Nat
    BY <1>1, <1>2, <2>3
  <2>6. Without(p, q, 1)
    <3>1. \A i \in 1 .. Len(q) - 1 : ~ (i < 1)
      BY <2>5
    <3> QED
      BY <2>4, <2>5, <3>1 DEF Without
  <2> QED
    BY <2>6 DEF a, p, q
<1>5. CASE PruningBufferLen # 0 /\ Len(b) # PruningBufferLen
  <2>1. a = Append(b, rec)
    BY <1>5 DEF AddToBuffer
  <2>2. /\ a \in Seq(Buffered) /\ Len(a) = Len(b) + 1 /\ a[Len(b) + 1] = rec
        /\ \A i \in 1 .. Len(b) : a[i] = b[i]
    BY <1>1, <2>1
  <2> HIDE DEF a
  <2>3. /\ \A i \in 1 .. Len(b) + 1 : p[i] = Awaited(a[i])
        /\ \A i \in 1 .. Len(t) - 1 : p[Len(b) + 1 + i] = Awaited(Tail(t)[i])
    <3>1. /\ Len(p) = Len(a) + Len(Tail(t))
          /\ \A i \in 1 .. Len(a) : p[i] = Awaited(a[i])
          /\ \A i \in 1 .. Len(Tail(t)) : p[Len(a) + i] = Awaited(Tail(t)[i])
      BY <1>1, <2>2, PendingFacts
    <3> HIDE DEF p, q
    <3> QED
      BY ONLY <3>1, <1>1, <2>2
  <2> HIDE DEF p, q
  <2>4. ASSUME NEW i \in 1 .. Len(b) + Len(t)
        PROVE  q[i] = p[i]
    <3>1. CASE i <= Len(b)
      <4>1. i \in 1 .. Len(b) /\ i \in 1 .. Len(b) + 1
        BY <3>1, <1>1
      <4> QED
        BY <4>1, <1>2, <2>2, <2>3
    <3>2. CASE i = Len(b) + 1
      <4>1. i \in 1 .. Len(b) + 1 /\ 1 \in 1 .. Len(t)
        BY <3>2, <1>1
      <4>2. p[i] = Awaited(rec) /\ q[Len(b) + 1] = Awaited(t[1])
        BY <4>1, <3>2, <1>2, <2>2, <2>3
      <4> QED
        BY <4>2, <3>2, <1>1
    <3>3. CASE i > Len(b) + 1
      <4> DEFINE j == i - Len(b) - 1
      <4>1. /\ j \in 1 .. Len(t) - 1 /\ j + 1 \in 1 .. Len(t)
            /\ Len(b) + 1 + j = i /\ Len(b) + (j + 1) = i
        BY <3>3, <1>1, <1>2
      <4> HIDE DEF j
      <4>2. p[Len(b) + 1 + j] = Awaited(Tail(t)[j]) /\ q[Len(b) + (j + 1)] = Awaited(t[j + 1])
            /\ Tail(t)[j] = t[j + 1]
        BY <4>1, <1>1, <1>2, <2>3
      <4> QED
        BY <4>1, <4>2
    <3> QED
      BY <3>1, <3>2, <3>3, <1>1
  <2>5. Len(b) + Len(t) = Len(a) + Len(Tail(t))
    BY <1>1, <2>2
  <2>6. q = p
    BY <1>1, <2>2, <2>4, <2>5, PendingSame DEF p, q
  <2> QED
    BY <2>6 DEF a, p, q
<1> QED
  BY <1>3, <1>4, <1>5

\* The calls of two sequences put together.
LEMMA ConcatFacts ==
  ASSUME NEW x \in Seq(Calls), NEW y \in Seq(Calls)
  PROVE  /\ x \o y \in Seq(Calls) /\ Len(x \o y) = Len(x) + Len(y)
         /\ \A i \in 1 .. Len(x) : (x \o y)[i] = x[i]
         /\ \A i \in 1 .. Len(y) : (x \o y)[Len(x) + i] = y[i]
<1>1. Len(x) \in Nat /\ Len(y) \in Nat
  OBVIOUS
<1>2. x \o y \in Seq(Calls) /\ Len(x \o y) = Len(x) + Len(y)
  OBVIOUS
<1>3. ASSUME NEW i \in 1 .. Len(x)
      PROVE  (x \o y)[i] = x[i]
  BY <1>1
<1>4. ASSUME NEW i \in 1 .. Len(y)
      PROVE  (x \o y)[Len(x) + i] = y[i]
  <2>1. Len(x) + i \in 1 .. Len(x) + Len(y) /\ Len(x) + i > Len(x) /\ Len(x) + i - Len(x) = i
    BY <1>1
  <2> QED
    BY <2>1
<1> QED
  BY <1>2, <1>3, <1>4

\* Emptying the buffer leaves every call in its place.
LEMMA PendingResolved ==
  ASSUME NEW b \in Seq(Buffered), NEW t \in Seq(Calls), t # <<>>, Head(t).call = "PruneTrie",
         NEW resolved \in Seq(Calls), Len(resolved) = Len(b),
         \A i \in 1 .. Len(b) :
           resolved[i].call = b[i].call /\ resolved[i].key = b[i].key,
         NEW this \in Calls, this.call = "prune", this.key = Head(t).key
  PROVE  Pending(<<>>, resolved \o <<this>> \o Tail(t)) = Pending(b, t)
<1> DEFINE u == resolved \o <<this>> \o Tail(t)
           e == <<>>
           q == Pending(b, t)
           p == Pending(e, u)
<1>1. /\ Len(b) \in Nat /\ Len(t) \in Nat /\ Len(t) >= 1 /\ Tail(t) \in Seq(Calls)
      /\ Len(Tail(t)) = Len(t) - 1 /\ Head(t) = t[1]
      /\ \A i \in 1 .. Len(t) - 1 : Tail(t)[i] = t[i + 1]
      /\ e \in Seq(Buffered) /\ Len(e) = 0
  OBVIOUS
<1>2. /\ u \in Seq(Calls) /\ Len(u) = Len(b) + Len(t)
      /\ \A i \in 1 .. Len(b) : u[i] = resolved[i]
      /\ u[Len(b) + 1] = this
      /\ \A i \in 1 .. Len(t) - 1 : u[Len(b) + 1 + i] = Tail(t)[i]
  <2> DEFINE x == resolved \o <<this>>
             y == <<this>>
  <2>1. y \in Seq(Calls) /\ Len(y) = 1 /\ y[1] = this /\ 1 \in 1 .. Len(y)
    OBVIOUS
  <2>2. x = resolved \o y /\ u = x \o Tail(t)
    OBVIOUS
  <2> HIDE DEF x, y, u
  <2>3. /\ x \in Seq(Calls) /\ Len(x) = Len(b) + 1 /\ x[Len(b) + 1] = this
        /\ \A i \in 1 .. Len(b) : x[i] = resolved[i]
    <3>1. /\ x \in Seq(Calls) /\ Len(x) = Len(resolved) + Len(y)
          /\ \A i \in 1 .. Len(resolved) : x[i] = resolved[i]
          /\ \A i \in 1 .. Len(y) : x[Len(resolved) + i] = y[i]
      BY <2>1, <2>2, ConcatFacts
    <3>2. x[Len(resolved) + 1] = y[1]
      BY ONLY <3>1, <2>1
    <3> QED
      BY ONLY <3>1, <3>2, <2>1, <1>1, Len(resolved) = Len(b)
  <2>4. /\ u \in Seq(Calls) /\ Len(u) = Len(x) + Len(Tail(t))
        /\ \A i \in 1 .. Len(x) : u[i] = x[i]
        /\ \A i \in 1 .. Len(Tail(t)) : u[Len(x) + i] = Tail(t)[i]
    <3> DEFINE z == Tail(t)
    <3>1. z \in Seq(Calls) /\ u = x \o z /\ x \in Seq(Calls)
      BY <1>1, <2>2, <2>3
    <3> HIDE DEF z
    <3>2. /\ u \in Seq(Calls) /\ Len(u) = Len(x) + Len(z)
          /\ \A i \in 1 .. Len(x) : u[i] = x[i]
          /\ \A i \in 1 .. Len(z) : u[Len(x) + i] = z[i]
      BY ONLY <3>1, ConcatFacts
    <3> QED
      BY ONLY <3>2 DEF z
  <2>5. \A i \in 1 .. Len(b) : u[i] = resolved[i]
    BY ONLY <1>1, <2>3, <2>4
  <2>6. u[Len(b) + 1] = this /\ Len(u) = Len(b) + Len(t)
    BY ONLY <1>1, <2>3, <2>4
  <2> QED
    BY ONLY <1>1, <2>5, <2>6, <2>3, <2>4
<1>3. /\ Len(q) = Len(b) + Len(t)
      /\ \A i \in 1 .. Len(b) : q[i] = Awaited(b[i])
      /\ \A i \in 1 .. Len(t) : q[Len(b) + i] = Awaited(t[i])
  BY PendingFacts
<1> HIDE DEF u, e
<1>4. \A i \in 1 .. Len(u) : p[Len(e) + i] = Awaited(u[i])
  BY <1>1, <1>2, PendingFacts
<1> HIDE DEF p, q
<1>5. ASSUME NEW i \in 1 .. Len(b) + Len(t)
      PROVE  p[i] = q[i]
  <2>0. Len(e) + i = i
    BY <1>1
  <2>1. p[i] = Awaited(u[i])
    BY <2>0, <1>2, <1>4
  <2>2. CASE i <= Len(b)
    <3>1. i \in 1 .. Len(b)
      BY <2>2, <1>1
    <3>2. Awaited(resolved[i]) = Awaited(b[i])
      BY <3>1 DEF Awaited
    <3> QED
      BY <3>1, <3>2, <2>1, <1>2, <1>3
  <2>3. CASE i = Len(b) + 1
    <3>1. 1 \in 1 .. Len(t)
      BY <1>1
    <3>2. Awaited(this) = Awaited(t[1])
      BY <1>1 DEF Awaited
    <3> QED
      BY <3>1, <3>2, <2>1, <2>3, <1>2, <1>3
  <2>4. CASE i > Len(b) + 1
    <3> DEFINE j == i - Len(b) - 1
    <3>1. /\ j \in 1 .. Len(t) - 1 /\ j + 1 \in 1 .. Len(t)
          /\ Len(b) + 1 + j = i /\ Len(b) + (j + 1) = i
      BY <2>4, <1>1
    <3> HIDE DEF j
    <3>2. u[Len(b) + 1 + j] = Tail(t)[j] /\ q[Len(b) + (j + 1)] = Awaited(t[j + 1])
          /\ Tail(t)[j] = t[j + 1]
      BY <3>1, <1>1, <1>2, <1>3
    <3> QED
      BY <3>1, <3>2, <2>1
  <2> QED
    BY <2>2, <2>3, <2>4, <1>1
<1>6. Len(e) + Len(u) = Len(b) + Len(t)
  BY <1>1, <1>2
<1>7. p = q
  BY <1>1, <1>2, <1>5, <1>6, PendingSame DEF p, q
<1> QED
  BY <1>7 DEF p, q, u, e
-----------------------------------------------------------------------------
(* What updateStateStorage finalises *)

\* The states of the chain by their places.
LEMMA StatesFacts ==
  ASSUME TypeOK
  PROVE  /\ States \in Seq(Roots) /\ Len(States) = Len(chain)
         /\ \A i \in 1 .. Len(chain) : States[i] = chain[i].root
         /\ \A i \in 1 .. Len(chain) : States[i] = RootAt(StartNonce + i - 1)
         /\ FinalAt \in 1 .. Len(chain)
<1>1. /\ Len(chain) \in Nat /\ StartNonce \in Nat /\ Height = StartNonce + Len(chain) - 1
      /\ final \in Nat /\ StartNonce <= final /\ final <= Height
      /\ \A i \in 1 .. Len(chain) : chain[i] \in Blocks
  BY ChainFacts, NumberFacts
<1>2. \A i \in 1 .. Len(chain) : chain[i].root \in Roots
  BY <1>1 DEF Blocks
<1>3. States \in Seq(Roots) /\ Len(States) = Len(chain)
      /\ \A i \in 1 .. Len(chain) : States[i] = chain[i].root
  BY <1>1, <1>2 DEF States
<1>4. ASSUME NEW i \in 1 .. Len(chain)
      PROVE  States[i] = RootAt(StartNonce + i - 1)
  <2> DEFINE n == StartNonce + i - 1
  <2>1. n - StartNonce + 1 = i
    BY <1>1
  <2> HIDE DEF n
  <2>2. RootAt(n) = chain[i].root
    BY <2>1 DEF RootAt
  <2> QED
    BY <2>2, <1>3 DEF n
<1>5. FinalAt \in 1 .. Len(chain)
  BY <1>1 DEF FinalAt
<1> QED
  BY <1>3, <1>4, <1>5

\* The place of the state that the header of this nonce has left.
PlaceOf(nonce) == IF Scheduled THEN nonce - StartNonce - 1 ELSE nonce - StartNonce

\* A header that prunes does so for a place that is settled with it.
LEMMA PrunedPlace ==
  ASSUME TypeOK, NEW from \in StartNonce .. Height, NEW to \in from .. Height,
         NEW nonce \in from + 1 .. to,
         RootHashForPruning(nonce) # RootHashForPruning(nonce - 1)
  PROVE  /\ PlaceOf(nonce) \in SettledAt(from - StartNonce + 1)
                                 .. SettledAt(to - StartNonce + 1) - 1
         /\ PlaceOf(nonce) \in 1 .. Len(chain) - 1
         /\ States[PlaceOf(nonce)] = RootHashForPruning(nonce - 1)
         /\ States[PlaceOf(nonce) + 1] # States[PlaceOf(nonce)]
<1>1. /\ Len(chain) \in Nat /\ StartNonce \in Nat /\ Height = StartNonce + Len(chain) - 1
      /\ Height \in Nat /\ from \in Nat /\ to \in Nat /\ nonce \in Nat
      /\ StartNonce <= from /\ from + 1 <= nonce /\ nonce <= to /\ to <= Height
  BY ChainFacts, NumberFacts
<1>2. CASE ~ Scheduled
  <2>1. /\ RootHashForPruning(nonce) = RootAt(nonce)
        /\ RootHashForPruning(nonce - 1) = RootAt(nonce - 1)
    BY <1>2 DEF RootHashForPruning
  <2>2. PlaceOf(nonce) = nonce - StartNonce
    BY <1>2 DEF PlaceOf
  <2>3. /\ SettledAt(from - StartNonce + 1) = from - StartNonce + 1
        /\ SettledAt(to - StartNonce + 1) = to - StartNonce + 1
    BY <1>2 DEF SettledAt
  <2>4. /\ nonce - StartNonce \in 1 .. Len(chain) - 1
        /\ nonce - StartNonce \in 1 .. Len(chain)
        /\ nonce - StartNonce + 1 \in 1 .. Len(chain)
        /\ nonce - StartNonce \in from - StartNonce + 1 .. to - StartNonce + 1 - 1
        /\ StartNonce + (nonce - StartNonce) - 1 = nonce - 1
        /\ StartNonce + (nonce - StartNonce + 1) - 1 = nonce
    BY <1>1
  <2>5. /\ States[nonce - StartNonce] = RootAt(nonce - 1)
        /\ States[nonce - StartNonce + 1] = RootAt(nonce)
    BY <2>4, StatesFacts
  <2>6. RootAt(nonce) # RootAt(nonce - 1)
    BY <2>1
  <2>7. nonce - StartNonce \in SettledAt(from - StartNonce + 1)
                                 .. SettledAt(to - StartNonce + 1) - 1
    BY ONLY <1>1, <2>3, <2>4
  <2>8. States[nonce - StartNonce + 1] # States[nonce - StartNonce]
    BY ONLY <2>5, <2>6
  <2>9. nonce - StartNonce \in 1 .. Len(chain) - 1
    BY ONLY <2>4
  <2>10. States[nonce - StartNonce] = RootHashForPruning(nonce - 1)
    BY ONLY <2>1, <2>5
  <2> QED
    BY ONLY <2>2, <2>7, <2>8, <2>9, <2>10
<1>3. CASE Scheduled
  <2>1. RootHashForPruning(nonce) = RootAt(nonce - 1)
    BY <1>1, <1>3 DEF RootHashForPruning
  <2>2. nonce - 1 # StartNonce
    <3> SUFFICES ASSUME nonce - 1 = StartNonce PROVE FALSE
      OBVIOUS
    <3>1. ~ (nonce - 1 > StartNonce)
      BY <1>1
    <3>2. RootHashForPruning(nonce - 1) = RootAt(nonce - 1)
      BY <3>1 DEF RootHashForPruning
    <3> QED
      BY <2>1, <3>2
  <2>3. nonce - 1 > StartNonce /\ nonce - 1 - 1 = nonce - 2
    BY <1>1, <2>2
  <2>4. RootHashForPruning(nonce - 1) = RootAt(nonce - 2)
    BY <1>3, <2>3 DEF RootHashForPruning
  <2>5. PlaceOf(nonce) = nonce - StartNonce - 1
    BY <1>3 DEF PlaceOf
  <2>6. /\ nonce - StartNonce - 1 \in 1 .. Len(chain) - 1
        /\ nonce - StartNonce - 1 \in 1 .. Len(chain)
        /\ nonce - StartNonce - 1 + 1 \in 1 .. Len(chain)
        /\ StartNonce + (nonce - StartNonce - 1) - 1 = nonce - 2
        /\ StartNonce + (nonce - StartNonce - 1 + 1) - 1 = nonce - 1
    BY <1>1, <2>3
  <2>7. nonce - StartNonce - 1 \in SettledAt(from - StartNonce + 1)
                                     .. SettledAt(to - StartNonce + 1) - 1
    <3>1. SettledAt(to - StartNonce + 1) = to - StartNonce
      BY <1>1, <1>3, <2>3 DEF SettledAt
    <3>2. SettledAt(from - StartNonce + 1) \in Int
          /\ SettledAt(from - StartNonce + 1) <= nonce - StartNonce - 1
      BY <1>1, <1>3, <2>3 DEF SettledAt
    <3> QED
      BY <1>1, <3>1, <3>2
  <2>8. /\ States[nonce - StartNonce - 1] = RootAt(nonce - 2)
        /\ States[nonce - StartNonce - 1 + 1] = RootAt(nonce - 1)
    BY <2>6, StatesFacts
  <2> QED
    BY <2>1, <2>4, <2>5, <2>6, <2>7, <2>8
<1> QED
  BY <1>2, <1>3

\* The calls of updateStateStorage are two for each place that is settled, in
\* the order of the chain.
LEMMA UpdateFinalises ==
  ASSUME TypeOK, Contiguous(States), NEW to \in final .. Height, NEW restartNonce,
         NEW b \in Seq(Buffered)
  PROVE  \E w : Finalises(States, FinalAt, to - StartNonce + 1, Pending(b, <<>>),
                          Pending(b, updateStateStorage(final, to, restartNonce)), w)
<1> DEFINE Prunes(nonce) == RootHashForPruning(nonce) # RootHashForPruning(nonce - 1)
           headers == {nonce \in final + 1 .. to : Prunes(nonce)}
           Number(i) == (i + 1) \div 2
           NonceOf(i) == Nth(headers, Number(i))
           CallOf(i) ==
             LET nonce == Nth(headers, (i + 1) \div 2)
                 prevRoot == RootHashForPruning(nonce - 1)
             IN  IF i % 2 = 1
                 THEN [call |-> "CancelPrune", key |-> <<prevRoot, "New">>, on |-> FALSE]
                 ELSE [call |-> "PruneTrie", key |-> <<prevRoot, "Old">>,
                       on |-> IsPruningEnabled(nonce, restartNonce)]
           len == 2 * Cardinality(headers)
           t == updateStateStorage(final, to, restartNonce)
           c == States
           q == Pending(b, <<>>)
           p == Pending(b, t)
           B == Len(b)
           w == [i \in B + 1 .. B + len |-> PlaceOf(NonceOf(i - B))]
<1>1. t = [i \in 1 .. len |-> CallOf(i)]
  BY DEF updateStateStorage
<1>2. /\ StartNonce \in Nat /\ Height \in Nat /\ final \in Nat /\ to \in Nat
      /\ final \in StartNonce .. Height /\ to \in StartNonce .. Height
      /\ B \in Nat
  BY NumberFacts, ChainFacts
<1>3. headers \subseteq 0 .. to /\ headers \subseteq final + 1 .. to
  BY <1>2
<1>4. \A nonce \in headers : Prunes(nonce)
  OBVIOUS
<1>5. t \in Seq(Calls)
  BY <1>2, UpdateStateStorageFacts
<1> HIDE DEF headers
<1>6. Cardinality(headers) \in Nat
  <2>1. IsFiniteSet(headers)
    <3>1. IsFiniteSet(0 .. to)
      BY <1>2, FS_Interval
    <3> QED
      BY <3>1, <1>3, FS_Subset
  <2> QED
    BY <2>1, FS_CardinalityType
<1>7. len \in Nat /\ Len(t) = len
  BY <1>1, <1>6
<1>8. ASSUME NEW i \in 1 .. len
      PROVE  /\ Number(i) \in 1 .. Cardinality(headers) /\ Number(i) \in Nat
             /\ NonceOf(i) \in headers /\ NonceOf(i) \in Nat
             /\ PlaceOf(NonceOf(i)) \in SettledAt(FinalAt) .. SettledAt(to - StartNonce + 1) - 1
             /\ PlaceOf(NonceOf(i)) \in 1 .. Len(chain) - 1
             /\ c[PlaceOf(NonceOf(i))] = RootHashForPruning(NonceOf(i) - 1)
             /\ c[PlaceOf(NonceOf(i)) + 1] # c[PlaceOf(NonceOf(i))]
  <2>1. Number(i) \in 1 .. Cardinality(headers) /\ Number(i) \in Nat
    BY <1>6
  <2>2. NonceOf(i) \in headers
    BY <2>1, <1>2, <1>3, NthIsOne
  <2> HIDE DEF NonceOf, Number, Prunes, c
  <2>3. NonceOf(i) \in final + 1 .. to /\ NonceOf(i) \in Nat /\ Prunes(NonceOf(i))
    <3>1. NonceOf(i) \in final + 1 .. to
      BY <2>2, <1>3
    <3>2. NonceOf(i) \in Nat
      BY <3>1, <1>2
    <3>3. Prunes(NonceOf(i))
      BY ONLY <2>2, <1>4
    <3> QED
      BY <3>1, <3>2, <3>3
  <2> QED
    BY <2>1, <2>2, <2>3, <1>2, PrunedPlace DEF FinalAt, Prunes, c
<1>9. ASSUME NEW i \in 1 .. len
      PROVE  /\ i % 2 = 1 => Awaited(t[i]) = [key |-> <<c[PlaceOf(NonceOf(i))], "New">>,
                                              prunes |-> FALSE]
             /\ i % 2 # 1 => Awaited(t[i]) = [key |-> <<c[PlaceOf(NonceOf(i))], "Old">>,
                                              prunes |-> TRUE]
  <2>1. t[i] = CallOf(i)
    BY <1>1
  <2> HIDE DEF t, c
  <2>2. c[PlaceOf(NonceOf(i))] = RootHashForPruning(NonceOf(i) - 1)
    BY <1>8
  <2>3. t[i] = IF i % 2 = 1
               THEN [call |-> "CancelPrune",
                     key |-> <<RootHashForPruning(NonceOf(i) - 1), "New">>, on |-> FALSE]
               ELSE [call |-> "PruneTrie",
                     key |-> <<RootHashForPruning(NonceOf(i) - 1), "Old">>,
                     on |-> IsPruningEnabled(NonceOf(i), restartNonce)]
    BY <2>1
  <2> HIDE DEF NonceOf, CallOf
  <2>4. ASSUME i % 2 = 1
        PROVE  Awaited(t[i]) = [key |-> <<c[PlaceOf(NonceOf(i))], "New">>, prunes |-> FALSE]
    <3> DEFINE x == c[PlaceOf(NonceOf(i))]
               u == t[i]
    <3>1. u.call = "CancelPrune" /\ u.key = <<x, "New">>
      BY <2>2, <2>3, <2>4
    <3> HIDE DEF x, u
    <3>2. Awaited(u) = [key |-> <<x, "New">>, prunes |-> FALSE]
      <4>1. (u.call \in {"prune", "PruneTrie"}) = FALSE
        BY ONLY <3>1
      <4> QED
        BY ONLY <3>1, <4>1, Zenon DEF Awaited
    <3> QED
      BY ONLY <3>2 DEF x, u
  <2>5. ASSUME i % 2 # 1
        PROVE  Awaited(t[i]) = [key |-> <<c[PlaceOf(NonceOf(i))], "Old">>, prunes |-> TRUE]
    <3> DEFINE x == c[PlaceOf(NonceOf(i))]
               u == t[i]
    <3>1. u.call = "PruneTrie" /\ u.key = <<x, "Old">>
      BY <2>2, <2>3, <2>5
    <3> HIDE DEF x, u
    <3>2. Awaited(u) = [key |-> <<x, "Old">>, prunes |-> TRUE]
      BY ONLY <3>1 DEF Awaited
    <3> QED
      BY ONLY <3>2 DEF x, u
  <2> QED
    BY <2>4, <2>5
<1>10. ASSUME NEW i \in 1 .. len, NEW j \in 1 .. i
       PROVE  /\ j \in 1 .. len
              /\ PlaceOf(NonceOf(j)) <= PlaceOf(NonceOf(i))
              /\ Number(j) # Number(i) => PlaceOf(NonceOf(j)) < PlaceOf(NonceOf(i))
  <2>1. j \in 1 .. len /\ j <= i /\ i \in Nat /\ j \in Nat
    BY <1>7
  <2>2. Number(j) <= Number(i)
    BY <2>1
  <2>3. /\ Number(i) \in 1 .. Cardinality(headers) /\ Number(i) \in Nat
        /\ Number(j) \in 1 .. Cardinality(headers) /\ Number(j) \in Nat
        /\ NonceOf(i) \in Nat /\ NonceOf(j) \in Nat
    BY <2>1, <1>8
  <2> HIDE DEF Number
  <2>4. CASE Number(j) = Number(i)
    <3>1. NonceOf(j) = NonceOf(i)
      BY <2>4
    <3>2. PlaceOf(NonceOf(i)) \in 1 .. Len(chain) - 1
      BY <1>8
    <3> HIDE DEF NonceOf
    <3> QED
      BY <3>1, <3>2, <2>1, <2>4
  <2>5. CASE Number(j) # Number(i)
    <3>1. Number(j) < Number(i)
      BY <2>2, <2>3, <2>5
    <3>2. NonceOf(j) < NonceOf(i)
      BY <3>1, <2>3, <1>2, <1>3, NthGrows
    <3> HIDE DEF NonceOf
    <3>3. PlaceOf(NonceOf(j)) < PlaceOf(NonceOf(i))
      BY <3>2, <2>3, <1>2 DEF PlaceOf
    <3>4. PlaceOf(NonceOf(j)) \in Int /\ PlaceOf(NonceOf(i)) \in Int
      BY ONLY <2>3, <1>2 DEF PlaceOf
    <3> QED
      BY <3>3, <3>4, <2>1
  <2> QED
    BY <2>4, <2>5
<1>11. ASSUME NEW i \in 1 .. len, NEW j \in 1 .. i, Awaited(t[j]).key = Awaited(t[i]).key
       PROVE  j = i
  <2>1. j \in 1 .. len /\ i \in Nat /\ j \in Nat
    BY <1>10
  <2> DEFINE x == PlaceOf(NonceOf(j))
             y == PlaceOf(NonceOf(i))
  <2>2. /\ x \in 1 .. Len(chain) - 1 /\ c[x + 1] # c[x] /\ y \in 1 .. Len(chain) - 1
        /\ x <= y /\ (Number(j) # Number(i) => x < y)
    BY <2>1, <1>8, <1>10
  <2>3. /\ i % 2 = 1 => Awaited(t[i]).key = <<c[y], "New">>
        /\ i % 2 # 1 => Awaited(t[i]).key = <<c[y], "Old">>
        /\ j % 2 = 1 => Awaited(t[j]).key = <<c[x], "New">>
        /\ j % 2 # 1 => Awaited(t[j]).key = <<c[x], "Old">>
    <3>1. /\ i % 2 = 1 => Awaited(t[i]) = [key |-> <<c[y], "New">>, prunes |-> FALSE]
          /\ i % 2 # 1 => Awaited(t[i]) = [key |-> <<c[y], "Old">>, prunes |-> TRUE]
      BY <1>9
    <3>2. /\ j % 2 = 1 => Awaited(t[j]) = [key |-> <<c[x], "New">>, prunes |-> FALSE]
          /\ j % 2 # 1 => Awaited(t[j]) = [key |-> <<c[x], "Old">>, prunes |-> TRUE]
      BY <2>1, <1>9
    <3> HIDE DEF x, y, c, t
    <3> QED
      BY ONLY <3>1, <3>2
  <2> HIDE DEF x, y, c, t
  <2>4. c[x] = c[y] /\ (i % 2 = 1 <=> j % 2 = 1)
    BY <2>3, <1>11
  <2>5. ~ (x < y)
    <3> SUFFICES ASSUME x < y PROVE FALSE
      OBVIOUS
    <3>1. c \in Seq(Roots) /\ Len(c) = Len(chain) /\ Len(chain) \in Nat /\ Contiguous(c)
      BY StatesFacts, ChainFacts DEF c
    <3>2. x \in 1 .. Len(c) - 1 /\ y \in x + 1 .. Len(c)
      BY <2>2, <3>1
    <3>3. c[y] # c[x]
      BY <3>1, <3>2, <2>2, LeftForGood
    <3> QED
      BY <3>3, <2>4
  <2>6. Number(j) = Number(i)
    BY <2>2, <2>5
  <2> QED
    BY <2>1, <2>4, <2>6
<1>12. /\ Len(q) = B /\ Len(p) = B + len
       /\ \A i \in 1 .. len : p[B + i] = Awaited(t[i])
  <2>1. <<>> \in Seq(Calls) /\ Len(<<>>) = 0
    OBVIOUS
  <2>2. Len(q) = B + 0
    BY <2>1, PendingFacts
  <2> HIDE DEF t
  <2>3. Len(p) = B + Len(t) /\ \A i \in 1 .. Len(t) : p[B + i] = Awaited(t[i])
    BY <1>5, PendingFacts
  <2> QED
    BY <2>2, <2>3, <1>2, <1>7
<1>13. ASSUME NEW i \in B + 1 .. B + len
       PROVE  /\ i - B \in 1 .. len /\ w[i] = PlaceOf(NonceOf(i - B))
              /\ p[i] = Awaited(t[i - B])
  <2>1. i - B \in 1 .. len /\ B + (i - B) = i
    BY <1>2, <1>7
  <2>2. w[i] = PlaceOf(NonceOf(i - B))
    OBVIOUS
  <2> HIDE DEF p, w, t
  <2>3. p[B + (i - B)] = Awaited(t[i - B])
    BY <2>1, <1>12
  <2> QED
    BY <2>1, <2>2, <2>3
<1> HIDE DEF q, p, w, t, c, NonceOf, Number, len, CallOf
<1>14. ASSUME NEW i \in Len(q) + 1 .. Len(p)
       PROVE  /\ w[i] \in SettledAt(FinalAt) .. SettledAt(to - StartNonce + 1) - 1
              /\ c[w[i] + 1] # c[w[i]]
              /\ p[i] \in {[key |-> <<c[w[i]], "New">>, prunes |-> FALSE],
                           [key |-> <<c[w[i]], "Old">>, prunes |-> TRUE]}
              /\ \A j \in Len(q) + 1 .. i : w[j] <= w[i] /\ (p[j].key = p[i].key => j = i)
  <2>1. i \in B + 1 .. B + len
    BY <1>12
  <2>2. /\ i - B \in 1 .. len /\ w[i] = PlaceOf(NonceOf(i - B)) /\ p[i] = Awaited(t[i - B])
    BY <2>1, <1>13
  <2>3. w[i] \in SettledAt(FinalAt) .. SettledAt(to - StartNonce + 1) - 1
        /\ c[w[i] + 1] # c[w[i]]
    BY <2>2, <1>8
  <2>4. p[i] \in {[key |-> <<c[w[i]], "New">>, prunes |-> FALSE],
                  [key |-> <<c[w[i]], "Old">>, prunes |-> TRUE]}
    BY <2>2, <1>9
  <2>5. ASSUME NEW j \in Len(q) + 1 .. i
        PROVE  w[j] <= w[i] /\ (p[j].key = p[i].key => j = i)
    <3>1. j \in B + 1 .. B + len /\ j - B \in 1 .. i - B /\ i \in Int /\ j \in Int
      BY <2>1, <1>2, <1>7, <1>12
    <3>2. w[j] = PlaceOf(NonceOf(j - B)) /\ p[j] = Awaited(t[j - B])
      BY <3>1, <1>13
    <3>3. w[j] <= w[i]
      BY <3>1, <3>2, <2>2, <1>10
    <3>4. p[j].key = p[i].key => j - B = i - B
      BY <3>1, <3>2, <2>2, <1>11
    <3>5. j - B = i - B => j = i
      BY <3>1, <1>2
    <3> QED
      BY <3>3, <3>4, <3>5
  <2> QED
    BY <2>3, <2>4, <2>5
<1>15. Finalises(c, FinalAt, to - StartNonce + 1, q, p, w)
  BY <1>14 DEF Finalises
<1> QED
  BY <1>15 DEF q, p, t, c
-----------------------------------------------------------------------------
(* What a commit lists *)

(* A state and one that may follow it differ both ways, at least in the    *)
(* root node.                                                              *)
RootsDiffer ==
  \A s, r \in Roots :
    <<s, r>> \in Children /\ r # s => Added(s, r) # {} /\ Added(r, s) # {}

\* A second listing of an entry counts a reference and changes nothing else, if
\* the hashes are the same.
LEMMA FilledEntries ==
  ASSUME NEW l \in Lists, NEW key \in Keys, NEW hashes \in SUBSET Nodes,
         l.cache[key].refs = 0 \/ l.cache[key].hashes = hashes, NEW k \in Keys
  PROVE  /\ Filled(l, key, hashes).cache[key].refs = l.cache[key].refs + 1
         /\ Filled(l, key, hashes).cache[key].hashes = hashes
         /\ k # key => Filled(l, key, hashes).cache[k] = l.cache[k]
<1>1. l.cache \in [Keys -> [refs : Nat, hashes : SUBSET Nodes]]
  BY DEF Lists
<1>2. Filled(l, key, hashes).cache =
        [l.cache EXCEPT ![key] =
           IF @.refs = 0 THEN [refs |-> 1, hashes |-> hashes]
                         ELSE [refs |-> @.refs + 1, hashes |-> @.hashes]]
  BY DEF Filled, putInCache
<1> QED
  BY <1>1, <1>2

\* A commit that does not empty the list adds a reference to its two entries.
LEMMA CommitLists ==
  ASSUME RootsDiffer, NEW l \in Lists, Tidy(l), NEW s \in Roots, NEW r \in Roots,
         <<s, r>> \in Children,
         \/ r = s
         \/ /\ \A k \in ListedKeys(s, r) :
                 l.cache[k].refs = 0 \/ l.cache[k].hashes = ListedHashes(s, r, k)
            /\ \A k \in ListedKeys(s, r) : MarkForEviction(l, s, r).cache[k].refs # 0
  PROVE  ListsStep(l, MarkForEviction(l, s, r), s, r)
<1>1. CASE r = s
  BY <1>1 DEF ListsStep, MarkForEviction
<1>2. CASE r # s
  <2> DEFINE kn == <<r, "New">>
             ko == <<s, "Old">>
             an == Added(s, r)
             ao == Added(r, s)
             ln == Put(l, kn, an)
             lo == Put(ln, ko, ao)
  <2>1. kn \in Keys /\ ko \in Keys /\ kn # ko
    BY DEF Keys, Identifiers
  <2>2. an \in SUBSET Nodes /\ ao \in SUBSET Nodes
    BY StateAssumption DEF StateAssumption, Added
  <2>3. an # {} /\ ao # {}
    BY <1>2 DEF RootsDiffer
  <2>4. MarkForEviction(l, s, r) = lo
    BY <1>2, <2>3 DEF MarkForEviction, PutIfAny
  <2>5. kn \in ListedKeys(s, r) /\ ko \in ListedKeys(s, r)
    BY <2>3 DEF ListedKeys
  <2>6. ListedHashes(s, r, kn) = an /\ ListedHashes(s, r, ko) = ao
    BY <2>1 DEF ListedHashes
  <2>7. /\ l.cache[kn].refs = 0 \/ l.cache[kn].hashes = an
        /\ l.cache[ko].refs = 0 \/ l.cache[ko].hashes = ao
    BY <1>2, <2>5, <2>6
  <2>8. lo.cache[kn].refs # 0 /\ lo.cache[ko].refs # 0
    BY <1>2, <2>4, <2>5
  <2> HIDE DEF kn, ko, an, ao
  <2>9. ln \in Lists
    BY <2>1, <2>2, PutHasType
  <2>10. \A k \in Keys : EmptyList.cache[k].refs = 0 /\ EmptyList.cache[k] = NoEntry
    BY DEF EmptyList, NoEntry
  <2> HIDE DEF ln
  <2>11. lo = Filled(ln, ko, ao)
    BY <2>1, <2>8, <2>10 DEF Put
  <2> HIDE DEF lo
  <2>12. ln.cache[ko] = l.cache[ko] \/ ln = EmptyList
    <3>1. ln = Filled(l, kn, an) \/ ln = EmptyList
      BY DEF ln, Put
    <3> QED
      BY <3>1, <2>1, <2>2, <2>7, FilledEntries
  <2>13. ln.cache[ko].refs = 0 \/ ln.cache[ko].hashes = ao
    BY <2>1, <2>7, <2>10, <2>12
  <2>14. /\ lo.cache[ko].refs = ln.cache[ko].refs + 1
         /\ lo.cache[ko].hashes = ao
         /\ \A k \in Keys : k # ko => lo.cache[k] = ln.cache[k]
    BY <2>1, <2>2, <2>9, <2>11, <2>13, FilledEntries
  <2>15. ln = Filled(l, kn, an)
    <3>1. ln.cache[kn].refs # 0
      BY <2>1, <2>8, <2>14
    <3> QED
      BY <3>1, <2>1, <2>10 DEF ln, Put
  <2>16. /\ ln.cache[kn].refs = l.cache[kn].refs + 1
         /\ ln.cache[kn].hashes = an
         /\ \A k \in Keys : k # kn => ln.cache[k] = l.cache[k]
    BY <2>1, <2>2, <2>7, <2>15, FilledEntries
  <2>17. ASSUME NEW k \in Keys
         PROVE  IF k = kn /\ r # s
                THEN lo.cache[k].refs = l.cache[k].refs + 1 /\ lo.cache[k].hashes = an
                ELSE IF k = ko /\ r # s
                THEN lo.cache[k].refs = l.cache[k].refs + 1 /\ lo.cache[k].hashes = ao
                ELSE lo.cache[k] = l.cache[k]
    BY <1>2, <2>1, <2>14, <2>16
  <2>18. ListsStep(l, lo, s, r)
    BY <2>17 DEF ListsStep, kn, ko, an, ao
  <2> QED
    BY <2>4, <2>18 DEF lo, ln, kn, ko, an, ao
<1> QED
  BY <1>1, <1>2
-----------------------------------------------------------------------------
(* The invariant *)

(* What the buffer keeps to prune became obsolete: the nodes of a rolled   *)
(* back block are given up at once while pruning is blocked.               *)
BufferedAreOld ==
  \A i \in 1 .. Len(buffer) : buffer[i].call = "prune" => buffer[i].key[2] = "Old"

(* The calls that left the buffer are made before any other.               *)
ResolvedFirst ==
  \A i \in 1 .. Len(todo) :
    todo[i].call \notin Unresolved =>
      buffer = <<>> /\ \A j \in 1 .. i : todo[j].call \notin Unresolved

ReferencesArePaid == Paid(States, FinalAt, list, Waiting)

StatesInOrder == Contiguous(States)

TargetsStored == \A y \in FinalAt .. Len(chain) : NodesOf[States[y]] \subseteq StoredSince(0)

PInv ==
  /\ IInv
  /\ StatesInOrder /\ BufferedAreOld /\ ResolvedFirst
  /\ emptied \/ (ReferencesArePaid /\ TargetsStored)

(* What the invariant rests on, beside the specification: a state and the  *)
(* next one have different root nodes, and a key that is still listed is   *)
(* only listed again with the same hashes.                                 *)
HashesIdentify == RootsDiffer /\ ~ PutsMayDiffer

\* The invariant after a step, from the values the step leaves.
LEMMA PInvPrimed ==
  ASSUME NEW c, NEW f, NEW q, c = States', f = FinalAt', q = Waiting'
  PROVE  /\ Paid(c, f, list', q) => ReferencesArePaid'
         /\ Contiguous(c) => StatesInOrder'
BY DEF ReferencesArePaid, StatesInOrder
\* What AddToBuffer leaves in the buffer.
LEMMA BufferElements ==
  ASSUME NEW b \in Seq(Buffered), Len(b) <= PruningBufferLen, NEW rec \in Buffered
  PROVE  \A i \in 1 .. Len(AddToBuffer(b, rec)) :
           \/ AddToBuffer(b, rec)[i] = rec
           \/ \E j \in 1 .. Len(b) : AddToBuffer(b, rec)[i] = b[j]
<1>1. Len(b) \in Nat /\ PruningBufferLen \in Nat
  BY ListAssumption DEF ListAssumption
<1>2. CASE PruningBufferLen = 0
  BY <1>2 DEF AddToBuffer
<1>3. CASE PruningBufferLen # 0 /\ Len(b) = PruningBufferLen
  <2> DEFINE a == Append(Tail(b), rec)
  <2>1. AddToBuffer(b, rec) = a /\ Len(b) >= 1
    BY <1>1, <1>3 DEF AddToBuffer
  <2>2. Len(a) = Len(b) /\ a[Len(b)] = rec /\ \A i \in 1 .. Len(b) - 1 : a[i] = b[i + 1]
    BY <1>1, <2>1
  <2> HIDE DEF a
  <2>3. ASSUME NEW i \in 1 .. Len(b)
        PROVE  a[i] = rec \/ \E j \in 1 .. Len(b) : a[i] = b[j]
    <3>1. CASE i = Len(b)
      BY <3>1, <2>2
    <3>2. CASE i # Len(b)
      <4>1. i \in 1 .. Len(b) - 1 /\ i + 1 \in 1 .. Len(b)
        BY <3>2, <1>1
      <4> QED
        BY <4>1, <2>2
    <3> QED
      BY <3>1, <3>2
  <2> QED
    BY <2>1, <2>2, <2>3
<1>4. CASE PruningBufferLen # 0 /\ Len(b) # PruningBufferLen
  <2> DEFINE a == Append(b, rec)
  <2>1. AddToBuffer(b, rec) = a
    BY <1>4 DEF AddToBuffer
  <2>2. Len(a) = Len(b) + 1 /\ a[Len(b) + 1] = rec /\ \A i \in 1 .. Len(b) : a[i] = b[i]
    BY <1>1
  <2> HIDE DEF a
  <2>3. ASSUME NEW i \in 1 .. Len(b) + 1
        PROVE  a[i] = rec \/ \E j \in 1 .. Len(b) : a[i] = b[j]
    <3>1. CASE i = Len(b) + 1
      BY <3>1, <2>2
    <3>2. CASE i # Len(b) + 1
      <4>1. i \in 1 .. Len(b)
        BY <3>2, <1>1
      <4> QED
        BY <4>1, <2>2
    <3> QED
      BY <3>1, <3>2
  <2> QED
    BY <2>1, <2>2, <2>3
<1> QED
  BY <1>2, <1>3, <1>4

\* The invariant in its parts, as the steps use them.
LEMMA PInvParts ==
  ASSUME PInv
  PROVE  /\ IInv /\ TypeOK /\ Contiguous(States) /\ BufferedAreOld /\ ResolvedFirst
         /\ States \in Seq(Roots) /\ Len(States) = Len(chain) /\ FinalAt \in 1 .. Len(States)
         /\ list \in Lists /\ Tidy(list)
         /\ buffer \in Seq(Buffered) /\ Len(buffer) <= PruningBufferLen /\ todo \in Seq(Calls)
         /\ Waiting \in Seq(WaitingCalls) /\ Len(Waiting) = Len(buffer) + Len(todo)
         /\ ~ emptied => Paid(States, FinalAt, list, Waiting) /\ TargetsStored
<1>1. IInv /\ StatesInOrder /\ BufferedAreOld /\ ResolvedFirst
  BY DEF PInv
<1>2. /\ list \in Lists /\ Tidy(list) /\ buffer \in Seq(Buffered)
      /\ Len(buffer) <= PruningBufferLen /\ todo \in Seq(Calls) /\ TypeOK
  BY <1>1, IInvParts DEF TypeOfPruning
<1>3. Waiting \in Seq(WaitingCalls) /\ Len(Waiting) = Len(buffer) + Len(todo)
  BY <1>2, PendingFacts DEF Waiting
<1>4. States \in Seq(Roots) /\ Len(States) = Len(chain) /\ FinalAt \in 1 .. Len(States)
  BY <1>2, StatesFacts
<1>5. ~ emptied => ReferencesArePaid /\ TargetsStored
  BY DEF PInv
<1> QED
  BY <1>1, <1>2, <1>3, <1>4, <1>5 DEF StatesInOrder, ReferencesArePaid

\* A step that leaves the chain alone leaves its states alone.
LEMMA SameChain ==
  ASSUME UNCHANGED <<chain, final>>
  PROVE  States' = States /\ FinalAt' = FinalAt
BY DEF States, FinalAt

\* What is stored stays so while nothing leaves a DB.
LEMMA StoredStays ==
  ASSUME UNCHANGED <<chain, final>>, \A x \in Epochs : db[x] \subseteq db'[x], TargetsStored
  PROVE  TargetsStored'
<1>1. StoredSince(0) \subseteq StoredSince(0)'
  BY DEF StoredSince
<1> QED
  BY <1>1, SameChain DEF TargetsStored

\* The snapshot worker, the marker goroutines and the iterators.
LEMMA OthersKeepPInv ==
  ASSUME PInv, IInv', UNCHANGED <<chain, final, list, buffer, todo, emptied>>,
         \A x \in Epochs : db[x] \subseteq db'[x]
  PROVE  PInv'
<1>1. States' = States /\ FinalAt' = FinalAt /\ Waiting' = Waiting
  BY SameChain DEF Waiting
<1>2. StatesInOrder' /\ BufferedAreOld' /\ ResolvedFirst'
  BY <1>1, PInvParts, PInvPrimed DEF BufferedAreOld, ResolvedFirst
<1>3. ASSUME ~ emptied
      PROVE  ReferencesArePaid' /\ TargetsStored'
  BY <1>1, <1>3, PInvParts, PInvPrimed, StoredStays
<1> QED
  BY <1>2, <1>3, Zenon DEF PInv

\* The first call is made, put in the buffer or dropped.
LEMMA CallKeepsPInv ==
  ASSUME PInv, IInv', todo # <<>>, todo' = Tail(todo), UNCHANGED <<chain, final, emptied>>,
         \/ /\ list' = Evict(list, Head(todo).key) /\ buffer' = buffer
            /\ \/ buffer = <<>>
               \/ /\ Head(todo).call = "PruneTrie" /\ Head(todo).key[2] = "New"
         \/ /\ list' = list /\ Head(todo).call \in Unresolved
            /\ \E rec \in Buffered :
                 /\ buffer' = AddToBuffer(buffer, rec)
                 /\ Awaited(rec) = Awaited(Head(todo))
                 /\ rec.call = "prune" => rec.key[2] = "Old",
         ~ emptied => TargetsStored'
  PROVE  PInv'
<1> DEFINE c == States
           f == FinalAt
           q == Waiting
           p == Pending(buffer', Tail(todo))
           B == Len(buffer)
<1>1. /\ c \in Seq(Roots) /\ f \in 1 .. Len(c) /\ list \in Lists
      /\ buffer \in Seq(Buffered) /\ B <= PruningBufferLen /\ todo \in Seq(Calls)
      /\ q \in Seq(WaitingCalls) /\ Len(q) = B + Len(todo)
      /\ ~ emptied => Paid(c, f, list, q)
  BY PInvParts
<1>2. /\ Tail(todo) \in Seq(Calls) /\ Len(Tail(todo)) = Len(todo) - 1 /\ Len(todo) >= 1
      /\ Len(todo) \in Nat /\ Head(todo) = todo[1] /\ Head(todo) \in Calls
      /\ \A i \in 1 .. Len(todo) - 1 : Tail(todo)[i] = todo[i + 1]
  BY <1>1
<1>3. buffer' \in Seq(Buffered)
  BY TypeOKIsItsParts DEF IInv, TypeOK
<1>4. States' = c /\ FinalAt' = f /\ Waiting' = p
  BY SameChain DEF Waiting
<1>5. p \in Seq(WaitingCalls)
  BY <1>2, <1>3, PendingFacts
<1>6. StatesInOrder'
  BY <1>4, PInvParts, PInvPrimed
<1>7. /\ B + 1 \in 1 .. Len(q) /\ q[B + 1] = Awaited(Head(todo))
      /\ Without(Pending(buffer, Tail(todo)), q, B + 1)
  BY <1>1, PendingTail DEF Waiting
<1>8. 1 \in 1 .. Len(q)
  BY <1>1, <1>2
<1>9. ASSUME ~ emptied
      PROVE  ReferencesArePaid'
  <2> HIDE DEF c, f, q, p
  <2>1. CASE /\ list' = Evict(list, Head(todo).key) /\ buffer' = buffer
             /\ \/ buffer = <<>>
                \/ /\ Head(todo).call = "PruneTrie" /\ Head(todo).key[2] = "New"
    <3>1. Without(p, q, B + 1)
      BY <2>1, <1>7 DEF p
    <3>2. list' = Evict(list, q[B + 1].key)
      BY <2>1, <1>7 DEF Awaited
    <3>3. B + 1 = 1 \/ (q[B + 1].prunes /\ q[B + 1].key[2] = "New")
      <4>1. CASE buffer = <<>>
        BY <4>1
      <4>2. CASE Head(todo).call = "PruneTrie" /\ Head(todo).key[2] = "New"
        <5>1. Awaited(Head(todo)).prunes = TRUE /\ Awaited(Head(todo)).key = Head(todo).key
          BY <4>2 DEF Awaited
        <5> QED
          BY <4>2, <5>1, <1>7
      <4> QED
        BY <4>1, <4>2, <2>1
    <3>4. Paid(c, f, list', p)
      <4> DEFINE j == B + 1
      <4>1. j \in 1 .. Len(q) /\ Without(p, q, j) /\ Paid(c, f, list, q)
            /\ (j = 1 \/ (q[j].prunes /\ q[j].key[2] = "New"))
        BY <3>1, <3>3, <1>1, <1>7, <1>9
      <4>2. list' = Evict(list, q[j].key)
        BY <3>2
      <4> HIDE DEF j
      <4>3. ASSUME NEW v, v = Evict(list, q[j].key)
            PROVE  Paid(c, f, v, p)
        <5>1. /\ c \in Seq(Roots) /\ f \in 1 .. Len(c) /\ list \in Lists
              /\ q \in Seq(WaitingCalls) /\ p \in Seq(WaitingCalls)
          BY <1>1, <1>5
        <5>2. v = list \/ v = Evict(list, q[j].key)
          BY <4>3
        <5> QED
          BY ONLY <5>1, <5>2, <4>1, PaidWithout, Zenon
      <4> QED
        BY <4>2, <4>3
    <3> QED
      BY <3>4, <1>4, PInvPrimed
  <2>2. CASE /\ list' = list
             /\ \E rec \in Buffered :
                  /\ buffer' = AddToBuffer(buffer, rec)
                  /\ Awaited(rec) = Awaited(Head(todo))
    <3>1. PICK rec \in Buffered :
            buffer' = AddToBuffer(buffer, rec) /\ Awaited(rec) = Awaited(Head(todo))
      BY <2>2
    <3>2. p = q \/ Without(p, q, 1)
      BY <3>1, <1>1, PendingBuffered DEF p, q, Waiting
    <3>3. CASE p = q
      BY <3>3, <2>2, <1>1, <1>4, <1>9, PInvPrimed
    <3>4. CASE Without(p, q, 1)
      <4>1. Paid(c, f, list', p)
        BY <3>4, <2>2, <1>1, <1>5, <1>8, <1>9, PaidWithout
      <4> QED
        BY <4>1, <1>4, PInvPrimed
    <3> QED
      BY <3>2, <3>3, <3>4
  <2> QED
    BY <2>1, <2>2
<1>10. BufferedAreOld'
  <2>1. \A i \in 1 .. B : buffer[i].call = "prune" => buffer[i].key[2] = "Old"
    BY PInvParts DEF BufferedAreOld
  <2>2. CASE buffer' = buffer
    BY <2>1, <2>2 DEF BufferedAreOld
  <2>3. CASE \E rec \in Buffered :
               /\ buffer' = AddToBuffer(buffer, rec)
               /\ rec.call = "prune" => rec.key[2] = "Old"
    <3>1. PICK rec \in Buffered :
            buffer' = AddToBuffer(buffer, rec) /\ (rec.call = "prune" => rec.key[2] = "Old")
      BY <2>3
    <3>2. \A i \in 1 .. Len(buffer') :
            buffer'[i] = rec \/ \E j \in 1 .. B : buffer'[i] = buffer[j]
      BY <3>1, <1>1, BufferElements
    <3> QED
      BY <3>1, <3>2, <2>1 DEF BufferedAreOld
  <2> QED
    BY <2>2, <2>3
<1>11. ResolvedFirst'
  <2>1. \A i \in 1 .. Len(todo) :
          todo[i].call \notin Unresolved =>
            buffer = <<>> /\ \A j \in 1 .. i : todo[j].call \notin Unresolved
    BY PInvParts DEF ResolvedFirst
  <2> SUFFICES ASSUME NEW i \in 1 .. Len(todo'), todo'[i].call \notin Unresolved
               PROVE  buffer' = <<>> /\ \A j \in 1 .. i : todo'[j].call \notin Unresolved
    BY DEF ResolvedFirst
  <2>2. i \in 1 .. Len(todo) - 1 /\ i + 1 \in 1 .. Len(todo) /\ todo'[i] = todo[i + 1]
        /\ i \in Nat
    BY <1>2
  <2>3. buffer = <<>> /\ \A j \in 1 .. i + 1 : todo[j].call \notin Unresolved
    BY <2>1, <2>2
  <2>4. ASSUME NEW j \in 1 .. i
        PROVE  todo'[j].call \notin Unresolved
    <3>1. j \in 1 .. Len(todo) - 1 /\ j + 1 \in 1 .. i + 1
      BY <2>2, <1>2
    <3> QED
      BY <3>1, <2>3, <1>2
  <2>5. Head(todo).call \notin Unresolved
    <3>1. 1 \in 1 .. i + 1
      BY <2>2
    <3> QED
      BY <3>1, <2>3, <1>2
  <2>6. buffer' = <<>>
    BY <2>3, <2>5
  <2> QED
    BY <2>4, <2>6
<1> QED
  BY <1>6, <1>9, <1>10, <1>11, Zenon DEF PInv
\* The first call of todo is of this kind, and what making it leaves alone.
LEMMA CallFrame ==
  ASSUME PInv, NEW call, NextCall(call), UNCHANGED unchangedByPruning
  PROVE  /\ todo # <<>> /\ Head(todo).call = call /\ Head(todo) \in Calls
         /\ Head(todo).key \in Keys /\ Head(todo).key[2] \in {"Old", "New"}
         /\ UNCHANGED <<chain, final, emptied>> /\ epoch' = epoch
         /\ call \notin Unresolved => buffer = <<>>
<1>1. todo # <<>> /\ Head(todo).call = call /\ todo \in Seq(Calls)
  BY PInvParts DEF NextCall
<1>2. Head(todo) \in Calls /\ Head(todo) = todo[1] /\ 1 \in 1 .. Len(todo)
  BY <1>1
<1>3. Head(todo).key \in Keys
  BY <1>2 DEF Calls
<1>4. Head(todo).key[2] \in {"Old", "New"}
  BY <1>3 DEF Keys, Identifiers
<1>5. UNCHANGED <<chain, final, emptied>> /\ epoch' = epoch
  BY DEF unchangedByPruning, chainVars
<1>6. call \notin Unresolved => buffer = <<>>
  BY <1>1, <1>2, PInvParts DEF ResolvedFirst
<1> QED
  BY <1>1, <1>2, <1>3, <1>4, <1>5, <1>6

\* The first call is put in the buffer as this record.
LEMMA RecordOf ==
  ASSUME NEW c \in Calls, NEW call, \/ c.call = "CancelPrune" /\ call = "cancelPrune"
                                    \/ c.call = "PruneTrie" /\ call = "prune"
  PROVE  /\ [call |-> call, key |-> c.key] \in Buffered
         /\ Awaited([call |-> call, key |-> c.key]) = Awaited(c)
<1> DEFINE rec == [call |-> call, key |-> c.key]
<1>1. c.key \in Keys /\ call \in {"prune", "cancelPrune"}
  BY DEF Calls
<1>2. rec \in Buffered
  BY <1>1 DEF Buffered
<1>3. rec.key = c.key /\ rec.call = call
  OBVIOUS
<1>4. (rec.call \in {"prune", "PruneTrie"}) = (c.call \in {"prune", "PruneTrie"})
  BY <1>3
<1> HIDE DEF rec
<1>5. Awaited(rec) = Awaited(c)
  BY ONLY <1>3, <1>4, Zenon DEF Awaited
<1> QED
  BY <1>2, <1>5 DEF rec

LEMMA CancelPruneKeepsPInv ==
  ASSUME PInv, CancelPrune
  PROVE  PInv'
<1>1. /\ NextCall("CancelPrune") /\ todo' = Tail(todo) /\ db' = db
      /\ UNCHANGED unchangedByPruning
  BY DEF CancelPrune
<1>2. /\ todo # <<>> /\ Head(todo).call = "CancelPrune" /\ Head(todo) \in Calls
      /\ UNCHANGED <<chain, final, emptied>>
  BY <1>1, CallFrame
<1>3. IInv'
  BY PInvParts, CancelPruneKeepsIInv
<1>4. ~ emptied => TargetsStored'
  BY <1>1, <1>2, PInvParts, StoredStays
<1>5. CASE IsPruningBlocked \/ Len(buffer) # 0
  <2> DEFINE rec == [call |-> "cancelPrune", key |-> Head(todo).key]
  <2>1. buffer' = AddToBuffer(buffer, rec) /\ list' = list
    BY <1>5 DEF CancelPrune
  <2>2. rec \in Buffered /\ Awaited(rec) = Awaited(Head(todo)) /\ rec.call # "prune"
    BY <1>2, RecordOf
  <2>3. Head(todo).call \in Unresolved
    BY <1>2 DEF Unresolved
  <2> HIDE DEF rec
  <2> QED
    BY <2>1, <2>2, <2>3, <1>1, <1>2, <1>3, <1>4, CallKeepsPInv
<1>6. CASE ~ (IsPruningBlocked \/ Len(buffer) # 0)
  <2>1. buffer' = buffer /\ list' = Evict(list, Head(todo).key)
    BY <1>6 DEF CancelPrune
  <2>2. buffer = <<>>
    BY <1>6, PInvParts
  <2> QED
    BY <2>1, <2>2, <1>1, <1>2, <1>3, <1>4, CallKeepsPInv
<1> QED
  BY <1>5, <1>6

LEMMA cancelPruneKeepsPInv ==
  ASSUME PInv, cancelPrune
  PROVE  PInv'
<1>1. /\ NextCall("cancelPrune") /\ todo' = Tail(todo) /\ db' = db
      /\ UNCHANGED unchangedByPruning
      /\ list' = Evict(list, Head(todo).key) /\ buffer' = buffer
  BY DEF cancelPrune
<1>2. /\ todo # <<>> /\ UNCHANGED <<chain, final, emptied>>
      /\ "cancelPrune" \notin Unresolved => buffer = <<>>
  BY <1>1, CallFrame
<1>3. IInv'
  BY PInvParts, cancelPruneKeepsIInv
<1>4. ~ emptied => TargetsStored'
  BY <1>1, <1>2, PInvParts, StoredStays
<1>5. buffer = <<>>
  BY <1>2 DEF Unresolved
<1> QED
  BY <1>1, <1>2, <1>3, <1>4, <1>5, CallKeepsPInv

\* What prune removes is in none of the states a rollback may return to.
LEMMA pruneKeepsPInv ==
  ASSUME HashesIdentify, PInv, prune
  PROVE  PInv'
<1> DEFINE key == Head(todo).key
           evicted == Evict(list, key)
           removed == {h \in EvictedHashes(list, key) : ~ ShouldKeepHash(evicted, h, key[2])}
<1>1. /\ NextCall("prune") /\ todo' = Tail(todo)
      /\ UNCHANGED unchangedByPruning
      /\ list' = Evict(list, Head(todo).key) /\ buffer' = buffer
      /\ db' \in {db, [db EXCEPT ![epoch] = @ \ removed]}
  BY DEF prune
<1>2. /\ todo # <<>> /\ UNCHANGED <<chain, final, emptied>> /\ Head(todo).call = "prune"
      /\ "prune" \notin Unresolved => buffer = <<>>
  BY <1>1, CallFrame
<1>3. IInv'
  BY PInvParts, pruneKeepsIInv
<1>4. buffer = <<>>
  BY <1>2 DEF Unresolved
<1>5. ASSUME ~ emptied
      PROVE  TargetsStored'
  <2>1. /\ States \in Seq(Roots) /\ FinalAt \in 1 .. Len(States) /\ Len(States) = Len(chain)
        /\ list \in Lists /\ Tidy(list) /\ Waiting \in Seq(WaitingCalls)
        /\ Paid(States, FinalAt, list, Waiting) /\ TargetsStored
    BY <1>5, PInvParts
  <2>2. IsInverse(list)
    BY PInvParts, IInvParts DEF HashesIdentify
  <2>3. Len(Waiting) >= 1 /\ Waiting[1].prunes /\ Waiting[1].key = key
    <3>1. Len(buffer) + 1 = 1 /\ buffer \in Seq(Buffered) /\ todo \in Seq(Calls)
      BY <1>4, PInvParts
    <3>2. 1 \in 1 .. Len(Waiting) /\ Waiting[1] = Awaited(Head(todo))
      BY <3>1, <1>2, PendingTail DEF Waiting
    <3>3. Awaited(Head(todo)).prunes = TRUE /\ Awaited(Head(todo)).key = key
      BY <1>2 DEF Awaited
    <3>4. Len(Waiting) \in Nat
      BY <2>1
    <3> QED
      BY <3>2, <3>3, <3>4
  <2>4. db \in [Epochs -> SUBSET Nodes]
    BY PInvParts DEF TypeOK
  <2>5. ASSUME NEW y \in FinalAt .. Len(chain), NEW h \in NodesOf[States[y]]
        PROVE  h \in StoredSince(0)'
    <3>1. h \notin removed
      <4> SUFFICES ASSUME h \in EvictedHashes(list, key)
                   PROVE  ShouldKeepHash(evicted, h, key[2])
        OBVIOUS
      <4> HIDE DEF key
      <4> QED
        BY <2>1, <2>2, <2>3, <2>5, TargetsAreKept
    <3>2. PICK x \in Epochs : x >= 0 /\ h \in db[x]
      BY <2>1 DEF TargetsStored, StoredSince
    <3> HIDE DEF removed
    <3>3. h \in db'[x]
      BY <1>1, <2>4, <3>1, <3>2
    <3> QED
      BY <3>2, <3>3 DEF StoredSince
  <2>6. States' = States /\ FinalAt' = FinalAt /\ Len(chain') = Len(chain)
    BY <1>2, SameChain
  <2> QED
    BY <2>5, <2>6 DEF TargetsStored
<1> QED
  BY <1>1, <1>2, <1>3, <1>4, <1>5, CallKeepsPInv
LEMMA PruneTrieKeepsPInv ==
  ASSUME PInv, PruneTrie
  PROVE  PInv'
<1> DEFINE c == Head(todo)
           resolved == [i \in 1 .. Len(buffer) |->
                          [call |-> buffer[i].call, key |-> buffer[i].key, on |-> c.on]]
           this == [c EXCEPT !.call = "prune"]
<1>1. NextCall("PruneTrie") /\ UNCHANGED unchangedByPruning /\ db' = db
  BY DEF PruneTrie
<1>2. /\ todo # <<>> /\ c.call = "PruneTrie" /\ c \in Calls /\ c.key[2] \in {"Old", "New"}
      /\ UNCHANGED <<chain, final, emptied>>
  BY <1>1, CallFrame
<1>3. IInv'
  BY PInvParts, PruneTrieKeepsIInv
<1>4. ~ emptied => TargetsStored'
  BY <1>1, <1>2, PInvParts, StoredStays
<1>5. CASE IsPruningBlocked /\ c.key[2] = "New"
  <2>1. list' = Evict(list, c.key) /\ todo' = Tail(todo) /\ buffer' = buffer
    BY <1>5 DEF PruneTrie
  <2> QED
    BY <2>1, <1>2, <1>3, <1>4, <1>5, CallKeepsPInv
<1>6. CASE IsPruningBlocked /\ c.key[2] = "Old"
  <2> DEFINE rec == [call |-> "prune", key |-> c.key]
  <2>1. buffer' = AddToBuffer(buffer, rec) /\ todo' = Tail(todo) /\ list' = list
    BY <1>6 DEF PruneTrie
  <2>2. rec \in Buffered /\ Awaited(rec) = Awaited(c) /\ rec.key[2] = "Old"
    BY <1>2, <1>6, RecordOf
  <2>3. c.call \in Unresolved
    BY <1>2 DEF Unresolved
  <2> HIDE DEF rec
  <2> QED
    BY <2>1, <2>2, <2>3, <1>2, <1>3, <1>4, CallKeepsPInv
<1>7. CASE ~ IsPruningBlocked
  <2>1. todo' = resolved \o <<this>> \o Tail(todo) /\ buffer' = <<>> /\ list' = list
    BY <1>7 DEF PruneTrie
  <2>2. buffer \in Seq(Buffered) /\ todo \in Seq(Calls)
    BY PInvParts
  <2>3. /\ Len(buffer) \in Nat /\ \A i \in 1 .. Len(buffer) : buffer[i] \in Buffered
        /\ Tail(todo) \in Seq(Calls) /\ Len(todo) \in Nat /\ Len(todo) >= 1
        /\ Len(Tail(todo)) = Len(todo) - 1 /\ c = todo[1]
        /\ \A i \in 1 .. Len(todo) - 1 : Tail(todo)[i] = todo[i + 1]
    BY <1>2, <2>2
  <2>4. this \in Calls /\ this.call = "prune" /\ this.key = c.key
    BY <1>2 DEF Calls
  <2>5. /\ resolved \in Seq(Calls) /\ Len(resolved) = Len(buffer)
        /\ \A i \in 1 .. Len(buffer) :
             resolved[i].call = buffer[i].call /\ resolved[i].key = buffer[i].key
    <3>1. c.on \in BOOLEAN
      BY <1>2 DEF Calls
    <3>2. \A i \in 1 .. Len(buffer) :
            [call |-> buffer[i].call, key |-> buffer[i].key, on |-> c.on] \in Calls
      BY <2>3, <3>1 DEF Buffered, Calls
    <3> HIDE DEF c
    <3> QED
      BY <2>3, <3>2
  <2> HIDE DEF resolved, this
  <2>6. Waiting' = Waiting
    <3>1. Pending(<<>>, resolved \o <<this>> \o Tail(todo)) = Pending(buffer, todo)
      BY <1>2, <2>2, <2>4, <2>5, PendingResolved
    <3> QED
      BY <2>1, <3>1 DEF Waiting
  <2>7. States' = States /\ FinalAt' = FinalAt
    BY <1>2, SameChain
  <2>8. StatesInOrder' /\ (~ emptied => ReferencesArePaid')
    BY <2>1, <2>6, <2>7, PInvParts, PInvPrimed
  <2>9. BufferedAreOld'
    BY <2>1 DEF BufferedAreOld
  <2>10. \A i \in 1 .. Len(todo) : todo[i].call \in Unresolved
    <3> SUFFICES ASSUME NEW i \in 1 .. Len(todo), todo[i].call \notin Unresolved
                 PROVE  FALSE
      OBVIOUS
    <3>1. 1 \in 1 .. i
      BY <2>3
    <3>2. todo[1].call \notin Unresolved
      BY <3>1, PInvParts DEF ResolvedFirst
    <3> QED
      BY <3>2, <1>2, <2>3 DEF Unresolved
  <2>11. ResolvedFirst'
    <3> DEFINE B == Len(buffer)
               x == resolved \o <<this>>
    <3>1. /\ x \in Seq(Calls) /\ Len(x) = B + 1
          /\ \A j \in 1 .. B + 1 : x[j].call \notin Unresolved
      <4> DEFINE y == <<this>>
      <4>1. y \in Seq(Calls) /\ Len(y) = 1 /\ \A j \in 1 .. 1 : y[j] = this
        BY <2>4
      <4> HIDE DEF y
      <4>2. /\ resolved \o y \in Seq(Calls) /\ Len(resolved \o y) = B + 1
            /\ \A j \in 1 .. B : (resolved \o y)[j] = resolved[j]
            /\ \A j \in 1 .. 1 : (resolved \o y)[B + j] = y[j]
        <5>1. /\ resolved \o y \in Seq(Calls) /\ Len(resolved \o y) = Len(resolved) + Len(y)
              /\ \A j \in 1 .. Len(resolved) : (resolved \o y)[j] = resolved[j]
              /\ \A j \in 1 .. Len(y) : (resolved \o y)[Len(resolved) + j] = y[j]
          BY <4>1, <2>5, ConcatFacts
        <5>2. Len(resolved) = B /\ Len(y) = 1
          BY <4>1, <2>5
        <5> HIDE DEF B
        <5> QED
          BY ONLY <5>1, <5>2
      <4>3. x = resolved \o y
        BY DEF y
      <4> HIDE DEF x
      <4>4. ASSUME NEW j \in 1 .. B + 1
            PROVE  x[j].call \notin Unresolved
        <5>1. CASE j = B + 1
          <6>1. 1 \in 1 .. 1
            OBVIOUS
          <6>2. x[B + 1] = this
            BY <6>1, <4>1, <4>2, <4>3
          <6> QED
            BY <6>2, <5>1, <2>4 DEF Unresolved
        <5>2. CASE j # B + 1
          <6>1. j \in 1 .. B
            BY <5>2, <2>3
          <6>2. x[j].call = buffer[j].call
            BY <6>1, <4>2, <4>3, <2>5
          <6>3. buffer[j].call \in {"prune", "cancelPrune"}
            BY <6>1, <2>3 DEF Buffered
          <6> QED
            BY <6>2, <6>3 DEF Unresolved
        <5> QED
          BY <5>1, <5>2
      <4> QED
        BY <4>2, <4>3, <4>4
    <3> DEFINE z == Tail(todo)
    <3>2. todo' = x \o z /\ z \in Seq(Calls) /\ Len(z) = Len(todo) - 1
      BY <2>1, <2>3
    <3>3. \A j \in 1 .. Len(z) : z[j].call \in Unresolved
      <4> SUFFICES ASSUME NEW j \in 1 .. Len(z) PROVE z[j].call \in Unresolved
        OBVIOUS
      <4>1. j \in 1 .. Len(todo) - 1 /\ j + 1 \in 1 .. Len(todo)
        BY <2>3
      <4> QED
        BY <4>1, <2>3, <2>10
    <3> HIDE DEF x, z
    <3>4. /\ Len(todo') = Len(x) + Len(z)
          /\ \A j \in 1 .. Len(x) : todo'[j] = x[j]
          /\ \A j \in 1 .. Len(z) : todo'[Len(x) + j] = z[j]
      BY <3>1, <3>2, ConcatFacts
    <3> SUFFICES ASSUME NEW i \in 1 .. Len(todo'), todo'[i].call \notin Unresolved
                 PROVE  \A j \in 1 .. i : todo'[j].call \notin Unresolved
      BY <2>1 DEF ResolvedFirst
    <3>5. Len(x) \in Nat /\ Len(z) \in Nat /\ Len(x) = B + 1
      BY <3>1, <3>2, <2>3
    <3>6. i <= Len(x)
      <4> SUFFICES ASSUME i > Len(x) PROVE FALSE
        BY <3>5
      <4> DEFINE k == i - Len(x)
      <4>1. k \in 1 .. Len(z) /\ Len(x) + k = i
        BY <3>4, <3>5
      <4> HIDE DEF k
      <4>2. todo'[Len(x) + k] = z[k] /\ z[k].call \in Unresolved
        BY <4>1, <3>3, <3>4
      <4> QED
        BY <4>1, <4>2
    <3>7. \A j \in 1 .. i : j \in 1 .. B + 1 /\ j \in 1 .. Len(x)
      BY <3>5, <3>6
    <3> QED
      BY <3>1, <3>4, <3>7
  <2> QED
    BY <1>2, <1>3, <1>4, <2>8, <2>9, <2>11, Zenon DEF PInv
<1> QED
  BY <1>2, <1>5, <1>6, <1>7
-----------------------------------------------------------------------------
(* The steps of the block processor *)

(* A step without a restart, and without the rollback that gives up an     *)
(* eviction twice: of a block whose predecessor says in its additional     *)
(* data that it did not change the state.                                  *)
Paired ==
  /\ restarts' = restarts
  /\ Len(chain') < Len(chain) =>
       ~ (Scheduled /\ Height - 1 > StartNonce /\ ~ Changes(Height - 1))

\* What waits when the block processor has made its calls is in the buffer.
LEMMA NothingToDo ==
  ASSUME PInv, todo = <<>>
  PROVE  /\ Waiting = Pending(buffer, <<>>) /\ Len(Waiting) = Len(buffer)
         /\ OnlyObsolete(Waiting)
         /\ \A t \in Seq(Calls) :
              /\ Pending(buffer, t) \in Seq(WaitingCalls)
              /\ Len(Pending(buffer, t)) = Len(Waiting) + Len(t)
              /\ \A i \in 1 .. Len(Waiting) : Pending(buffer, t)[i] = Waiting[i]
              /\ \A i \in 1 .. Len(t) : Pending(buffer, t)[Len(Waiting) + i] = Awaited(t[i])
<1>1. buffer \in Seq(Buffered) /\ BufferedAreOld /\ Len(buffer) \in Nat
  BY PInvParts
<1>2. <<>> \in Seq(Calls) /\ Len(<<>>) = 0
  OBVIOUS
<1>3. /\ Waiting = Pending(buffer, <<>>) /\ Len(Waiting) = Len(buffer)
      /\ \A i \in 1 .. Len(buffer) : Waiting[i] = Awaited(buffer[i])
  <2> DEFINE e == <<>>
  <2>1. e \in Seq(Calls) /\ Len(e) = 0 /\ Waiting = Pending(buffer, e)
    BY DEF Waiting
  <2> HIDE DEF e
  <2>2. /\ Len(Pending(buffer, e)) = Len(buffer) + Len(e)
        /\ \A i \in 1 .. Len(buffer) : Pending(buffer, e)[i] = Awaited(buffer[i])
    BY <1>1, <2>1, PendingFacts
  <2>3. /\ Len(Waiting) = Len(buffer)
        /\ \A i \in 1 .. Len(buffer) : Waiting[i] = Awaited(buffer[i])
    BY ONLY <1>1, <2>1, <2>2
  <2> QED
    BY <2>1, <2>3 DEF e
<1>4. OnlyObsolete(Waiting)
  <2> SUFFICES ASSUME NEW i \in 1 .. Len(Waiting), Waiting[i].prunes
               PROVE  Waiting[i].key[2] = "Old"
    BY DEF OnlyObsolete
  <2>1. i \in 1 .. Len(buffer) /\ Waiting[i] = Awaited(buffer[i]) /\ buffer[i] \in Buffered
    BY <1>1, <1>3
  <2>2. buffer[i].call \in {"prune", "PruneTrie"} /\ Waiting[i].key = buffer[i].key
    <3>1. Waiting[i].prunes = (buffer[i].call \in {"prune", "PruneTrie"})
          /\ Waiting[i].key = buffer[i].key
      <4>1. \A call : /\ Awaited(call).prunes = (call.call \in {"prune", "PruneTrie"})
                      /\ Awaited(call).key = call.key
        BY DEF Awaited
      <4> QED
        BY ONLY <2>1, <4>1, Zenon
    <3> QED
      BY <3>1
  <2>3. buffer[i].call = "prune"
    BY <2>1, <2>2 DEF Buffered
  <2> QED
    BY <2>1, <2>2, <2>3, <1>1 DEF BufferedAreOld
<1>5. ASSUME NEW t \in Seq(Calls)
      PROVE  /\ Pending(buffer, t) \in Seq(WaitingCalls)
             /\ Len(Pending(buffer, t)) = Len(Waiting) + Len(t)
             /\ \A i \in 1 .. Len(Waiting) : Pending(buffer, t)[i] = Waiting[i]
             /\ \A i \in 1 .. Len(t) : Pending(buffer, t)[Len(Waiting) + i] = Awaited(t[i])
  <2>1. /\ Pending(buffer, t) \in Seq(WaitingCalls)
        /\ Len(Pending(buffer, t)) = Len(buffer) + Len(t)
        /\ \A i \in 1 .. Len(buffer) : Pending(buffer, t)[i] = Awaited(buffer[i])
        /\ \A i \in 1 .. Len(t) : Pending(buffer, t)[Len(buffer) + i] = Awaited(t[i])
    BY <1>1, PendingFacts
  <2> QED
    BY <2>1, <1>3
<1> QED
  BY <1>3, <1>4, <1>5

\* The part of the invariant about the calls, when all of them are new.
LEMMA NewCalls ==
  ASSUME PInv, buffer' = buffer, \A i \in 1 .. Len(todo') : todo'[i].call \in Unresolved
  PROVE  BufferedAreOld' /\ ResolvedFirst'
BY PInvParts DEF BufferedAreOld, ResolvedFirst

LEMMA RollBackKeepsPInv ==
  ASSUME PInv, RollBackOneBlock, Paired
  PROVE  PInv'
<1> DEFINE L == Len(chain)
           c == States
           d == States'
           giveUp == [call |-> "CancelPrune", key |-> <<RootAt(Height - 1), "Old">>,
                      on |-> FALSE]
           pruneNew == [call |-> "PruneTrie", key |-> <<RootAt(Height), "New">>,
                        on |-> IsPruningEnabled(Height, lastRestartNonce)]
           none == <<>>
           two == <<giveUp, pruneNew>>
<1>1. /\ todo = <<>> /\ Height > final /\ chain' = SubSeq(chain, 1, L - 1)
      /\ UNCHANGED <<final, list, buffer, emptied, db>>
  BY DEF RollBackOneBlock, diskVars
<1>2. /\ TypeOK /\ L \in Nat /\ L >= 1 /\ StartNonce \in Nat /\ Height = StartNonce + L - 1
      /\ final \in Nat /\ StartNonce <= final /\ chain \in Seq(Blocks)
  BY PInvParts, ChainFacts, NumberFacts DEF TypeOK
<1>3. /\ c \in Seq(Roots) /\ Len(c) = L /\ FinalAt \in 1 .. L /\ Contiguous(c)
      /\ \A i \in 1 .. L : c[i] = chain[i].root
      /\ \A i \in 1 .. L : c[i] = RootAt(StartNonce + i - 1)
  BY <1>2, PInvParts, StatesFacts
<1>4. L >= 2 /\ FinalAt \in 1 .. L - 1 /\ FinalAt' = FinalAt
  BY <1>1, <1>2 DEF FinalAt
<1>5. chain' \in Seq(Blocks) /\ Len(chain') = L - 1 /\ \A i \in 1 .. L - 1 : chain'[i] = chain[i]
  BY <1>1, <1>2, <1>4
<1>6. IInv'
  BY PInvParts, RollBackKeepsIInv
<1>7. d \in Seq(Roots) /\ Len(d) = L - 1 /\ \A i \in 1 .. L - 1 : d[i] = c[i]
  <2>1. d = [i \in 1 .. L - 1 |-> chain'[i].root]
    BY <1>5 DEF States
  <2>2. ASSUME NEW i \in 1 .. L - 1
        PROVE  chain'[i].root = c[i] /\ c[i] \in Roots
    <3>1. i \in 1 .. L
      BY <1>2
    <3> HIDE DEF c
    <3> QED
      BY <3>1, <1>3, <1>5
  <2> DEFINE n == L - 1
  <2>3. n \in Nat /\ \A i \in 1 .. n : c[i] \in Roots
    BY <1>2, <1>4, <2>2
  <2>4. d = [i \in 1 .. n |-> c[i]]
    BY <2>1, <2>2
  <2> HIDE DEF c, d, n
  <2>5. d \in Seq(Roots) /\ Len(d) = n /\ \A i \in 1 .. n : d[i] = c[i]
    BY ONLY <2>3, <2>4
  <2> QED
    BY <2>5 DEF n
<1>8. RootAt(Height) = c[L] /\ RootAt(Height - 1) = c[L - 1]
  <2>1. /\ L \in 1 .. L /\ L - 1 \in 1 .. L
        /\ StartNonce + L - 1 = Height /\ StartNonce + (L - 1) - 1 = Height - 1
    BY <1>2, <1>4
  <2> HIDE DEF c
  <2> QED
    BY <2>1, <1>3
<1>9. Changes(Height) <=> c[L] # c[L - 1]
  BY <1>8 DEF Changes
<1>10. \/ c[L] = c[L - 1] /\ todo' = none
       \/ c[L] # c[L - 1] /\ todo' = two
  <2>1. ~ (Scheduled /\ Height - 1 > StartNonce /\ ~ Changes(Height - 1))
    BY <1>2, <1>5 DEF Paired
  <2>2. todo' = none \o (IF Changes(Height) THEN two ELSE none)
    BY <2>1 DEF RollBackOneBlock
  <2>3. CASE Changes(Height)
    <3>1. todo' = none \o two
      BY <2>2, <2>3
    <3>2. none \o two = two
      OBVIOUS
    <3> QED
      BY <3>1, <3>2, <2>3, <1>9
  <2>4. CASE ~ Changes(Height)
    <3>1. todo' = none \o none
      BY <2>2, <2>4
    <3>2. none \o none = none
      OBVIOUS
    <3> QED
      BY <3>1, <3>2, <2>4, <1>9
  <2> QED
    BY <2>3, <2>4
<1>11. /\ none \in Seq(Calls) /\ Len(none) = 0
       /\ two \in Seq(Calls) /\ Len(two) = 2 /\ two[1] = giveUp /\ two[2] = pruneNew
       /\ \A i \in 1 .. 2 : two[i].call \in Unresolved
  <2>1. giveUp \in Calls /\ pruneNew \in Calls
    <3>1. c[L] \in Roots /\ c[L - 1] \in Roots
      BY <1>2, <1>3, <1>4
    <3>2. IsPruningEnabled(Height, lastRestartNonce) \in BOOLEAN
      BY DEF IsPruningEnabled
    <3> QED
      BY <3>1, <3>2, <1>8 DEF Calls, Keys, Identifiers
  <2>2. giveUp.call \in Unresolved /\ pruneNew.call \in Unresolved
    BY DEF Unresolved
  <2> HIDE DEF giveUp, pruneNew
  <2> QED
    BY <2>1, <2>2
<1>12. /\ Awaited(giveUp) = [key |-> <<c[L - 1], "Old">>, prunes |-> FALSE]
       /\ Awaited(pruneNew) = [key |-> <<c[L], "New">>, prunes |-> TRUE]
  <2>1. /\ (giveUp.call \in {"prune", "PruneTrie"}) = FALSE /\ giveUp.key = <<c[L - 1], "Old">>
        /\ (pruneNew.call \in {"prune", "PruneTrie"}) = TRUE /\ pruneNew.key = <<c[L], "New">>
    BY <1>8
  <2> HIDE DEF giveUp, pruneNew
  <2> QED
    BY ONLY <2>1, Zenon DEF Awaited
<1>13. BufferedAreOld' /\ ResolvedFirst'
  <2>1. \A i \in 1 .. Len(todo') : todo'[i].call \in Unresolved
    <3> HIDE DEF two, none
    <3> QED
      BY <1>10, <1>11
  <2> QED
    BY <2>1, <1>1, NewCalls
<1>14. StatesInOrder'
  <2>1. Contiguous(d)
    <3> HIDE DEF c, d
    <3> SUFFICES ASSUME NEW i \in 1 .. Len(d), NEW j \in 1 .. Len(d), NEW x \in 1 .. Len(d),
                        i <= x, x <= j, d[i] = d[j]
                 PROVE  d[x] = d[i]
      BY DEF Contiguous
    <3>0. L \in Nat /\ Len(c) = L /\ Len(d) = L - 1 /\ Contiguous(c)
      BY ONLY <1>2, <1>3, <1>7
    <3>1. i \in 1 .. Len(c) /\ j \in 1 .. Len(c) /\ x \in 1 .. Len(c)
      BY ONLY <3>0
    <3>2. d[i] = c[i] /\ d[j] = c[j] /\ d[x] = c[x]
      BY <1>7
    <3> QED
      BY ONLY <3>0, <3>1, <3>2, i <= x, x <= j, d[i] = d[j] DEF Contiguous
  <2> QED
    BY <2>1, PInvPrimed
<1>15. ASSUME ~ emptied
       PROVE  ReferencesArePaid'
  <2> DEFINE q == Waiting
             p == Pending(buffer, todo')
             f == FinalAt
  <2>1. /\ q \in Seq(WaitingCalls) /\ OnlyObsolete(q) /\ Paid(c, f, list, q) /\ list \in Lists
        /\ Len(q) \in Nat
    BY <1>1, <1>15, PInvParts, NothingToDo
  <2>2. /\ p \in Seq(WaitingCalls) /\ Len(p) = Len(q) + Len(todo')
        /\ \A i \in 1 .. Len(q) : p[i] = q[i]
        /\ \A i \in 1 .. Len(todo') : p[Len(q) + i] = Awaited(todo'[i])
    <3>1. todo' \in Seq(Calls)
      BY <1>10, <1>11
    <3> QED
      BY <3>1, <1>1, NothingToDo
  <2> HIDE DEF c, d, q, p, two, none, giveUp, pruneNew, f
  <2>3. \/ c[L] = c[L - 1] /\ Len(p) = Len(q)
        \/ /\ c[L] # c[L - 1] /\ Len(p) = Len(q) + 2
           /\ p[Len(q) + 1] = [key |-> <<c[L - 1], "Old">>, prunes |-> FALSE]
           /\ p[Len(q) + 2] = [key |-> <<c[L], "New">>, prunes |-> TRUE]
    <3>1. CASE c[L] = c[L - 1]
      BY <3>1, <2>1, <2>2, <1>10, <1>11
    <3>2. CASE c[L] # c[L - 1]
      <4>1. todo' = two /\ Len(todo') = 2 /\ todo'[1] = giveUp /\ todo'[2] = pruneNew
        BY <3>2, <1>10, <1>11
      <4>2. p[Len(q) + 1] = Awaited(giveUp) /\ p[Len(q) + 2] = Awaited(pruneNew)
            /\ Len(p) = Len(q) + 2
        BY <4>1, <2>2
      <4> QED
        BY <4>2, <3>2, <1>12
    <3> QED
      BY <3>1, <3>2
  <2>4. Paid(d, f, list, p)
    <3>1. f \in 1 .. Len(c) - 1
      BY <1>3, <1>4 DEF f
    <3>2. Len(c) = L /\ Len(d) = Len(c) - 1 /\ \A i \in 1 .. Len(d) : d[i] = c[i]
      BY <1>3, <1>7
    <3>3. /\ c \in Seq(Roots) /\ Contiguous(c) /\ list \in Lists /\ q \in Seq(WaitingCalls)
          /\ OnlyObsolete(q) /\ Paid(c, f, list, q) /\ d \in Seq(Roots)
          /\ p \in Seq(WaitingCalls) /\ \A i \in 1 .. Len(q) : p[i] = q[i]
      BY <2>1, <2>2, <1>3, <1>7
    <3>4. \/ c[Len(c)] = c[Len(c) - 1] /\ Len(p) = Len(q)
          \/ /\ c[Len(c)] # c[Len(c) - 1] /\ Len(p) = Len(q) + 2
             /\ p[Len(q) + 1] = [key |-> <<c[Len(c) - 1], "Old">>, prunes |-> FALSE]
             /\ p[Len(q) + 2] = [key |-> <<c[Len(c)], "New">>, prunes |-> TRUE]
      BY <2>3, <3>2, Zenon
    <3> QED
      BY ONLY <3>1, <3>2, <3>3, <3>4, PaidRolledBack, Zenon
  <2> QED
    BY <2>4, <1>1, <1>4, PInvPrimed DEF Waiting, p, f, d
<1>16. ASSUME ~ emptied
       PROVE  TargetsStored'
  <2>1. \A y \in FinalAt .. L : NodesOf[c[y]] \subseteq StoredSince(0)
    BY <1>16, PInvParts DEF TargetsStored
  <2>2. StoredSince(0)' = StoredSince(0)
    BY <1>1 DEF StoredSince
  <2> SUFFICES ASSUME NEW y \in FinalAt .. L - 1
               PROVE  NodesOf[d[y]] \subseteq StoredSince(0)
    BY <2>2, <1>4, <1>5 DEF TargetsStored
  <2>3. y \in FinalAt .. L /\ y \in 1 .. L - 1
    BY <1>2, <1>4
  <2>4. d[y] = c[y]
    BY <2>3, <1>7
  <2> HIDE DEF c, d
  <2> QED
    BY <2>1, <2>3, <2>4
<1> QED
  BY <1>1, <1>6, <1>13, <1>14, <1>15, <1>16, Zenon DEF PInv
LEMMA CommitBlockKeepsPInv ==
  ASSUME HashesIdentify, PInv, NEW root \in Roots, NEW start \in BOOLEAN,
         NEW withMeta \in BOOLEAN, NEW n \in final .. Height, NEW m \in final .. n,
         NEW g \in final .. n, CommitBlock(root, start, withMeta, g, n, m)
  PROVE  PInv'
<1> DEFINE L == Len(chain)
           c == States
           d == States'
           s == c[L]
           f == FinalAt
           restartNonce == IF lastRestartNonce = 0 THEN Height + 1 ELSE lastRestartNonce
           last == chain[L]
<1>1. PICK block, putEpoch :
        /\ todo = <<>> /\ MayFollow(root)
        /\ block.root = root /\ chain' = Append(chain, block)
        /\ db' = [db EXCEPT ![putEpoch] = @ \cup Added(last.root, root)]
        /\ putEpoch = last.epoch
        /\ list' = MarkForEviction(list, last.root, root)
        /\ emptied' = (emptied \/ (last.root # root
             /\ \E k \in ListedKeys(last.root, root) : list'.cache[k].refs = 0))
        /\ todo' = updateStateStorage(final, m, restartNonce)
        /\ final' = n /\ buffer' = buffer
  BY Zenon DEF CommitBlock
<1>2. /\ TypeOK /\ L \in Nat /\ L >= 1 /\ StartNonce \in Nat /\ Height = StartNonce + L - 1
      /\ final \in Nat /\ StartNonce <= final /\ final <= Height /\ chain \in Seq(Blocks)
      /\ RootAt(Height) = last.root
  BY PInvParts, ChainFacts, NumberFacts DEF TypeOK
<1>3. /\ c \in Seq(Roots) /\ Len(c) = L /\ f \in 1 .. L /\ Contiguous(c)
      /\ \A i \in 1 .. L : c[i] = chain[i].root
  BY <1>2, PInvParts, StatesFacts
<1>4. L \in 1 .. L /\ s = last.root /\ s \in Roots /\ last \in Blocks
  BY <1>2, <1>3
<1>5. IInv'
  BY PInvParts, CommitBlockKeepsIInv
<1>6. Len(chain') = L + 1 /\ chain'[L + 1].root = root /\ \A i \in 1 .. L : chain'[i] = chain[i]
  BY <1>1, <1>2
<1>7. /\ d \in Seq(Roots) /\ Len(d) = L + 1 /\ d[L + 1] = root
      /\ \A i \in 1 .. L : d[i] = c[i]
  <2> DEFINE k == L + 1
             e == [i \in 1 .. k |-> chain'[i].root]
  <2>1. d = e
    BY <1>6 DEF States
  <2>2. ASSUME NEW i \in 1 .. L
        PROVE  chain'[i].root = c[i] /\ c[i] \in Roots
    <3> HIDE DEF c
    <3> QED
      BY <1>3, <1>6
  <2>3. k \in Nat /\ \A i \in 1 .. k : chain'[i].root \in Roots
    <3> SUFFICES ASSUME NEW i \in 1 .. k PROVE chain'[i].root \in Roots
      BY <1>2
    <3>1. CASE i = k
      BY <3>1, <1>6
    <3>2. CASE i # k
      <4>1. i \in 1 .. L
        BY <3>2, <1>2
      <4> QED
        BY <4>1, <2>2
    <3> QED
      BY <3>1, <3>2
  <2>4. k \in 1 .. k /\ \A i \in 1 .. L : i \in 1 .. k
    BY <1>2
  <2> HIDE DEF c, d
  <2>5. d \in Seq(Roots) /\ Len(d) = k
    BY <2>1, <2>3
  <2>6. d[k] = root
    BY <2>1, <2>4, <1>6
  <2>7. \A i \in 1 .. L : d[i] = c[i]
    BY <2>1, <2>2, <2>4
  <2> QED
    BY <2>5, <2>6, <2>7
<1>8. root = s \/ \A i \in 1 .. L : c[i] # root
  <2>1. root = last.root \/ \A i \in 1 .. L : chain[i].root # root
    BY <1>1, <1>2 DEF MayFollow
  <2> HIDE DEF c
  <2> QED
    BY <2>1, <1>3, <1>4
<1>9. BufferedAreOld' /\ ResolvedFirst' /\ todo' \in Seq(Calls)
  <2>1. final \in StartNonce .. Height /\ m \in StartNonce .. Height
    BY <1>2
  <2>2. todo' \in Seq(Calls) /\ \A i \in 1 .. Len(todo') : todo'[i].call \in Unresolved
    BY <1>1, <1>2, <2>1, UpdateStateStorageFacts
  <2> QED
    BY <2>2, <1>1, NewCalls
<1>10. StatesInOrder'
  <2>1. Contiguous(d)
    <3> HIDE DEF c, d
    <3> SUFFICES ASSUME NEW i \in 1 .. Len(d), NEW j \in 1 .. Len(d), NEW x \in 1 .. Len(d),
                        i <= x, x <= j, d[i] = d[j]
                 PROVE  d[x] = d[i]
      BY DEF Contiguous
    <3>1. CASE j = L + 1
      <4>1. CASE i = L + 1
        <5>1. x = i
          BY <4>1, <3>1, <1>2, <1>7
        <5> QED
          BY <5>1
      <4>2. CASE i # L + 1
        <5>1. i \in 1 .. L /\ d[i] = c[i] /\ d[i] = root
          BY <4>2, <3>1, <1>2, <1>7
        <5>2. root = s
          BY <5>1, <1>8
        <5>3. CASE x = L + 1
          BY <5>1, <5>3, <1>7
        <5>4. CASE x # L + 1
          <6>1. x \in 1 .. L /\ d[x] = c[x] /\ x <= L
            BY <5>4, <1>2, <1>7
          <6>2. c[i] = c[L]
            BY <5>1, <5>2
          <6>3. c[x] = c[i]
            BY <6>1, <6>2, <5>1, <1>3, <1>4 DEF Contiguous
          <6> QED
            BY <6>1, <6>3, <5>1
        <5> QED
          BY <5>3, <5>4
      <4> QED
        BY <4>1, <4>2
    <3>2. CASE j # L + 1
      <4>1. i \in 1 .. L /\ j \in 1 .. L /\ x \in 1 .. L
        BY <3>2, <1>2, <1>7
      <4>2. d[i] = c[i] /\ d[j] = c[j] /\ d[x] = c[x]
        BY <4>1, <1>7
      <4> QED
        BY <4>1, <4>2, <1>3 DEF Contiguous
    <3> QED
      BY <3>1, <3>2
  <2> QED
    BY <2>1, PInvPrimed
<1>11. ASSUME ~ emptied'
       PROVE  ReferencesArePaid' /\ TargetsStored'
  <2> DEFINE q == Waiting
             p == Pending(buffer, todo')
             k == n - StartNonce + 1
             x == m - StartNonce + 1
  <2>1. ~ emptied
    BY <1>1, <1>11
  <2>2. /\ q \in Seq(WaitingCalls) /\ OnlyObsolete(q) /\ Paid(c, f, list, q)
        /\ list \in Lists /\ Tidy(list) /\ TargetsStored
        /\ q = Pending(buffer, <<>>) /\ buffer \in Seq(Buffered)
    BY <1>1, <2>1, PInvParts, NothingToDo
  <2>3. /\ p \in Seq(WaitingCalls) /\ Len(p) >= Len(q) /\ \A i \in 1 .. Len(q) : p[i] = q[i]
    <3>1. /\ p \in Seq(WaitingCalls) /\ Len(p) = Len(q) + Len(todo')
          /\ \A i \in 1 .. Len(q) : p[i] = q[i]
      BY <1>1, <1>9, NothingToDo
    <3>2. Len(q) \in Nat /\ Len(todo') \in Nat
      BY <2>2, <1>9
    <3> QED
      BY <3>1, <3>2
  <2>4. list' \in Lists /\ ListsStep(list, list', s, root)
    <3>1. \/ root = s
          \/ /\ \A e \in ListedKeys(s, root) :
                  list.cache[e].refs = 0 \/ list.cache[e].hashes = ListedHashes(s, root, e)
             /\ \A e \in ListedKeys(s, root) : list'.cache[e].refs # 0
      <4>1. \/ root = s
            \/ \A e \in ListedKeys(s, root) :
                 list.cache[e].refs = 0 \/ list.cache[e].hashes = ListedHashes(s, root, e)
        BY <1>1, <1>2, <1>4 DEF MayFollow, HashesIdentify
      <4>2. root = s \/ \A e \in ListedKeys(s, root) : list'.cache[e].refs # 0
        BY <1>1, <1>4, <1>11
      <4> QED
        BY <4>1, <4>2
    <3>2. list' = MarkForEviction(list, s, root) /\ <<s, root>> \in Children
      BY <1>1, <1>2, <1>4 DEF MayFollow
    <3> HIDE DEF s
    <3>3. ListsStep(list, MarkForEviction(list, s, root), s, root)
      BY <3>1, <3>2, <2>2, <1>4, CommitLists DEF HashesIdentify
    <3>4. list' \in Lists
      BY <1>5 DEF IInv, TypeOK
    <3> QED
      BY <3>2, <3>3, <3>4
  <2>5. PICK w : Finalises(c, f, x, q, p, w)
    <3>1. m \in final .. Height
      BY <1>2
    <3>2. \E w : Finalises(c, f, x, Pending(buffer, <<>>),
                           Pending(buffer, updateStateStorage(final, m, restartNonce)), w)
      BY <3>1, <2>2, <1>2, <1>3, UpdateFinalises
    <3> QED
      BY <3>2, <2>2, <1>1
  <2>6. k \in f .. L /\ x \in f .. k /\ FinalAt' = k
    BY <1>1, <1>2 DEF FinalAt
  <2>7. Paid(d, k, list', p)
    <3> HIDE DEF c, d, q, p, k, x, f, s
    <3>1. /\ c \in Seq(Roots) /\ Contiguous(c) /\ f \in 1 .. Len(c) /\ list \in Lists
          /\ q \in Seq(WaitingCalls) /\ OnlyObsolete(q) /\ Paid(c, f, list, q)
          /\ root = c[Len(c)] \/ \A i \in 1 .. Len(c) : c[i] # root
          /\ d \in Seq(Roots) /\ Len(d) = Len(c) + 1 /\ d[Len(c) + 1] = root
          /\ \A i \in 1 .. Len(c) : d[i] = c[i]
      BY <1>3, <1>7, <1>8, <2>2 DEF s
    <3>2. /\ list' \in Lists /\ ListsStep(list, list', c[Len(c)], root)
          /\ k \in f .. Len(c) /\ x \in f .. k
          /\ p \in Seq(WaitingCalls) /\ Len(p) >= Len(q) /\ \A i \in 1 .. Len(q) : p[i] = q[i]
      BY <1>3, <2>3, <2>4, <2>6 DEF s
    <3>3. ASSUME NEW v, v = list'
          PROVE  Paid(d, k, v, p)
      <4>1. v \in Lists /\ ListsStep(list, v, c[Len(c)], root)
        BY <3>2, <3>3
      <4> QED
        BY ONLY <4>1, <3>1, <3>2, <2>5, root \in Roots, PaidCommitted, Zenon
    <3> QED
      BY <3>3
  <2>8. ReferencesArePaid'
    BY <2>6, <2>7, <1>1, PInvPrimed DEF Waiting
  <2>9. ASSUME NEW e \in Epochs
        PROVE  db[e] \subseteq db'[e]
    <3>1. db \in [Epochs -> SUBSET Nodes]
      BY <1>2 DEF TypeOK
    <3> QED
      BY <3>1, <1>1
  <2>10. StoredSince(0) \subseteq StoredSince(0)'
    BY <2>9 DEF StoredSince
  <2>11. Added(s, root) \subseteq StoredSince(0)'
    <3>1. putEpoch \in Epochs /\ db \in [Epochs -> SUBSET Nodes] /\ putEpoch >= 0
      <4>1. last.epoch \in Epochs
        <5> HIDE DEF last
        <5> QED
          BY <1>4 DEF Blocks
      <4>2. \A e \in Epochs : e >= 0
        BY NumberFacts
      <4>3. db \in [Epochs -> SUBSET Nodes]
        BY <1>2 DEF TypeOK
      <4> QED
        BY <4>1, <4>2, <4>3, <1>1
    <3>2. Added(s, root) \subseteq db'[putEpoch]
      BY <3>1, <1>1, <1>4
    <3> QED
      BY <3>1, <3>2 DEF StoredSince
  <2>12. ASSUME NEW y \in k .. L + 1
         PROVE  NodesOf[d[y]] \subseteq StoredSince(0)'
    <3>1. \A z \in f .. L : NodesOf[c[z]] \subseteq StoredSince(0)
      BY <2>2 DEF TargetsStored
    <3>2. CASE y = L + 1
      <4>1. d[y] = root /\ L \in f .. L
        BY <3>2, <1>2, <1>3, <1>7
      <4>2. NodesOf[s] \subseteq StoredSince(0)'
        BY <4>1, <3>1, <2>10
      <4>3. NodesOf[root] \subseteq NodesOf[s] \cup Added(s, root)
        BY DEF Added
      <4> HIDE DEF d, s
      <4> QED
        BY <4>1, <4>2, <4>3, <2>11
    <3>3. CASE y # L + 1
      <4>1. y \in f .. L /\ y \in 1 .. L
        <5>1. L \in Nat /\ f \in 1 .. L /\ k \in f .. L
          BY ONLY <1>2, <1>3, <2>6
        <5> HIDE DEF f, k
        <5> QED
          BY ONLY <5>1, <3>3, y \in k .. L + 1
      <4>2. d[y] = c[y]
        BY <4>1, <1>7
      <4> HIDE DEF c, d
      <4> QED
        BY <4>1, <4>2, <3>1, <2>10
    <3> QED
      BY <3>2, <3>3
  <2>13. TargetsStored'
    BY <2>6, <2>12, <1>6 DEF TargetsStored
  <2> QED
    BY <2>8, <2>13
<1> QED
  BY <1>5, <1>9, <1>10, <1>11, Zenon DEF PInv
-----------------------------------------------------------------------------
(* The invariant, and the theorem *)

LEMMA InitPInv == Init => PInv
<1> SUFFICES ASSUME Init PROVE PInv
  OBVIOUS
<1>1. IInv /\ TypeOK
  BY InitIInv, IInvParts
<1>2. Len(chain) = 1 /\ chain[1].root = Genesis /\ final = StartNonce /\ StartNonce \in Nat
  BY NumberFacts DEF Init
<1>3. States \in Seq(Roots) /\ Len(States) = 1 /\ FinalAt = 1
  BY <1>1, <1>2, StatesFacts DEF FinalAt
<1>4. States[1] = Genesis
  BY <1>1, <1>2, StatesFacts
<1>5. buffer = <<>> /\ todo = <<>> /\ list = EmptyList /\ Len(buffer) = 0 /\ Len(todo) = 0
  BY DEF Init
<1>6. Waiting \in Seq(WaitingCalls) /\ Len(Waiting) = 0
  <2>1. buffer \in Seq(Buffered) /\ todo \in Seq(Calls)
    BY <1>1, IInvParts DEF TypeOfPruning
  <2>2. ASSUME NEW b \in Seq(Buffered), NEW t \in Seq(Calls), Len(b) = 0, Len(t) = 0
        PROVE  Pending(b, t) \in Seq(WaitingCalls) /\ Len(Pending(b, t)) = 0
    <3>1. /\ Pending(b, t) \in Seq(WaitingCalls)
          /\ Len(Pending(b, t)) = Len(b) + Len(t)
      BY PendingFacts, Zenon
    <3> QED
      BY ONLY <3>1, <2>2
  <2>3. Len(buffer) = 0 /\ Len(todo) = 0
    BY <1>5
  <2> QED
    BY ONLY <2>1, <2>2, <2>3 DEF Waiting
<1>7. StatesInOrder /\ BufferedAreOld /\ ResolvedFirst
  <2>1. \A i \in 1 .. Len(States) : i = 1
    BY <1>3
  <2>2. StatesInOrder
    <3> SUFFICES ASSUME NEW i \in 1 .. Len(States), NEW j \in 1 .. Len(States),
                        NEW x \in 1 .. Len(States)
                 PROVE  States[x] = States[i]
      BY DEF StatesInOrder, Contiguous
    <3>1. x = i
      BY <2>1
    <3> QED
      BY <3>1
  <2> QED
    BY <2>2, <1>5 DEF BufferedAreOld, ResolvedFirst
<1>8. ReferencesArePaid
  <2> DEFINE q == Waiting
             c == States
  <2>1. \A k : Count(q, Len(q), k) = 0
    <3>1. ASSUME NEW k
          PROVE  {i \in 1 .. Len(q) : q[i].key = k} = {}
      BY <1>6
    <3> QED
      BY <3>1, FS_EmptySet DEF Count
  <2>2. Balanced(c, list, q)
    <3>1. \A k \in Keys : list.cache[k].refs = 0
      BY <1>5 DEF EmptyList, NoEntry
    <3> QED
      BY <2>1, <3>1 DEF Balanced
  <2>3. SettledAt(1) = 1 /\ 1 .. Len(c) - 1 = {} /\ 2 .. Len(c) = {} /\ 1 .. Len(q) = {}
    BY <1>3, <1>6 DEF SettledAt
  <2>4. ObsoleteListed(c, 1, list, q) /\ AddedListed(c, 1, list, q)
    BY <2>3 DEF ObsoleteListed, AddedListed
  <2>5. ObsoletePruned(c, 1, list, q) /\ RolledBackPruned(c, list, q)
    BY <2>3 DEF ObsoletePruned, RolledBackPruned
  <2> QED
    BY <2>2, <2>4, <2>5, <1>3 DEF ReferencesArePaid, Paid
<1>9. TargetsStored
  <2>1. 0 \in Epochs /\ 1 \in Epochs /\ db[0] = OldNodes /\ db[1] = NodesOf[Genesis] \ OldNodes
    BY NumberFacts DEF Init
  <2>2. NodesOf[Genesis] \subseteq StoredSince(0)
    BY <2>1 DEF StoredSince
  <2>3. \A y \in FinalAt .. Len(chain) : y = 1
    BY <1>2, <1>3
  <2> QED
    BY <2>2, <2>3, <1>4 DEF TargetsStored
<1> QED
  BY <1>1, <1>7, <1>8, <1>9 DEF PInv

\* A step that makes none of the calls and leaves the chain alone.
LEMMA OtherStepsKeepPInv ==
  ASSUME PInv, [Next]_vars, UNCHANGED <<chainVars, pruningVars>>
  PROVE  PInv'
<1>1. UNCHANGED <<chain, final, list, buffer, todo, emptied>>
  BY DEF chainVars, pruningVars
<1>2. IInv /\ todo \in Seq(Calls)
  BY PInvParts
<1>3. ~ prune
  <2> SUFFICES ASSUME prune PROVE FALSE
    OBVIOUS
  <2>1. todo # <<>> /\ todo' = Tail(todo)
    BY DEF prune, NextCall
  <2>2. Len(Tail(todo)) # Len(todo)
    BY <2>1, <1>2
  <2> QED
    BY <2>1, <2>2, <1>1
<1>4. IInv' /\ \A x \in Epochs : db[x] \subseteq db'[x]
  BY <1>2, <1>3, NextIInv, DisksGrow
<1> QED
  BY <1>1, <1>4, OthersKeepPInv

LEMMA NextPInv ==
  ASSUME HashesIdentify, PInv, [Next]_vars, [Paired]_vars
  PROVE  PInv'
<1>1. CASE UNCHANGED vars
  BY <1>1, OtherStepsKeepPInv DEF vars
<1>2. CASE Commit
  <2>1. PICK root \in Roots, start \in BOOLEAN, withMeta \in BOOLEAN, n \in final .. Height :
          \E m \in final .. n, g \in final .. n :
            CommitBlock(root, start, withMeta, g, n, m)
    BY <1>2, Zenon DEF Commit
  <2> QED
    BY <2>1, CommitBlockKeepsPInv
<1>3. CASE RollBackOneBlock /\ ~ UNCHANGED vars
  BY <1>3, RollBackKeepsPInv
<1>4. CASE Pruning
  BY <1>4, CancelPruneKeepsPInv, PruneTrieKeepsPInv, cancelPruneKeepsPInv, pruneKeepsPInv
  DEF Pruning
<1>5. CASE SnapshotWorker
  <2>1. UNCHANGED <<chainVars, pruningVars>>
    BY <1>5, Zenon DEF SnapshotWorker, StartCopying, WaitTimesOut, Copy, Finish, Incomplete,
                       RemoveMarker, MarkActive, unchangedBySnapshot
  <2> QED
    BY <2>1, OtherStepsKeepPInv
<1>6. CASE \E m \in adding : AddMarker(m)
  BY <1>6, OtherStepsKeepPInv DEF AddMarker
<1>7. CASE OpenIterator \/ CloseIterator
  BY <1>7, OtherStepsKeepPInv DEF OpenIterator, CloseIterator
<1>8. CASE (\E nonce \in StartNonce .. Height : Restart(nonce)) /\ ~ UNCHANGED vars
  <2>1. restarts' = restarts + 1 /\ restarts' = restarts
    BY <1>8 DEF Restart, Paired
  <2>2. restarts \in Nat
    BY PInvParts, IInvParts, NumberFacts DEF TypeOfChain
  <2> QED
    BY <2>1, <2>2
<1> QED
  BY <1>1, <1>2, <1>3, <1>4, <1>5, <1>6, <1>7, <1>8, Zenon DEF Next

\* Where root hashes identify states, and as long as the node runs and no block
\* is rolled back whose predecessor left the state unchanged, no call to the
\* pruning manager removes a node of a state a rollback may return to: whether
\* the calls are made at once or wait in the buffer behind a snapshot or an
\* iterator, are lost because the buffer is full, or name entries that were
\* listed again in the meantime.
THEOREM RollbackTargetsAreKept ==
  ASSUME HashesIdentify
  PROVE  Spec /\ [][Paired]_vars => []RollbackTargetsAreStored
<1>1. PInv => RollbackTargetsAreStored
  <2> SUFFICES ASSUME PInv, ~ emptied, NEW nonce \in final .. Height
               PROVE  IsStored(RootAt(nonce))
    BY DEF RollbackTargetsAreStored
  <2> DEFINE y == nonce - StartNonce + 1
  <2>1. TypeOK /\ TargetsStored
    BY PInvParts
  <2>2. /\ StartNonce \in Nat /\ Height = StartNonce + Len(chain) - 1 /\ Len(chain) \in Nat
        /\ final \in Nat /\ StartNonce <= final /\ final <= Height
    BY <2>1, ChainFacts, NumberFacts
  <2>3. y \in FinalAt .. Len(chain) /\ y \in 1 .. Len(chain)
    BY <2>2 DEF FinalAt
  <2>4. States[y] = RootAt(nonce)
    BY <2>1, <2>3, StatesFacts DEF RootAt
  <2> QED
    BY <2>1, <2>3, <2>4 DEF TargetsStored, IsStored
<1>2. PInv /\ [Next]_vars /\ [Paired]_vars => PInv'
  BY NextPInv
<1> QED
  BY <1>1, <1>2, InitPInv, PTL DEF Spec
============================================================================
