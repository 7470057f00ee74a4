------------------------ MODULE ScQueryServiceProofs ------------------------
(***************************************************************************)
(* A smart contract query runs on the state and with the headers found for *)
(* it, for any tree of blocks, any queries before it and any size of the   *)
(* cache of epoch start headers.                                           *)
(***************************************************************************)
EXTENDS ScQueryService, FiniteSetsExt, WellFoundedInduction, FiniteSetTheorems, TLAPS

(* What Min and Max of FiniteSetsExt return. *)

\* A nonempty set of natural numbers has a least element, which Min returns.
LEMMA MinIsLeast ==
    ASSUME NEW S, S \subseteq Nat, S # {}
    PROVE  Min(S) \in S /\ \A y \in S : Min(S) <= y
<1> DEFINE R == {ss \in Nat \X Nat : ss[1] < ss[2]}
<1>1. IsWellFoundedOn(R, Nat)
  BY NatLessThanWellFounded, Zenon DEF OpToRel
<1>2. \A x, y \in Nat : y < x => <<y, x>> \in R
  OBVIOUS
<1> HIDE DEF R
<1>3. PICK x \in S : \A y \in S : ~ (<<y, x>> \in R)
  BY <1>1, WFMin
<1>4. \A y \in S : x =< y
  <2> SUFFICES ASSUME NEW y \in S PROVE x =< y
    OBVIOUS
  <2>1. ~ (y < x)
    BY <1>2, <1>3, Zenon
  <2> QED
    BY <2>1
<1> QED
  BY <1>4 DEF Min

\* A nonempty set of natural numbers with an upper bound has a greatest element,
\* which Max returns.
LEMMA MaxIsGreatest ==
    ASSUME NEW b \in Nat, NEW S, S \subseteq 0 .. b, S # {}
    PROVE  Max(S) \in S /\ \A y \in S : y <= Max(S)
<1> DEFINE T == {b - x : x \in S}
<1>1. T \subseteq Nat /\ T # {}
  <2>1. PICK x \in S : TRUE
    OBVIOUS
  <2>2. b - x \in T
    OBVIOUS
  <2>3. \A y \in S : b - y \in Nat
    OBVIOUS
  <2> QED
    BY <2>2, <2>3
<1>2. Min(T) \in T /\ \A y \in T : Min(T) <= y
  BY <1>1, MinIsLeast
<1>3. PICK m \in S : Min(T) = b - m
  BY <1>2
<1>4. \A y \in S : m >= y
  <2> SUFFICES ASSUME NEW y \in S PROVE m >= y
    OBVIOUS
  <2>1. b - y \in T
    OBVIOUS
  <2>2. b - m <= b - y
    BY <2>1, <1>2, <1>3
  <2>3. b \in Int /\ m \in Int /\ y \in Int
    OBVIOUS
  <2> HIDE DEF T
  <2> QED
    BY <2>2, <2>3
<1>5. \E x \in S : \A y \in S : x >= y
  BY <1>4
<1>6. Max(S) \in S /\ \A y \in S : Max(S) >= y
  BY <1>5 DEF Max
<1> QED
  BY <1>6

-----------------------------------------------------------------------------
-----------------------------------------------------------------------------
(* Facts about the headers *)

\* What the assumptions say of a header and of the one before it.
LEMMA HeaderFacts ==
  ASSUME NEW b \in Blocks
  PROVE  /\ Header[b].nonce \in 0 .. MaxNonce
         /\ Header[b].epoch \in 0 .. MaxEpoch
         /\ Header[b].start \in BOOLEAN
         /\ Header[b].root \in Roots /\ Header[b].committed \in Roots
         /\ Header[b].prev \in Blocks \cup {None}
         /\ b # Genesis => /\ Header[b].prev \in Blocks
                           /\ Header[b].nonce = Header[Header[b].prev].nonce + 1
                           /\ Header[b].start => Header[b].epoch \in 1 .. MaxEpoch
<1>1. Header[b] \in HeaderType
  BY ScQueryAssumption
<1>2. /\ Header[b].nonce \in 0 .. MaxNonce
      /\ Header[b].epoch \in 0 .. MaxEpoch
      /\ Header[b].start \in BOOLEAN
      /\ Header[b].root \in Roots /\ Header[b].committed \in Roots
      /\ Header[b].prev \in Blocks \cup {None}
  BY <1>1 DEF HeaderType
<1>3. ASSUME b # Genesis
      PROVE  /\ Header[b].prev \in Blocks
             /\ Header[b].nonce = Header[Header[b].prev].nonce + 1
             /\ Header[b].start => Header[b].epoch \in 1 .. MaxEpoch
  <2>1. /\ Header[b].prev # None
        /\ Header[b].nonce = Header[Header[b].prev].nonce + 1
        /\ Header[b].epoch - Header[Header[b].prev].epoch
             = IF Header[b].start THEN 1 ELSE 0
    BY <1>3, ScQueryAssumption
  <2>2. Header[b].prev \in Blocks
    BY <1>2, <2>1
  <2>3. Header[Header[b].prev] \in HeaderType
    BY <2>2, ScQueryAssumption
  <2>4. Header[Header[b].prev].epoch \in 0 .. MaxEpoch
    BY <2>3 DEF HeaderType
  <2>5. MaxEpoch \in Nat
    BY ScQueryAssumption
  <2> QED
    BY <1>2, <2>1, <2>2, <2>4, <2>5
<1> QED
  BY <1>2, <1>3

\* Only the genesis block has nonce 0.
LEMMA GenesisIsFirst ==
  ASSUME NEW b \in Blocks
  PROVE  Header[b].nonce = 0 <=> b = Genesis
<1>1. Header[Genesis].nonce = 0
  BY ScQueryAssumption
<1>2. ASSUME b # Genesis PROVE Header[b].nonce # 0
  <2>1. Header[b].prev \in Blocks /\ Header[b].nonce = Header[Header[b].prev].nonce + 1
    BY <1>2, HeaderFacts
  <2>2. Header[Header[b].prev].nonce \in 0 .. MaxNonce
    BY <2>1, HeaderFacts
  <2> QED
    BY <2>1, <2>2
<1> QED
  BY <1>1, <1>2

\* The chain handler has a header and a root hash, or neither.
LEMMA ChainHandlerAt ==
  ASSUME NEW b \in Blocks
  PROVE  /\ At(b) \in ChainHandler
         /\ At(b).header = None => At(b).root = None
         /\ At(b).root = None => b = Genesis
<1>1. Header[b].committed \in Roots
  BY HeaderFacts
<1>2. None \notin Blocks /\ None \notin Roots
  BY ScQueryAssumption
<1>3. CASE Header[b].nonce = 0
  BY <1>3, GenesisIsFirst DEF At, NilChain, ChainHandler, BlockOrNone, RootOrNone
<1>4. CASE Header[b].nonce # 0
  BY <1>1, <1>2, <1>4 DEF At, ChainHandler, BlockOrNone, RootOrNone
<1> QED
  BY <1>3, <1>4

-----------------------------------------------------------------------------
(* Facts about the trie and the cache *)

Tries == [root : Roots, storage : {BaseStorage} \cup 0 .. MaxEpoch]
Infos == [nonce : 0 .. MaxNonce, root : Roots]
Hints == {NoHint} \cup 0 .. MaxEpoch

\* patriciaMerkleTrie.Recreate returns the trie of the root hash, or an error and
\* the trie there was.
LEMMA RecreateFacts ==
  ASSUME NEW t \in Tries, NEW r \in Roots, NEW hint \in Hints, NEW active
  PROVE  LET new == Recreate(t, r, hint, active)
         IN  /\ new.err \in BOOLEAN /\ new.trie \in Tries
             /\ ~ new.err => new.trie.root = r
             /\ new.err => new.trie = t
  BY DEF Recreate, Tries, Hints, BaseStorage, NoHint

LEMMA LookupType ==
  ASSUME NEW t, NEW active
  PROVE  Lookup(t, active) \in {"found", "absent", "error"}
  BY DEF Lookup

\* recreateTrieIfNecessary: unless it fails the trie is the one of the root hash,
\* also when nothing was recreated; when it fails the old trie stays and the block
\* info is forgotten.
LEMMA RecreateTrieFacts ==
  ASSUME NEW new \in Infos, NEW hint \in Hints,
         trie \in Tries, info \in Infos \cup {None},
         info # None => info.root = trie.root,
         RecreateTrie(new, hint)
  PROVE  /\ trie' \in Tries /\ info' \in Infos \cup {None}
         /\ info' # None => info'.root = trie'.root
         /\ ~ RecreateFails(new, hint) => trie'.root = new.root
<1> DEFINE r == Recreate(trie, new.root, hint, Active)
<1>1. new.root \in Roots
  BY DEF Infos
<1>2. /\ r.err \in BOOLEAN /\ r.trie \in Tries
      /\ ~ r.err => r.trie.root = new.root
      /\ r.err => r.trie = trie
  BY <1>1, RecreateFacts
<1> HIDE DEF r
<1>3. RecreateFails(new, hint) <=> info # new /\ r.err
  BY DEF RecreateFails, r
<1>4. CASE info = new
  <2>1. trie' = trie /\ info' = info
    BY <1>4 DEF RecreateTrie, adapterVars
  <2>2. info # None
    BY <1>4, ScQueryAssumption DEF Infos
  <2> QED
    BY <1>4, <2>1, <2>2
<1>5. CASE info # new
  <2>1. trie' = r.trie /\ info' = IF r.err THEN None ELSE new
    BY <1>5 DEF RecreateTrie, InfoAfter, r
  <2>2. CASE r.err
    BY <1>2, <1>3, <1>5, <2>1, <2>2
  <2>3. CASE ~ r.err
    BY <1>2, <1>3, <1>5, <2>1, <2>3
  <2> QED
    BY <2>2, <2>3
<1> QED
  BY <1>4, <1>5

\* The cache of epoch start headers never holds more than its size.
LEMMA CacheFits ==
  ASSUME NEW b \in Blocks, cache \subseteq Blocks, IsFiniteSet(cache),
         Cardinality(cache) <= EpochStartHdrCacheSize
  PROVE  /\ Cached(b) \subseteq Blocks /\ IsFiniteSet(Cached(b))
         /\ Cardinality(Cached(b)) <= EpochStartHdrCacheSize
<1> DEFINE epochs == {Header[c].epoch : c \in cache}
           oldest == Min(epochs)
           rest == cache \ CachedAt(oldest)
<1>1. EpochStartHdrCacheSize \in Nat \ {0} /\ Cardinality(cache) \in Nat
  BY ScQueryAssumption, FS_CardinalityType
<1>2. CASE b \in cache
  BY <1>2 DEF Cached
<1>3. CASE b \notin cache /\ Cardinality(cache) < EpochStartHdrCacheSize
  <2>1. IsFiniteSet(cache \cup {b}) /\ Cardinality(cache \cup {b}) = Cardinality(cache) + 1
    BY <1>3, FS_AddElement
  <2>2. Cached(b) = cache \cup {b}
    BY <1>3 DEF Cached
  <2> QED
    BY <1>1, <1>3, <2>1, <2>2
<1>4. CASE b \notin cache /\ ~ (Cardinality(cache) < EpochStartHdrCacheSize)
  <2>1. cache # {}
    BY <1>1, <1>4, FS_EmptySet
  <2>2. PICK d \in cache : Header[d].epoch = oldest
    <3>1. epochs \subseteq Nat /\ epochs # {}
      BY <2>1, HeaderFacts
    <3>2. oldest \in epochs
      BY <3>1, MinIsLeast
    <3> QED
      BY <3>2
  <2> HIDE DEF epochs, oldest
  <2>3. d \in CachedAt(oldest)
    BY <2>2 DEF CachedAt
  <2>4. rest \subseteq cache \ {d}
    BY <2>3
  <2>5. /\ IsFiniteSet(cache \ {d})
        /\ Cardinality(cache \ {d}) = Cardinality(cache) - 1
    BY <2>2, FS_RemoveElement
  <2>6. /\ IsFiniteSet(rest) /\ Cardinality(rest) <= Cardinality(cache \ {d})
        /\ Cardinality(rest) \in Nat
    BY <2>4, <2>5, FS_Subset, FS_CardinalityType
  <2>7. b \notin rest
    BY <1>4
  <2>8. IsFiniteSet(rest \cup {b}) /\ Cardinality(rest \cup {b}) = Cardinality(rest) + 1
    BY <2>6, <2>7, FS_AddElement
  <2>9. Cached(b) = rest \cup {b}
    BY <1>4 DEF Cached, oldest, epochs
  <2>10. Cardinality(rest) + 1 <= EpochStartHdrCacheSize
    BY <1>1, <2>5, <2>6
  <2> QED
    BY <2>8, <2>9, <2>10
<1> QED
  BY <1>2, <1>3, <1>4
-----------------------------------------------------------------------------
(* The inductive invariant *)

ChainTypes ==
  /\ tip \in Blocks /\ main \in ChainHandler
  /\ nonceHash \in [0 .. MaxNonce -> BlockOrNone]
  /\ recorded \subseteq Blocks
  /\ epochStartIn \in [1 .. MaxEpoch -> BlockOrNone]
  /\ step \in [at : {"idle", "current", "record", "revert", "clean"},
               block : BlockOrNone]

ServiceTypes ==
  /\ pc \in {"idle", "header", "next", "root", "load", "hook", "run", "failed"}
  /\ query \in [asked : Queries \cup {None}, header : BlockOrNone, root : RootOrNone]
  /\ api \in ChainHandler
  /\ info \in Infos \cup {None}
  /\ trie \in Tries
  /\ cache \subseteq Blocks /\ Cardinality(cache) <= EpochStartHdrCacheSize
  /\ hook \in [current : BlockOrNone, epochStart : BlockOrNone]
  /\ read \in [root : Roots, answer : {"found", "absent", "error"}] \cup {None}
  /\ IsFiniteSet(cache)

\* What is stored under a nonce or an epoch is of that nonce or epoch, and the
\* block being committed or rolled back is not the genesis block.
Keyed ==
  /\ \A n \in 0 .. MaxNonce :
       nonceHash[n] # None => Header[nonceHash[n]].nonce = n
  /\ \A e \in 1 .. MaxEpoch :
       epochStartIn[e] # None => Header[epochStartIn[e]].epoch = e
  /\ step # Idle => step.block \in Blocks \ {Genesis}
  /\ main.header = None => main.root = None

\* accountsDBApi remembers the root hash of the trie it has.
InfoIsOfTrie == info # None => info.root = trie.root

\* What the query knows at each of its steps.
Progress ==
  /\ pc # "idle" => query.asked \in Queries
  /\ pc \notin {"run", "failed"} => read = None
  /\ pc = "next" => query.header # None /\ query.asked.kind # "current"
  /\ pc = "root" => query.asked.kind = "current"
  /\ pc \in {"load", "hook", "failed"} => query.root # None
  /\ pc = "hook" \/ (pc = "run" /\ query.root # None) =>
       /\ query.header # None
       /\ api = [header |-> query.header, root |-> query.root]
  /\ pc = "run" /\ query.root = None => query.asked.kind = "current"
  /\ api.header # None => api.root # None

\* Of a query by nonce: the header found first is of that nonce.
FirstHeader ==
  pc = "next" /\ query.asked.kind = "nonce" =>
    Header[query.header].nonce = query.asked.nonce

\* A node whose first block is final has no current root hash only as long as it
\* committed nothing, and then no query pointed the service at a block yet.
NothingBefore ==
  FinalNonce > 0 =>
    /\ main.root = None =>
         /\ tip = Genesis /\ recorded = {Genesis} /\ api.header = None
         /\ step.at \in {"idle", "current"}
         /\ pc \notin {"load", "hook", "failed"}
         /\ pc = "run" => query.root = None
    /\ pc = "run" /\ query.root = None => api.header = None

\* ReadsTheStateAskedFor, wherever a root hash was found or no rollback reaches
\* the genesis block.
ReadsWhatWasFound ==
  FinalNonce > 0 \/ query.root # None => ReadsTheStateAskedFor

\* Headers after blocks of one nonce all tell the root hash after the scheduled
\* miniblocks where one of these blocks has any: the two header lookups of a query
\* do not straddle a fork that disagrees on whether these are enabled.
ScheduledAgree ==
  \A b, c \in Blocks :
    Header[c].nonce = Header[b].nonce + 1 =>
      Header[c].scheduled \/ Header[b].committed = Header[b].root

IInv ==
  /\ ChainTypes /\ ServiceTypes
  /\ Keyed /\ InfoIsOfTrie /\ Progress /\ FirstHeader
  /\ NothingBefore /\ ReadsWhatWasFound
  /\ EpochStartIsOfTheEpoch
  /\ ScheduledAgree => NonceMeansItsState

LEMMA InitIInv == Init => IInv
<1> SUFFICES ASSUME Init PROVE IInv
  OBVIOUS
<1> USE DEF Init
<1>1. /\ None \notin Blocks /\ None \notin Roots /\ Genesis \in Blocks
      /\ EmptyRoot \in Roots
      /\ {MaxEpoch, MaxNonce, FinalNonce} \subseteq Nat
      /\ EpochStartHdrCacheSize \in Nat /\ Header[Genesis].nonce = 0
  BY ScQueryAssumption, TrieAssumption
<1>2. ChainTypes
  BY <1>1 DEF ChainTypes, NilChain, ChainHandler, BlockOrNone, RootOrNone, Idle
<1>3. IsFiniteSet(cache) /\ Cardinality(cache) = 0
  BY FS_EmptySet
<1>4. ServiceTypes
  BY <1>1, <1>3 DEF ServiceTypes, NilChain, NoQuery, ChainHandler, BlockOrNone,
       RootOrNone, Tries, Infos, BaseStorage
<1>5. Keyed
  BY <1>1 DEF Keyed, NilChain
<1>6. InfoIsOfTrie /\ Progress /\ FirstHeader /\ NothingBefore
  BY <1>1 DEF InfoIsOfTrie, Progress, FirstHeader, NothingBefore, NilChain, NoQuery,
       Idle
<1>7. ReadsWhatWasFound /\ EpochStartIsOfTheEpoch /\ NonceMeansItsState
  BY DEF ReadsWhatWasFound, ReadsTheStateAskedFor, EpochStartIsOfTheEpoch,
       NonceMeansItsState
<1> QED
  BY <1>2, <1>4, <1>5, <1>6, <1>7 DEF IInv

-----------------------------------------------------------------------------
(* Committing and rolling back blocks *)

\* What the chain does not touch.
LEMMA ServiceStays ==
  ASSUME IInv, UNCHANGED serviceVars
  PROVE  /\ ServiceTypes' /\ InfoIsOfTrie' /\ Progress' /\ FirstHeader'
         /\ ReadsWhatWasFound' /\ EpochStartIsOfTheEpoch'
         /\ ScheduledAgree => NonceMeansItsState'
<1>1. /\ pc' = pc /\ query' = query /\ api' = api /\ info' = info /\ trie' = trie
      /\ cache' = cache /\ hook' = hook /\ read' = read
  BY DEF serviceVars, adapterVars
<1>2. ServiceTypes'
  BY <1>1 DEF IInv, ServiceTypes
<1>3. InfoIsOfTrie' /\ Progress' /\ FirstHeader'
  BY <1>1 DEF IInv, InfoIsOfTrie, Progress, FirstHeader
<1>4. ReadsWhatWasFound' /\ EpochStartIsOfTheEpoch'
  BY <1>1 DEF IInv, ReadsWhatWasFound, ReadsTheStateAskedFor, EpochStartIsOfTheEpoch
<1>5. ScheduledAgree => NonceMeansItsState'
  BY <1>1 DEF IInv, NonceMeansItsState
<1> QED
  BY <1>2, <1>3, <1>4, <1>5

LEMMA StepSave ==
  ASSUME IInv, NEW b \in Blocks, saveShardHeader(b)
  PROVE  IInv'
<1> USE DEF saveShardHeader
<1>1. UNCHANGED serviceVars /\ tip' = tip /\ main' = main /\ recorded' = recorded
  OBVIOUS
<1>2. ChainTypes /\ Keyed /\ NothingBefore
  BY DEF IInv
<1>3. b # Genesis
  BY <1>2, ScQueryAssumption DEF ChainTypes
<1>4. /\ Header[b].nonce \in 0 .. MaxNonce
      /\ Header[b].start => Header[b].epoch \in 1 .. MaxEpoch
  BY <1>3, HeaderFacts
<1>5. None \notin Blocks
  BY ScQueryAssumption
<1>6. /\ nonceHash' \in [0 .. MaxNonce -> BlockOrNone]
      /\ \A n \in 0 .. MaxNonce :
           nonceHash'[n] # None => Header[nonceHash'[n]].nonce = n
  BY <1>2, <1>4 DEF ChainTypes, Keyed, BlockOrNone
<1>7. /\ epochStartIn' \in [1 .. MaxEpoch -> BlockOrNone]
      /\ \A e \in 1 .. MaxEpoch :
           epochStartIn'[e] # None => Header[epochStartIn'[e]].epoch = e
  BY <1>2, <1>4 DEF ChainTypes, Keyed, BlockOrNone
<1>8. ChainTypes'
  BY <1>1, <1>2, <1>6, <1>7 DEF ChainTypes, BlockOrNone
<1>9. Keyed'
  BY <1>1, <1>2, <1>3, <1>6, <1>7 DEF Keyed
<1>10. NothingBefore'
  BY <1>1, <1>2 DEF NothingBefore, serviceVars
<1> QED
  BY <1>1, <1>8, <1>9, <1>10, ServiceStays DEF IInv

LEMMA StepSetCurrent ==
  ASSUME IInv, SetCurrentBlock
  PROVE  IInv'
<1> USE DEF SetCurrentBlock
<1>1. /\ UNCHANGED serviceVars /\ nonceHash' = nonceHash
      /\ recorded' = recorded /\ epochStartIn' = epochStartIn
  OBVIOUS
<1>2. ChainTypes /\ Keyed /\ NothingBefore /\ Progress
  BY DEF IInv
<1>3. step.block \in Blocks \ {Genesis}
  BY <1>2 DEF Keyed, Idle
<1>4. /\ At(step.block) \in ChainHandler
      /\ At(step.block).root # None /\ At(step.block).header # None
  BY <1>3, ChainHandlerAt
<1>5. ChainTypes'
  BY <1>1, <1>2, <1>3, <1>4 DEF ChainTypes
<1>6. step'.block = step.block
  BY <1>2 DEF ChainTypes
<1>7. Keyed'
  BY <1>1, <1>2, <1>3, <1>4, <1>6 DEF Keyed
<1>8. NothingBefore'
  BY <1>1, <1>2, <1>4 DEF NothingBefore, serviceVars
<1> QED
  BY <1>1, <1>5, <1>7, <1>8, ServiceStays DEF IInv

LEMMA StepRecord ==
  ASSUME IInv, recordBlockInHistory
  PROVE  IInv'
<1> USE DEF recordBlockInHistory
<1>1. /\ UNCHANGED serviceVars /\ nonceHash' = nonceHash /\ main' = main
      /\ tip' = tip /\ epochStartIn' = epochStartIn
  OBVIOUS
<1>2. ChainTypes /\ Keyed /\ NothingBefore
  BY DEF IInv
<1>3. step.block \in Blocks \ {Genesis}
  BY <1>2 DEF Keyed, Idle
<1>4. ChainTypes'
  BY <1>1, <1>2, <1>3 DEF ChainTypes, Idle, BlockOrNone
<1>5. Keyed'
  BY <1>1, <1>2 DEF Keyed
<1>6. NothingBefore'
  BY <1>1, <1>2 DEF NothingBefore, serviceVars
<1> QED
  BY <1>1, <1>4, <1>5, <1>6, ServiceStays DEF IInv

LEMMA StepRollBack ==
  ASSUME IInv, rollBackOneBlock
  PROVE  IInv'
<1> USE DEF rollBackOneBlock
<1>1. /\ UNCHANGED serviceVars /\ nonceHash' = nonceHash
      /\ recorded' = recorded /\ epochStartIn' = epochStartIn
  OBVIOUS
<1>2. ChainTypes /\ Keyed /\ NothingBefore
  BY DEF IInv
<1> DEFINE p == Header[tip].prev
<1>3. FinalNonce \in Nat /\ tip \in Blocks /\ Header[tip].nonce \in 0 .. MaxNonce
  BY <1>2, ScQueryAssumption, HeaderFacts DEF ChainTypes
<1>4. tip # Genesis
  BY <1>3, GenesisIsFirst
<1>5. p \in Blocks /\ Header[tip].nonce = Header[p].nonce + 1
  BY <1>3, <1>4, HeaderFacts
<1>6. Header[p].nonce \in 0 .. MaxNonce
  BY <1>5, HeaderFacts
<1>7. At(p) \in ChainHandler /\ (At(p).header = None => At(p).root = None)
  BY <1>5, ChainHandlerAt
<1>8. FinalNonce > 0 => At(p).root # None
  <2>1. FinalNonce > 0 => Header[p].nonce # 0
    BY <1>3, <1>5, <1>6
  <2>2. FinalNonce > 0 => p # Genesis
    BY <1>5, <2>1, GenesisIsFirst
  <2> QED
    BY <1>5, <2>2, ChainHandlerAt
<1> HIDE DEF p
<1>9. tip' = p /\ main' = At(p) /\ step' = [at |-> "revert", block |-> tip]
  BY DEF p
<1>10. ChainTypes'
  BY <1>1, <1>2, <1>3, <1>5, <1>7, <1>9 DEF ChainTypes, BlockOrNone
<1>11. Keyed'
  BY <1>1, <1>2, <1>3, <1>4, <1>7, <1>9 DEF Keyed
<1>12. NothingBefore'
  BY <1>1, <1>2, <1>8, <1>9 DEF NothingBefore, serviceVars
<1> QED
  BY <1>1, <1>10, <1>11, <1>12, ServiceStays DEF IInv

LEMMA StepRevert ==
  ASSUME IInv, RevertStateToBlock
  PROVE  IInv'
<1> USE DEF RevertStateToBlock
<1>1. /\ UNCHANGED serviceVars /\ nonceHash' = nonceHash /\ main' = main
      /\ tip' = tip /\ recorded' = recorded
  OBVIOUS
<1>2. ChainTypes /\ Keyed /\ NothingBefore
  BY DEF IInv
<1>3. step.block \in Blocks \ {Genesis}
  BY <1>2 DEF Keyed, Idle
<1>4. /\ step' \in [at : {"idle", "current", "record", "revert", "clean"},
                    block : BlockOrNone]
      /\ step'.block = step.block /\ step'.at = "clean"
  BY <1>2 DEF ChainTypes
<1>5. /\ epochStartIn' \in [1 .. MaxEpoch -> BlockOrNone]
      /\ \A e \in 1 .. MaxEpoch : epochStartIn'[e] \in {None, epochStartIn[e]}
  BY <1>2 DEF ChainTypes, BlockOrNone
<1>6. ChainTypes'
  BY <1>1, <1>2, <1>4, <1>5 DEF ChainTypes
<1>7. Keyed'
  BY <1>1, <1>2, <1>3, <1>4, <1>5 DEF Keyed
<1>8. NothingBefore'
  BY <1>1, <1>2 DEF NothingBefore, serviceVars
<1> QED
  BY <1>1, <1>6, <1>7, <1>8, ServiceStays DEF IInv

LEMMA StepClean ==
  ASSUME IInv, cleanCachesAndStorageOnRollback
  PROVE  IInv'
<1> USE DEF cleanCachesAndStorageOnRollback
<1>1. /\ UNCHANGED serviceVars /\ epochStartIn' = epochStartIn /\ main' = main
      /\ tip' = tip /\ recorded' = recorded
  OBVIOUS
<1>2. ChainTypes /\ Keyed /\ NothingBefore
  BY DEF IInv
<1>3. /\ nonceHash' \in [0 .. MaxNonce -> BlockOrNone]
      /\ \A n \in 0 .. MaxNonce : nonceHash'[n] \in {None, nonceHash[n]}
  BY <1>2 DEF ChainTypes, BlockOrNone
<1>4. ChainTypes'
  BY <1>1, <1>2, <1>3 DEF ChainTypes, Idle, BlockOrNone
<1>5. Keyed'
  BY <1>1, <1>2, <1>3 DEF Keyed
<1>6. NothingBefore'
  BY <1>1, <1>2 DEF NothingBefore, serviceVars
<1> QED
  BY <1>1, <1>4, <1>5, <1>6, ServiceStays DEF IInv
-----------------------------------------------------------------------------
(* Answering a query *)

\* What the service does not touch.
LEMMA ChainStays ==
  ASSUME IInv, UNCHANGED chainVars
  PROVE  ChainTypes' /\ Keyed'
<1>1. /\ tip' = tip /\ main' = main /\ nonceHash' = nonceHash /\ recorded' = recorded
      /\ epochStartIn' = epochStartIn /\ step' = step
  BY DEF chainVars
<1>2. ChainTypes'
  BY <1>1 DEF IInv, ChainTypes
<1>3. Keyed'
  BY <1>1 DEF IInv, Keyed
<1> QED
  BY <1>2, <1>3

LEMMA QueryKinds ==
  ASSUME NEW q \in Queries
  PROVE  /\ q.kind \in {"current", "nonce", "hash"}
         /\ q.kind = "nonce" => q.nonce \in 0 .. MaxNonce
         /\ q.kind = "hash" => q.block \in Blocks
  BY ScQueryAssumption DEF Queries

\* The two lookups of a header.
LEMMA HeaderByNonce ==
  ASSUME IInv, NEW n \in Nat, getBlockHeaderByNonce(n) # None
  PROVE  /\ getBlockHeaderByNonce(n) \in recorded
         /\ getBlockHeaderByNonce(n) \in Blocks
         /\ Header[getBlockHeaderByNonce(n)].nonce = n
<1>1. ChainTypes /\ Keyed /\ MaxNonce \in Nat /\ None \notin Blocks
  BY ScQueryAssumption DEF IInv
<1>2. n \in 0 .. MaxNonce /\ nonceHash[n] \in recorded
  BY <1>1 DEF getBlockHeaderByNonce
<1>3. getBlockHeaderByNonce(n) = nonceHash[n]
  BY <1>1, <1>2 DEF getBlockHeaderByNonce
<1>4. nonceHash[n] \in Blocks
  BY <1>1, <1>2 DEF ChainTypes
<1> QED
  BY <1>1, <1>2, <1>3, <1>4 DEF Keyed

LEMMA HeaderByHash ==
  ASSUME IInv, NEW b, getBlockHeaderByHash(b) # None
  PROVE  getBlockHeaderByHash(b) \in Blocks
  BY DEF IInv, ChainTypes, getBlockHeaderByHash

\* The end of a query, with an error or an answer.
LEMMA StepReturn ==
  ASSUME IInv, Return, UNCHANGED <<chainVars, cache, hook>>,
         api' \in {api, NilChain}, UNCHANGED adapterVars
  PROVE  IInv'
<1>1. pc' = "idle" /\ query' = NoQuery /\ read' = None
  BY DEF Return
<1>2. UNCHANGED chainVars /\ cache' = cache /\ hook' = hook
      /\ info' = info /\ trie' = trie
  BY DEF adapterVars
<1>3. NilChain \in ChainHandler /\ NilChain.header = None
  BY DEF NilChain, ChainHandler, BlockOrNone, RootOrNone
<1>4. ChainTypes' /\ Keyed'
  BY <1>2, ChainStays
<1>5. ServiceTypes'
  <2>1. query' \in [asked : Queries \cup {None}, header : BlockOrNone,
                    root : RootOrNone]
    BY <1>1 DEF NoQuery, BlockOrNone, RootOrNone
  <2>2. api' \in ChainHandler
    BY <1>3 DEF IInv, ServiceTypes
  <2> QED
    BY <1>1, <1>2, <2>1, <2>2 DEF IInv, ServiceTypes
<1>6. InfoIsOfTrie' /\ FirstHeader'
  BY <1>1, <1>2 DEF IInv, InfoIsOfTrie, FirstHeader
<1>7. Progress'
  BY <1>1, <1>3 DEF IInv, Progress
<1>8. NothingBefore'
  <2>1. main' = main /\ tip' = tip /\ recorded' = recorded /\ step' = step
    BY DEF chainVars
  <2> QED
    BY <1>1, <1>3, <2>1 DEF IInv, NothingBefore
<1>9. ReadsWhatWasFound' /\ EpochStartIsOfTheEpoch' /\ NonceMeansItsState'
  BY <1>1 DEF ReadsWhatWasFound, ReadsTheStateAskedFor, EpochStartIsOfTheEpoch,
       NonceMeansItsState
<1> QED
  BY <1>4, <1>5, <1>6, <1>7, <1>8, <1>9 DEF IInv

LEMMA StepExecute ==
  ASSUME IInv, NEW q \in Queries, ExecuteQuery(q)
  PROVE  IInv'
<1> USE DEF ExecuteQuery
<1>1. /\ UNCHANGED chainVars /\ api' = api /\ info' = info /\ trie' = trie
      /\ cache' = cache /\ hook' = hook /\ read' = read
  BY DEF adapterVars
<1>2. query' = [asked |-> q, header |-> None, root |-> None]
  BY DEF NoQuery
<1>3. pc = "idle" /\ pc' = "header" /\ read = None
  BY DEF IInv, Progress
<1>4. ChainTypes' /\ Keyed'
  BY <1>1, ChainStays
<1>5. ServiceTypes'
  <2>1. query' \in [asked : Queries \cup {None}, header : BlockOrNone,
                    root : RootOrNone]
    <3> HIDE DEF ExecuteQuery
    <3>1. query' = [asked |-> q, header |-> None, root |-> None]
      BY <1>2
    <3>2. q \in Queries \cup {None}
      OBVIOUS
    <3>3. None \in BlockOrNone /\ None \in RootOrNone
      BY DEF BlockOrNone, RootOrNone
    <3> QED
      BY <3>1, <3>2, <3>3
  <2> QED
    BY <1>1, <1>3, <2>1 DEF IInv, ServiceTypes
<1>6. InfoIsOfTrie' /\ FirstHeader'
  BY <1>1, <1>3 DEF IInv, InfoIsOfTrie, FirstHeader
<1>7. Progress'
  BY <1>1, <1>2, <1>3 DEF IInv, Progress
<1>8. NothingBefore'
  BY <1>1, <1>3 DEF IInv, NothingBefore, chainVars
<1>9. ReadsWhatWasFound' /\ EpochStartIsOfTheEpoch' /\ NonceMeansItsState'
  BY <1>1, <1>3 DEF ReadsWhatWasFound, ReadsTheStateAskedFor, EpochStartIsOfTheEpoch,
       NonceMeansItsState
<1> QED
  BY <1>4, <1>5, <1>6, <1>7, <1>8, <1>9 DEF IInv

LEMMA StepExtractHeader ==
  ASSUME IInv, extractHeader
  PROVE  IInv'
<1> DEFINE q == query.asked
           h == CASE q.kind = "current" -> main.header
                  [] q.kind = "nonce"   -> getBlockHeaderByNonce(q.nonce)
                  [] q.kind = "hash"    -> getBlockHeaderByHash(q.block)
<1>1. /\ UNCHANGED chainVars /\ api' = api /\ info' = info /\ trie' = trie
      /\ cache' = cache /\ hook' = hook
      /\ UNCHANGED <<chainVars, cache, hook>> /\ UNCHANGED adapterVars
  BY DEF extractHeader, adapterVars
<1>2. pc = "header" /\ read = None /\ q \in Queries
  BY DEF extractHeader, IInv, Progress
<1>3. /\ q.kind \in {"current", "nonce", "hash"}
      /\ q.kind = "nonce" => q.nonce \in 0 .. MaxNonce
      /\ q.kind = "hash" => q.block \in Blocks
  BY <1>2, QueryKinds
<1>4. /\ h \in BlockOrNone
      /\ q.kind = "nonce" /\ h # None => Header[h].nonce = q.nonce
  <2>1. CASE q.kind = "current"
    <3>1. h = main.header
      BY <2>1
    <3> QED
      BY <2>1, <3>1 DEF IInv, ChainTypes, ChainHandler
  <2>2. CASE q.kind = "nonce"
    <3>1. h = getBlockHeaderByNonce(q.nonce)
      BY <2>2
    <3>2. q.nonce \in Nat
      BY <1>3, <2>2
    <3> QED
      BY <3>1, <3>2, HeaderByNonce DEF BlockOrNone
  <2>3. CASE q.kind = "hash"
    <3>1. h = getBlockHeaderByHash(q.block)
      BY <2>3
    <3> QED
      BY <2>3, <3>1, HeaderByHash DEF BlockOrNone
  <2> QED
    BY <1>3, <2>1, <2>2, <2>3
<1>5. IF h = None /\ q.kind # "current"
      THEN Return
      ELSE /\ query' = [query EXCEPT !.header = h]
           /\ pc' = IF q.kind = "current" THEN "root" ELSE "next"
           /\ UNCHANGED read
  BY DEF extractHeader
<1> HIDE DEF h
<1>6. CASE h = None /\ q.kind # "current"
  BY <1>1, <1>5, <1>6, StepReturn
<1>7. CASE ~ (h = None /\ q.kind # "current")
  <2>1. /\ query' = [query EXCEPT !.header = h] /\ read' = read
        /\ pc' = IF q.kind = "current" THEN "root" ELSE "next"
    BY <1>5, <1>7
  <2>2. /\ query' \in [asked : Queries \cup {None}, header : BlockOrNone,
                       root : RootOrNone]
        /\ query'.asked = q /\ query'.header = h
    BY <1>4, <2>1 DEF IInv, ServiceTypes
  <2>3. ServiceTypes'
    BY <1>1, <2>1, <2>2 DEF IInv, ServiceTypes
  <2>4. InfoIsOfTrie' /\ FirstHeader'
    BY <1>1, <1>4, <1>7, <2>1, <2>2 DEF IInv, InfoIsOfTrie, FirstHeader
  <2>5. Progress'
    BY <1>1, <1>2, <1>7, <2>1, <2>2 DEF IInv, Progress
  <2>6. NothingBefore'
    BY <1>1, <2>1 DEF IInv, NothingBefore, chainVars
  <2>7. ReadsWhatWasFound' /\ EpochStartIsOfTheEpoch' /\ NonceMeansItsState'
    BY <1>2, <2>1 DEF ReadsWhatWasFound, ReadsTheStateAskedFor,
         EpochStartIsOfTheEpoch, NonceMeansItsState
  <2> QED
    BY <1>1, <2>3, <2>4, <2>5, <2>6, <2>7, ChainStays DEF IInv
<1> QED
  BY <1>6, <1>7

LEMMA StepExtractRoot ==
  ASSUME IInv, extractCurrentRootHash
  PROVE  IInv'
<1> USE DEF extractCurrentRootHash
<1>1. /\ UNCHANGED chainVars /\ api' = api /\ info' = info /\ trie' = trie
      /\ cache' = cache /\ hook' = hook /\ read' = read
  BY DEF adapterVars
<1>2. pc = "root" /\ read = None /\ query.asked \in Queries
      /\ query.asked.kind = "current"
  BY DEF IInv, Progress
<1>3. main.root \in RootOrNone
  BY DEF IInv, ChainTypes, ChainHandler
<1>4. /\ query' \in [asked : Queries \cup {None}, header : BlockOrNone,
                     root : RootOrNone]
      /\ query'.asked = query.asked /\ query'.root = main.root
      /\ query'.header = query.header
  BY <1>3 DEF IInv, ServiceTypes
<1>5. pc' = IF main.root = None THEN "run" ELSE "load"
  OBVIOUS
<1>6. ServiceTypes'
  BY <1>1, <1>4, <1>5 DEF IInv, ServiceTypes
<1>7. InfoIsOfTrie' /\ FirstHeader'
  BY <1>1, <1>5 DEF IInv, InfoIsOfTrie, FirstHeader
<1>8. Progress'
  BY <1>1, <1>2, <1>4, <1>5 DEF IInv, Progress
<1>9. NothingBefore'
  BY <1>1, <1>4, <1>5 DEF IInv, NothingBefore, chainVars
<1>10. ReadsWhatWasFound' /\ EpochStartIsOfTheEpoch' /\ NonceMeansItsState'
  BY <1>1, <1>2, <1>4, <1>5 DEF ReadsWhatWasFound, ReadsTheStateAskedFor,
       EpochStartIsOfTheEpoch, NonceMeansItsState
<1> QED
  BY <1>1, <1>6, <1>7, <1>8, <1>9, <1>10, ChainStays DEF IInv
LEMMA StepRootHashForBlock ==
  ASSUME IInv, getRootHashForBlock
  PROVE  IInv'
<1> DEFINE n == Header[query.header].nonce
           next == getBlockHeaderByNonce(n + 1)
           found == RootHashForBlock(query.header, next)
<1>1. /\ UNCHANGED chainVars /\ api' = api /\ info' = info /\ trie' = trie
      /\ cache' = cache /\ hook' = hook
      /\ UNCHANGED <<chainVars, cache, hook>> /\ UNCHANGED adapterVars
  BY DEF getRootHashForBlock, adapterVars
<1>2. /\ pc = "next" /\ read = None /\ query.asked \in Queries
      /\ query.header \in Blocks
  BY DEF getRootHashForBlock, IInv, Progress, ServiceTypes, BlockOrNone
<1>3. n \in 0 .. MaxNonce /\ n + 1 \in Nat
  BY <1>2, HeaderFacts, ScQueryAssumption
<1>4. IF next = None
      THEN Return
      ELSE /\ query' = [query EXCEPT !.header = found.header, !.root = found.root]
           /\ pc' = "load"
           /\ UNCHANGED read
  BY DEF getRootHashForBlock
<1>5. CASE next = None
  BY <1>1, <1>4, <1>5, StepReturn
<1>6. CASE next # None
  <2>1. next \in recorded /\ next \in Blocks /\ Header[next].nonce = n + 1
    BY <1>3, <1>6, HeaderByNonce
  <2>2. next # Genesis
    BY <1>3, <2>1, GenesisIsFirst
  <2>3. Header[next].prev \in Blocks /\ Header[Header[next].prev].nonce = n
    <3>1. Header[next].prev \in Blocks
          /\ Header[next].nonce = Header[Header[next].prev].nonce + 1
      BY <2>1, <2>2, HeaderFacts
    <3>2. Header[Header[next].prev].nonce \in 0 .. MaxNonce
      BY <3>1, HeaderFacts
    <3> QED
      BY <1>3, <2>1, <3>1, <3>2
  <2> HIDE DEF next
  <2>4. found.header \in Blocks /\ found.root \in Roots
    BY <1>2, <2>1, <2>3, HeaderFacts DEF RootHashForBlock
  <2>5. ScheduledAgree => \E b \in Blocks : /\ Header[b].nonce = n
                                            /\ Header[b].committed = found.root
    <3>1. CASE Header[next].scheduled
      BY <2>3, <3>1 DEF RootHashForBlock
    <3>2. CASE ~ Header[next].scheduled
      <4>1. found.root = Header[query.header].root
        BY <3>2 DEF RootHashForBlock
      <4>2. ScheduledAgree =>
              Header[query.header].committed = Header[query.header].root
        BY <1>2, <2>1, <3>2 DEF ScheduledAgree
      <4> QED
        BY <1>2, <4>1, <4>2
    <3> QED
      BY <3>1, <3>2
  <2> HIDE DEF found
  <2>6. /\ query' = [query EXCEPT !.header = found.header, !.root = found.root]
        /\ pc' = "load" /\ read' = read
    BY <1>4, <1>6
  <2>7. /\ query' \in [asked : Queries \cup {None}, header : BlockOrNone,
                       root : RootOrNone]
        /\ query'.asked = query.asked /\ query'.header = found.header
        /\ query'.root = found.root
    BY <2>4, <2>6 DEF IInv, ServiceTypes, BlockOrNone, RootOrNone
  <2>8. query'.root # None
    BY <2>4, <2>7, ScQueryAssumption
  <2>9. ServiceTypes'
    BY <1>1, <2>6, <2>7 DEF IInv, ServiceTypes
  <2>10. InfoIsOfTrie' /\ FirstHeader'
    BY <1>1, <2>6 DEF IInv, InfoIsOfTrie, FirstHeader
  <2>11. Progress'
    BY <1>1, <1>2, <2>6, <2>7, <2>8 DEF IInv, Progress
  <2>12. NothingBefore'
    <3>1. FinalNonce > 0 => main.root # None
      BY <2>1, <2>2 DEF IInv, NothingBefore
    <3> QED
      BY <1>1, <2>6, <3>1 DEF NothingBefore, chainVars
  <2>13. ReadsWhatWasFound' /\ EpochStartIsOfTheEpoch'
    BY <1>2, <2>6 DEF ReadsWhatWasFound, ReadsTheStateAskedFor,
         EpochStartIsOfTheEpoch
  <2>14. ScheduledAgree => NonceMeansItsState'
    <3>1. query.asked.kind = "nonce" => n = query.asked.nonce
      BY <1>2 DEF IInv, FirstHeader
    <3> QED
      BY <2>5, <2>7, <3>1 DEF NonceMeansItsState
  <2> QED
    BY <1>1, <2>9, <2>10, <2>11, <2>12, <2>13, <2>14, ChainStays DEF IInv
<1> QED
  BY <1>5, <1>6

\* The hint of a header is an epoch or none.
LEMMA HintType ==
  ASSUME NEW b \in Blocks
  PROVE  HintOf(b) \in Hints
  BY HeaderFacts DEF HintOf, Hints

LEMMA StepRecreateTrie ==
  ASSUME IInv, recreateTrie
  PROVE  IInv'
<1>1. /\ UNCHANGED chainVars /\ cache' = cache /\ hook' = hook
      /\ UNCHANGED <<chainVars, cache, hook>>
  BY DEF recreateTrie
<1>2. /\ pc = "load" /\ read = None /\ query.asked \in Queries
      /\ query.root \in Roots /\ query.header \in BlockOrNone
  BY DEF recreateTrie, IInv, Progress, ServiceTypes, RootOrNone
<1>3. CASE query.header = None
  <2>1. api' = NilChain /\ Return /\ UNCHANGED adapterVars
    BY <1>3 DEF recreateTrie
  <2> QED
    BY <1>1, <2>1, StepReturn
<1>4. CASE query.header # None
  <2> DEFINE new == [nonce |-> 0, root |-> query.root]
             hint == HintOf(query.header)
             failed == RecreateFails(new, hint)
  <2>1. /\ api' = [header |-> query.header, root |-> query.root]
        /\ RecreateTrie(new, hint)
        /\ pc' = IF failed THEN "failed" ELSE "hook"
        /\ read' = IF failed THEN [root |-> query.root, answer |-> "error"] ELSE None
        /\ query' = query
    BY <1>4 DEF recreateTrie
  <2>2. new \in Infos /\ hint \in Hints
    BY <1>2, <1>4, HintType, ScQueryAssumption DEF Infos, BlockOrNone
  <2> HIDE DEF new, hint
  <2>3. /\ trie' \in Tries /\ info' \in Infos \cup {None}
        /\ info' # None => info'.root = trie'.root
    <3>1. trie \in Tries /\ info \in Infos \cup {None}
      BY DEF IInv, ServiceTypes
    <3>2. info # None => info.root = trie.root
      BY DEF IInv, InfoIsOfTrie
    <3> QED
      BY <2>1, <2>2, <3>1, <3>2, RecreateTrieFacts
  <2> HIDE DEF failed
  <2>4. pc' \in {"failed", "hook"} /\ (pc' # "failed" => read' = None)
        /\ (read' # None => read'.root = query.root)
        /\ read' \in [root : Roots, answer : {"found", "absent", "error"}] \cup {None}
    BY <1>2, <2>1
  <2>5. None \notin Roots /\ None \notin Blocks
    BY ScQueryAssumption
  <2>6. ServiceTypes'
    BY <1>1, <1>2, <2>1, <2>3, <2>4 DEF IInv, ServiceTypes, ChainHandler, RootOrNone
  <2>7. InfoIsOfTrie' /\ FirstHeader'
    BY <2>3, <2>4 DEF InfoIsOfTrie, FirstHeader
  <2>8. Progress'
    BY <1>2, <1>4, <2>1, <2>4, <2>5 DEF Progress
  <2>9. NothingBefore'
    <3>1. FinalNonce > 0 => main.root # None
      BY <1>2 DEF IInv, NothingBefore
    <3> QED
      BY <1>1, <2>4, <3>1 DEF NothingBefore, chainVars
  <2>10. ReadsWhatWasFound' /\ EpochStartIsOfTheEpoch'
    BY <2>1, <2>4 DEF ReadsWhatWasFound, ReadsTheStateAskedFor,
         EpochStartIsOfTheEpoch
  <2>11. ScheduledAgree => NonceMeansItsState'
    BY <1>2, <2>1 DEF IInv, NonceMeansItsState
  <2> QED
    BY <1>1, <2>6, <2>7, <2>8, <2>9, <2>10, <2>11, ChainStays DEF IInv
<1> QED
  BY <1>3, <1>4
\* The epoch start header, cached or stored, is of the epoch it is asked for.
LEMMA EpochStartFacts ==
  ASSUME IInv, NEW e \in 1 .. MaxEpoch, EpochStartBlockHdr(e) # None
  PROVE  /\ EpochStartBlockHdr(e) \in Blocks
         /\ Header[EpochStartBlockHdr(e)].epoch = e
<1>1. CASE CachedAt(e) # {}
  <2>1. EpochStartBlockHdr(e) \in CachedAt(e)
    BY <1>1 DEF EpochStartBlockHdr
  <2> QED
    BY <2>1 DEF CachedAt, IInv, ServiceTypes
<1>2. CASE CachedAt(e) = {}
  <2>1. EpochStartBlockHdr(e) = epochStartIn[e]
    BY <1>2 DEF EpochStartBlockHdr
  <2> QED
    BY <2>1 DEF IInv, ChainTypes, Keyed, BlockOrNone
<1> QED
  BY <1>1, <1>2

LEMMA StepSetHook ==
  ASSUME IInv, setHookHeaders
  PROVE  IInv'
<1> DEFINE h == query.header
           e == Header[h].epoch
           b == IF e = 0 THEN None ELSE EpochStartBlockHdr(e)
<1>1. /\ UNCHANGED chainVars /\ api' = api /\ info' = info /\ trie' = trie
      /\ UNCHANGED adapterVars
  BY DEF setHookHeaders, adapterVars
<1>2. /\ pc = "hook" /\ read = None /\ query.asked \in Queries
      /\ h \in Blocks /\ query.root \in Roots
      /\ api = [header |-> query.header, root |-> query.root]
  BY DEF setHookHeaders, IInv, Progress, ServiceTypes, BlockOrNone, RootOrNone
<1>3. e \in 0 .. MaxEpoch /\ MaxEpoch \in Nat
  BY <1>2, HeaderFacts, ScQueryAssumption
<1>4. IF e > 0 /\ b = None
      THEN Return /\ UNCHANGED <<cache, hook>>
      ELSE /\ cache' = IF e = 0 THEN cache ELSE Cached(b)
           /\ hook' = [current |-> h, epochStart |-> IF Header[h].start THEN h ELSE b]
           /\ pc' = "run"
           /\ UNCHANGED <<query, read>>
  BY DEF setHookHeaders
<1>5. e > 0 /\ b # None => b \in Blocks /\ Header[b].epoch = e
  <2>1. ASSUME e > 0, b # None PROVE b \in Blocks /\ Header[b].epoch = e
    <3>1. e \in 1 .. MaxEpoch /\ b = EpochStartBlockHdr(e)
      BY <1>3, <2>1
    <3> HIDE DEF e
    <3> QED
      BY <2>1, <3>1, EpochStartFacts
  <2> QED
    BY <2>1
<1>6. b \in BlockOrNone
  <2>1. e = 0 => b = None
    OBVIOUS
  <2> QED
    BY <1>3, <1>5, <2>1 DEF BlockOrNone
<1> HIDE DEF b
<1>7. CASE e > 0 /\ b = None
  <2>1. Return /\ UNCHANGED <<chainVars, cache, hook>>
    BY <1>1, <1>4, <1>7
  <2> QED
    BY <1>1, <2>1, StepReturn
<1>8. CASE ~ (e > 0 /\ b = None)
  <2>1. /\ cache' = IF e = 0 THEN cache ELSE Cached(b)
        /\ hook' = [current |-> h, epochStart |-> IF Header[h].start THEN h ELSE b]
        /\ pc' = "run" /\ query' = query /\ read' = read
    BY <1>4, <1>8
  <2>2. /\ cache' \subseteq Blocks /\ IsFiniteSet(cache')
        /\ Cardinality(cache') <= EpochStartHdrCacheSize
    <3>1. /\ cache \subseteq Blocks /\ IsFiniteSet(cache)
          /\ Cardinality(cache) <= EpochStartHdrCacheSize
      BY DEF IInv, ServiceTypes
    <3>2. CASE e = 0
      BY <2>1, <3>1, <3>2
    <3>3. CASE e # 0
      <4>1. b \in Blocks /\ cache' = Cached(b)
        BY <1>3, <1>5, <1>8, <2>1, <3>3
      <4> QED
        BY <3>1, <4>1, CacheFits
    <3> QED
      BY <3>2, <3>3
  <2>3. hook' \in [current : BlockOrNone, epochStart : BlockOrNone]
    BY <1>2, <1>6, <2>1 DEF BlockOrNone
  <2>4. ServiceTypes'
    BY <1>1, <2>1, <2>2, <2>3 DEF IInv, ServiceTypes
  <2>5. None \notin Roots /\ None \notin Blocks
    BY ScQueryAssumption
  <2>6. InfoIsOfTrie' /\ FirstHeader'
    BY <1>1, <2>1 DEF IInv, InfoIsOfTrie, FirstHeader
  <2>7. Progress'
    BY <1>1, <1>2, <2>1, <2>5 DEF Progress
  <2>8. NothingBefore'
    <3>1. FinalNonce > 0 => main.root # None
      BY <1>2 DEF IInv, NothingBefore
    <3> QED
      BY <1>1, <1>2, <2>1, <2>5, <3>1 DEF NothingBefore, chainVars
  <2>9. ReadsWhatWasFound'
    BY <1>2, <2>1 DEF ReadsWhatWasFound, ReadsTheStateAskedFor
  <2>10. EpochStartIsOfTheEpoch'
    <3>1. e > 0 => b \in Blocks /\ Header[b].epoch = e
      BY <1>5, <1>8
    <3>2. hook'.epochStart = IF Header[h].start THEN h ELSE b
      BY <2>1
    <3> QED
      BY <1>2, <2>1, <2>5, <3>1, <3>2 DEF EpochStartIsOfTheEpoch
  <2>11. ScheduledAgree => NonceMeansItsState'
    BY <1>2, <2>1 DEF IInv, NonceMeansItsState
  <2> QED
    BY <1>1, <2>4, <2>6, <2>7, <2>8, <2>9, <2>10, <2>11, ChainStays DEF IInv
<1> QED
  BY <1>7, <1>8

LEMMA StepReadAccount ==
  ASSUME IInv, readAccount
  PROVE  IInv'
<1> DEFINE new == [nonce |-> Header[api.header].nonce, root |-> api.root]
<1>1. /\ UNCHANGED chainVars /\ pc' = pc /\ query' = query /\ api' = api
      /\ cache' = cache /\ hook' = hook
  BY DEF readAccount
<1>2. /\ pc = "run" /\ query.asked \in Queries
      /\ api.header \in Blocks /\ api.root \in Roots
  BY DEF readAccount, IInv, Progress, ServiceTypes, ChainHandler, BlockOrNone,
       RootOrNone
<1>3. new \in Infos /\ NoHint \in Hints
  BY <1>2, HeaderFacts DEF Infos, Hints
<1>4. /\ RecreateTrie(new, NoHint)
      /\ read' = IF RecreateFails(new, NoHint)
                 THEN [root |-> new.root, answer |-> "error"]
                 ELSE [root |-> trie'.root, answer |-> Lookup(trie', Active)]
  BY DEF readAccount
<1>5. new.root = api.root
  OBVIOUS
<1> HIDE DEF new
<1>6. /\ trie' \in Tries /\ info' \in Infos \cup {None}
      /\ info' # None => info'.root = trie'.root
      /\ ~ RecreateFails(new, NoHint) => trie'.root = new.root
  <2>1. trie \in Tries /\ info \in Infos \cup {None}
    BY DEF IInv, ServiceTypes
  <2>2. info # None => info.root = trie.root
    BY DEF IInv, InfoIsOfTrie
  <2> QED
    BY <1>3, <1>4, <2>1, <2>2, RecreateTrieFacts
<1>7. /\ read' \in [root : Roots, answer : {"found", "absent", "error"}]
      /\ read'.root = api.root
  <2>1. Lookup(trie', Active) \in {"found", "absent", "error"}
    BY LookupType
  <2>2. CASE RecreateFails(new, NoHint)
    BY <1>2, <1>4, <1>5, <2>2
  <2>3. CASE ~ RecreateFails(new, NoHint)
    BY <1>2, <1>4, <1>5, <1>6, <2>1, <2>3
  <2> QED
    BY <2>2, <2>3
<1>8. ServiceTypes'
  BY <1>1, <1>6, <1>7 DEF IInv, ServiceTypes
<1>9. InfoIsOfTrie' /\ FirstHeader'
  BY <1>1, <1>2, <1>6 DEF InfoIsOfTrie, FirstHeader
<1>10. Progress'
  BY <1>1, <1>2 DEF IInv, Progress
<1>11. NothingBefore'
  BY <1>1 DEF IInv, NothingBefore, chainVars
<1>12. ReadsWhatWasFound'
  <2>1. query.root # None => api.root = query.root
    BY <1>2 DEF IInv, Progress
  <2>2. query.root = None => ~ (FinalNonce > 0)
    BY <1>2, ScQueryAssumption DEF IInv, NothingBefore
  <2>3. query.root # None => hook.current = query.header
    BY <1>2 DEF IInv, ReadsWhatWasFound, ReadsTheStateAskedFor
  <2> QED
    BY <1>1, <1>7, <2>1, <2>2, <2>3 DEF ReadsWhatWasFound, ReadsTheStateAskedFor
<1>13. EpochStartIsOfTheEpoch'
  BY <1>1 DEF IInv, EpochStartIsOfTheEpoch
<1>14. ScheduledAgree => NonceMeansItsState'
  BY <1>1 DEF IInv, NonceMeansItsState
<1> QED
  BY <1>1, <1>8, <1>9, <1>10, <1>11, <1>12, <1>13, <1>14, ChainStays DEF IInv

LEMMA StepReturnOutput ==
  ASSUME IInv, ReturnVMOutput
  PROVE  IInv'
<1>1. /\ Return /\ UNCHANGED <<chainVars, cache, hook>> /\ UNCHANGED adapterVars
      /\ api' = api
  BY DEF ReturnVMOutput
<1> QED
  BY <1>1, StepReturn

-----------------------------------------------------------------------------
(* The theorems *)

LEMMA StepStutter ==
  ASSUME IInv, UNCHANGED vars
  PROVE  IInv'
<1>1. UNCHANGED chainVars /\ UNCHANGED serviceVars
  BY DEF vars
<1>2. NothingBefore'
  BY <1>1 DEF IInv, NothingBefore, chainVars, serviceVars
<1> QED
  BY <1>1, <1>2, ServiceStays, ChainStays DEF IInv

LEMMA StepIInv == IInv /\ [Next]_vars => IInv'
<1> SUFFICES ASSUME IInv, [Next]_vars PROVE IInv'
  OBVIOUS
<1>1. CASE Chain
  BY <1>1, StepSave, StepSetCurrent, StepRecord, StepRollBack, StepRevert, StepClean
     DEF Chain
<1>2. CASE Service
  BY <1>2, StepExecute, StepExtractHeader, StepExtractRoot, StepRootHashForBlock,
     StepRecreateTrie, StepSetHook, StepReadAccount, StepReturnOutput
     DEF Service
<1>3. CASE UNCHANGED vars
  BY <1>3, StepStutter
<1> QED
  BY <1>1, <1>2, <1>3 DEF Next

LEMMA IInvHolds == Spec => []IInv
  BY InitIInv, StepIInv, PTL DEF Spec

(* Types, and the size of the cache of epoch start headers, whatever       *)
(* epochs are queried (getEpochStartBlockHdr).                             *)
THEOREM TypeCorrect == Spec => []TypeOK
<1>1. IInv => TypeOK
  BY DEF IInv, ChainTypes, ServiceTypes, TypeOK, Tries, Infos
<1> QED
  BY <1>1, IInvHolds, PTL

(* The VM reads the state of the root hash found for its query, and its    *)
(* hook has the header found for it, whatever queries came before and      *)
(* however they ended (executeScCall, accountsDBApi).  A query of the      *)
(* current block that finds no root hash at all is excepted: where the     *)
(* first block of the chain can be rolled back it runs on what the query   *)
(* before it left.                                                         *)
THEOREM QueriesReadTheirState ==
  Spec => [](FinalNonce > 0 \/ query.root # None => ReadsTheStateAskedFor)
<1>1. IInv => (FinalNonce > 0 \/ query.root # None => ReadsTheStateAskedFor)
  BY DEF IInv, ReadsWhatWasFound
<1> QED
  BY <1>1, IInvHolds, PTL

(* A query by nonce runs on the state some block of that nonce left, for   *)
(* any commits and rollbacks between its two header lookups                *)
(* (getRootHashForBlock), where forks agree on whether scheduled           *)
(* miniblocks are enabled.                                                 *)
THEOREM NoncesMeanTheirState ==
  ASSUME ScheduledAgree
  PROVE  Spec => []NonceMeansItsState
<1>1. IInv => NonceMeansItsState
  BY DEF IInv
<1> QED
  BY <1>1, IInvHolds, PTL

(* The epoch start header the contract sees is of the epoch of its block,  *)
(* for any cache size and any rollbacks (getEpochStartBlockHdr).           *)
THEOREM EpochStartsFit == Spec => []EpochStartIsOfTheEpoch
<1>1. IInv => EpochStartIsOfTheEpoch
  BY DEF IInv
<1> QED
  BY <1>1, IInvHolds, PTL
-----------------------------------------------------------------------------
(* States the DBs have are readable *)

\* The DBs have the root node and the leaf of the state.
Kept(r) == RootNodeIn[r] # {} /\ LeafIn[r] # {}

Placed(r, e) ==
  Kept(r) => /\ RootNodeIn[r] \cap {e - 1, e} # {}
             /\ LeafIn[r] \cap {e - 1, e} # {}

(* What a kept state of a block in epoch e needs is in the DB of e or of   *)
(* the epoch before, as the state the block before left is: what changes   *)
(* is written to the DB of the current epoch, and the rest is copied there *)
(* by the snapshot that every epoch start takes and that is over before    *)
(* the epoch is (StateStorage).                                            *)
KeptNearby ==
  \A b \in Blocks :
    /\ Placed(Header[b].root, Header[b].epoch)
    /\ Placed(Header[b].committed, Header[b].epoch)
    /\ b # Genesis => Placed(Header[Header[b].prev].committed, Header[b].epoch)

(* Between the two getters of the chain handler that a query of the        *)
(* current block calls, the node changes to the next epoch at most, or     *)
(* rolls back one block.                                                   *)
PromptRead ==
  extractCurrentRootHash /\ query.header # None =>
    \/ Header[tip].epoch - Header[query.header].epoch \in {0, 1}
    \/ tip = Header[query.header].prev

\* A search that starts in the DB of epoch s finds what the state needs.
Covers(s, r) ==
  /\ s \in Nat
  /\ RootNodeIn[r] \cap {s - 1, s, s + 1} # {}
  /\ LeafIn[r] \cap {s - 1, s, s + 1} # {}

ChainIsAtTip == main = At(tip) /\ Genesis \in recorded

TrieCovers ==
  trie.root # EmptyRoot /\ Kept(trie.root) => Covers(trie.storage, trie.root)

\* The service stays at a state it could load.
ApiIsLoaded ==
  api.header # None /\ Kept(api.root) => trie.root = api.root

FoundCovers ==
  pc = "load" /\ query.header # None /\ Kept(query.root) =>
    Covers(Header[query.header].epoch, query.root)

KInv ==
  ChainIsAtTip /\ TrieCovers /\ ApiIsLoaded /\ FoundCovers /\ KeptStateIsReadable

\* The active epochs are consecutive: what lies between two of them is active.
LEMMA ActiveIsARange ==
  ASSUME ChainTypes, Genesis \in recorded,
         NEW f \in Nat, Min(Active) <= f, f <= Max(Active)
  PROVE  f \in Active
<1> DEFINE epochs == {Header[b].epoch : b \in recorded \cup ({step.block} \ {None})}
           e == Max(epochs)
<1>1. epochs \subseteq 0 .. MaxEpoch /\ epochs # {} /\ MaxEpoch \in Nat
  <2>1. recorded \cup ({step.block} \ {None}) \subseteq Blocks
    BY DEF ChainTypes, BlockOrNone
  <2> QED
    BY <2>1, HeaderFacts, ScQueryAssumption
<1>2. e \in epochs
  BY <1>1, MaxIsGreatest
<1>3. e \in Nat
  BY <1>1, <1>2
<1>4. Active = {d \in 0 .. e : d > e - NumActive}
  BY DEF Active
<1> HIDE DEF e, epochs
<1>5. NumActive \in Nat \ {0}
  BY ScQueryAssumption
<1>6. Active \subseteq 0 .. e /\ e \in Active
  BY <1>3, <1>4, <1>5
<1>7. Min(Active) \in Active /\ Max(Active) \in Active
  <2>1. Active \subseteq Nat /\ Active # {}
    BY <1>3, <1>6
  <2>2. Min(Active) \in Active
    BY <2>1, MinIsLeast
  <2>3. Max(Active) \in Active
    BY <1>3, <1>6, <2>1, MaxIsGreatest
  <2> QED
    BY <2>2, <2>3
<1>8. Min(Active) \in 0 .. e /\ Min(Active) > e - NumActive /\ Max(Active) \in 0 .. e
  BY <1>4, <1>7
<1> QED
  BY <1>3, <1>4, <1>5, <1>8

\* The storage manager of epoch s searches the DBs of s, of the epoch before and
\* of the one after (trieStorageManagerInEpoch.Get, GetFromEpoch).
LEMMA SearchesAround ==
  ASSUME ChainTypes, Genesis \in recorded, NEW s \in Nat,
         NEW f \in Nat, f \in {s - 1, s, s + 1}
  PROVE  f \in Searched(s, Active)
<1>1. ASSUME NEW d \in Nat, f \in {d, d + 1} PROVE f \in GetFromEpoch(d, Active)
  <2> DEFINE part == IF Min(Active) <= f /\ f <= Max(Active) THEN Active ELSE {f}
  <2>1. f \in part
    BY ActiveIsARange
  <2>2. part \in {IF Min(Active) <= h /\ h <= Max(Active) THEN Active ELSE {h} :
                     h \in {d, d + 1}}
    BY <1>1
  <2> HIDE DEF part
  <2> QED
    BY <2>1, <2>2 DEF GetFromEpoch
<1>2. Searched(s, Active) = GetInEpoch(s, Active)
  BY DEF Searched, BaseStorage
<1>3. CASE f \in {s, s + 1}
  <2>1. f \in GetFromEpoch(s - 0, Active)
    BY <1>1, <1>3
  <2>2. 0 \in {j \in 0 .. numEpochsToVerify - 1 : j <= s}
    BY DEF numEpochsToVerify
  <2> QED
    BY <1>2, <2>1, <2>2 DEF GetInEpoch
<1>4. CASE f = s - 1
  <2>1. f \in GetFromEpoch(s - 1, Active)
    BY <1>1, <1>4
  <2>2. 1 \in {j \in 0 .. numEpochsToVerify - 1 : j <= s}
    BY <1>4 DEF numEpochsToVerify
  <2> QED
    BY <1>2, <2>1, <2>2 DEF GetInEpoch
<1> QED
  BY <1>3, <1>4

LEMMA CoveredIsFound ==
  ASSUME ChainTypes, Genesis \in recorded,
         NEW s, NEW r \in Roots, Covers(s, r)
  PROVE  /\ RootNodeIn[r] \cap Searched(s, Active) # {}
         /\ LeafIn[r] \cap Searched(s, Active) # {}
<1>1. s \in Nat
  BY DEF Covers
<1>2. RootNodeIn[r] \subseteq Nat /\ LeafIn[r] \subseteq Nat
  BY TrieAssumption
<1>3. PICK f \in RootNodeIn[r] : f \in {s - 1, s, s + 1}
  BY DEF Covers
<1>4. PICK h \in LeafIn[r] : h \in {s - 1, s, s + 1}
  BY DEF Covers
<1>5. f \in Searched(s, Active) /\ h \in Searched(s, Active)
  BY <1>1, <1>2, <1>3, <1>4, SearchesAround
<1> QED
  BY <1>3, <1>4, <1>5
\* recreateTrieIfNecessary does not fail for a kept state its storage covers, and
\* leaves a storage that covers the trie.
LEMMA RecreateCovers ==
  ASSUME IInv, Genesis \in recorded, TrieCovers,
         NEW new \in Infos, NEW hint \in Hints,
         new.root # EmptyRoot /\ Kept(new.root) =>
           Covers(IF hint = NoHint THEN trie.storage ELSE hint, new.root),
         RecreateTrie(new, hint)
  PROVE  /\ TrieCovers'
         /\ Kept(new.root) => ~ RecreateFails(new, hint)
<1> DEFINE storage == IF hint = NoHint THEN trie.storage ELSE hint
           r == Recreate(trie, new.root, hint, Active)
<1>1. ChainTypes /\ trie \in Tries /\ new.root \in Roots
  BY DEF IInv, ServiceTypes, Infos
<1>2. RecreateFails(new, hint) => r.err
  BY DEF RecreateFails
<1>3. trie' = trie \/ trie' = r.trie
  BY DEF RecreateTrie, adapterVars
<1>4. new.root = EmptyRoot => ~ r.err /\ r.trie.root = EmptyRoot
  BY DEF Recreate
<1>5. ASSUME new.root # EmptyRoot, Kept(new.root)
      PROVE  ~ r.err /\ r.trie = [root |-> new.root, storage |-> storage]
  <2>1. Covers(storage, new.root)
    BY <1>5
  <2>2. RootNodeIn[new.root] \cap Searched(storage, Active) # {}
    BY <1>1, <2>1, CoveredIsFound
  <2> QED
    BY <1>5, <2>2 DEF Recreate
<1>6. ASSUME new.root # EmptyRoot, ~ Kept(new.root)
      PROVE  r.trie = trie \/ r.trie.root = new.root
  BY <1>6 DEF Recreate
<1> HIDE DEF r
<1>7. r.trie.root # EmptyRoot /\ Kept(r.trie.root) => Covers(r.trie.storage, r.trie.root)
  <2>1. CASE new.root = EmptyRoot
    BY <1>4, <2>1
  <2>2. CASE new.root # EmptyRoot /\ Kept(new.root)
    BY <1>5, <2>2
  <2>3. CASE new.root # EmptyRoot /\ ~ Kept(new.root)
    BY <1>6, <2>3 DEF TrieCovers
  <2> QED
    BY <2>1, <2>2, <2>3
<1>8. TrieCovers'
  BY <1>3, <1>7 DEF TrieCovers
<1>9. Kept(new.root) => ~ r.err
  BY <1>4, <1>5
<1> QED
  BY <1>2, <1>8, <1>9

LEMMA InitKInv == Init => KInv
<1> SUFFICES ASSUME Init PROVE KInv
  OBVIOUS
<1>1. Header[Genesis].nonce = 0
  BY ScQueryAssumption
<1>2. ChainIsAtTip
  BY <1>1 DEF Init, ChainIsAtTip, At
<1> QED
  BY <1>2 DEF Init, KInv, TrieCovers, ApiIsLoaded, FoundCovers, KeptStateIsReadable,
       NilChain

\* What a step that leaves the adapter and the service at their block preserves.
LEMMA ReadingStays ==
  ASSUME KInv, UNCHANGED <<trie, api>>
  PROVE  TrieCovers' /\ ApiIsLoaded'
  BY DEF KInv, TrieCovers, ApiIsLoaded

LEMMA ChainKInv ==
  ASSUME IInv, KInv, Chain
  PROVE  KInv'
<1>1. UNCHANGED serviceVars
  BY DEF Chain, saveShardHeader, SetCurrentBlock, recordBlockInHistory,
       rollBackOneBlock, RevertStateToBlock, cleanCachesAndStorageOnRollback
<1>2. pc' = pc /\ query' = query /\ api' = api /\ trie' = trie /\ read' = read
  BY <1>1 DEF serviceVars, adapterVars
<1>3. TrieCovers' /\ ApiIsLoaded'
  BY <1>2, ReadingStays
<1>4. FoundCovers' /\ KeptStateIsReadable'
  BY <1>2 DEF KInv, FoundCovers, KeptStateIsReadable
<1>5. (main' = main /\ tip' = tip) \/ \E b : tip' = b /\ main' = At(b)
  BY DEF Chain, saveShardHeader, SetCurrentBlock, recordBlockInHistory,
       rollBackOneBlock, RevertStateToBlock, cleanCachesAndStorageOnRollback
<1>6. recorded \subseteq recorded'
  BY DEF Chain, saveShardHeader, SetCurrentBlock, recordBlockInHistory,
       rollBackOneBlock, RevertStateToBlock, cleanCachesAndStorageOnRollback
<1>7. ChainIsAtTip'
  BY <1>5, <1>6 DEF KInv, ChainIsAtTip, At
<1> QED
  BY <1>3, <1>4, <1>7 DEF KInv

\* The header and the root hash a query by nonce or by hash ends up with.
LEMMA RootHashForBlockCovers ==
  ASSUME KeptNearby, NEW h \in Blocks, NEW next \in Blocks \ {Genesis},
         NEW found, found = RootHashForBlock(h, next), Kept(found.root)
  PROVE  Covers(Header[found.header].epoch, found.root)
<1>1. found.header \in Blocks /\ Placed(found.root, Header[found.header].epoch)
  BY DEF RootHashForBlock, KeptNearby
<1>2. Header[found.header].epoch \in Nat
  BY <1>1, HeaderFacts
<1> QED
  BY <1>1, <1>2 DEF Placed, Covers

\* The same for a query of the current block.
LEMMA CurrentRootHashCovers ==
  ASSUME KeptNearby, IInv, ChainIsAtTip, PromptRead, extractCurrentRootHash,
         query.header # None, main.root # None, Kept(main.root)
  PROVE  Covers(Header[query.header].epoch, main.root)
<1> DEFINE e == Header[query.header].epoch
<1>1. query.header \in Blocks /\ tip \in Blocks
  BY DEF IInv, ChainTypes, ServiceTypes, BlockOrNone
<1>2. e \in Nat /\ Header[tip].epoch \in Nat
  BY <1>1, HeaderFacts
<1>3. main.root = Header[tip].committed
  BY DEF ChainIsAtTip, At, NilChain
<1>4. CASE Header[tip].epoch - e \in {0, 1}
  <2>1. Placed(main.root, Header[tip].epoch)
    BY <1>1, <1>3 DEF KeptNearby
  <2>2. Header[tip].epoch = e \/ Header[tip].epoch = e + 1
    BY <1>2, <1>4
  <2>3. {Header[tip].epoch - 1, Header[tip].epoch} \subseteq {e - 1, e, e + 1}
    BY <1>2, <2>2
  <2> HIDE DEF e
  <2>4. Covers(e, main.root)
    BY <1>2, <2>1, <2>3 DEF Placed, Covers
  <2> QED
    BY <2>4 DEF e
<1>5. CASE tip = Header[query.header].prev
  <2>1. query.header # Genesis
    BY <1>1, <1>5, ScQueryAssumption
  <2>2. Placed(main.root, e)
    BY <1>1, <1>3, <1>5, <2>1 DEF KeptNearby
  <2> HIDE DEF e
  <2>3. Covers(e, main.root)
    BY <1>2, <2>2 DEF Placed, Covers
  <2> QED
    BY <2>3 DEF e
<1> QED
  BY <1>4, <1>5 DEF PromptRead
LEMMA ExtractRootKInv ==
  ASSUME KeptNearby, IInv, KInv, PromptRead, extractCurrentRootHash
  PROVE  KInv'
<1>1. UNCHANGED <<main, tip, recorded, trie, api, read>>
  BY DEF extractCurrentRootHash, chainVars, adapterVars
<1>2. ChainIsAtTip' /\ TrieCovers' /\ ApiIsLoaded'
  BY <1>1, ReadingStays DEF KInv, ChainIsAtTip, At
<1>3. read = None
  BY DEF extractCurrentRootHash, IInv, Progress
<1>4. KeptStateIsReadable'
  BY <1>1, <1>3 DEF KeptStateIsReadable
<1>5. query'.header = query.header /\ query'.root = main.root
  BY DEF extractCurrentRootHash, IInv, ServiceTypes
<1>6. pc' = "load" => main.root # None
  BY DEF extractCurrentRootHash
<1>7. FoundCovers'
  BY <1>5, <1>6, CurrentRootHashCovers DEF FoundCovers, KInv
<1> QED
  BY <1>2, <1>4, <1>7 DEF KInv

LEMMA RootHashForBlockKInv ==
  ASSUME KeptNearby, IInv, KInv, getRootHashForBlock
  PROVE  KInv'
<1> DEFINE next == getBlockHeaderByNonce(Header[query.header].nonce + 1)
           found == RootHashForBlock(query.header, next)
<1>1. UNCHANGED <<main, tip, recorded, trie, api>>
  BY DEF getRootHashForBlock, chainVars, adapterVars
<1>2. ChainIsAtTip' /\ TrieCovers' /\ ApiIsLoaded'
  BY <1>1, ReadingStays DEF KInv, ChainIsAtTip, At
<1>3. CASE next = None
  BY <1>2, <1>3 DEF getRootHashForBlock, Return, KInv, FoundCovers, KeptStateIsReadable
<1>4. CASE next # None
  <2>1. query.header \in Blocks
    BY DEF getRootHashForBlock, IInv, Progress, ServiceTypes, BlockOrNone
  <2>2. Header[query.header].nonce \in Nat
    BY <2>1, HeaderFacts
  <2>3. next \in recorded /\ Header[next].nonce = Header[query.header].nonce + 1
    BY <1>4, <2>2, HeaderByNonce
  <2>4. next \in Blocks \ {Genesis}
    BY <2>2, <2>3, ScQueryAssumption DEF IInv, ChainTypes
  <2>5. query'.header = found.header /\ query'.root = found.root /\ read' = read
    BY <1>4 DEF getRootHashForBlock, IInv, ServiceTypes
  <2>6. read = None
    BY DEF getRootHashForBlock, IInv, Progress
  <2> HIDE DEF next
  <2>7. Kept(found.root) => Covers(Header[found.header].epoch, found.root)
    BY <2>1, <2>4, RootHashForBlockCovers
  <2> HIDE DEF found
  <2>8. FoundCovers' /\ KeptStateIsReadable'
    BY <2>5, <2>6, <2>7 DEF FoundCovers, KeptStateIsReadable
  <2> QED
    BY <1>2, <2>8 DEF KInv
<1> QED
  BY <1>3, <1>4

LEMMA RecreateTrieKInv ==
  ASSUME KeptNearby, IsInHistoricalBalancesMode, IInv, IInv', KInv, recreateTrie
  PROVE  KInv'
<1>1. UNCHANGED <<main, tip, recorded>>
  BY DEF recreateTrie, chainVars
<1>2. ChainIsAtTip'
  BY <1>1 DEF KInv, ChainIsAtTip, At
<1>3. CASE query.header = None
  <2>1. api' = NilChain /\ Return /\ UNCHANGED adapterVars
    BY <1>3 DEF recreateTrie
  <2>2. pc' = "idle" /\ read' = None /\ trie' = trie /\ api'.header = None
    BY <2>1 DEF Return, adapterVars, NilChain
  <2> QED
    BY <1>2, <2>2 DEF KInv, TrieCovers, ApiIsLoaded, FoundCovers, KeptStateIsReadable
<1>4. CASE query.header # None
  <2> DEFINE new == [nonce |-> 0, root |-> query.root]
             hint == HintOf(query.header)
  <2>1. query.header \in Blocks /\ query.root \in Roots /\ pc = "load"
    BY <1>4 DEF recreateTrie, IInv, Progress, ServiceTypes, BlockOrNone, RootOrNone
  <2>2. hint = Header[query.header].epoch /\ hint \in Nat /\ hint \in Hints
    BY <2>1, HeaderFacts, HintType DEF HintOf
  <2>3. new \in Infos
    BY <2>1, ScQueryAssumption DEF Infos
  <2>4. /\ api' = [header |-> query.header, root |-> query.root]
        /\ RecreateTrie(new, hint)
        /\ pc' = IF RecreateFails(new, hint) THEN "failed" ELSE "hook"
        /\ read' = IF RecreateFails(new, hint)
                   THEN [root |-> query.root, answer |-> "error"]
                   ELSE None
        /\ query' = query
    BY <1>4 DEF recreateTrie
  <2>5. new.root = query.root
    OBVIOUS
  <2> HIDE DEF new, hint
  <2>6. Kept(new.root) => Covers(hint, new.root)
    BY <1>4, <2>1, <2>2, <2>5 DEF KInv, FoundCovers
  <2>7. hint # NoHint
    BY <2>2 DEF NoHint
  <2>8. TrieCovers' /\ (Kept(new.root) => ~ RecreateFails(new, hint))
    BY <2>2, <2>3, <2>4, <2>6, <2>7, RecreateCovers DEF KInv, ChainIsAtTip
  <2>9. ~ RecreateFails(new, hint) => trie'.root = new.root
    BY <2>2, <2>3, <2>4, RecreateTrieFacts DEF IInv, ServiceTypes, InfoIsOfTrie
  <2>10. ApiIsLoaded'
    BY <2>4, <2>5, <2>8, <2>9 DEF ApiIsLoaded
  <2>11. FoundCovers' /\ KeptStateIsReadable'
    BY <2>4, <2>5, <2>8 DEF FoundCovers, KeptStateIsReadable, Kept
  <2> QED
    BY <1>2, <2>8, <2>10, <2>11 DEF KInv
<1> QED
  BY <1>3, <1>4

LEMMA ReadAccountKInv ==
  ASSUME IInv, KInv, readAccount
  PROVE  KInv'
<1> DEFINE new == [nonce |-> Header[api.header].nonce, root |-> api.root]
<1>1. /\ UNCHANGED <<main, tip, recorded, pc, query, api>> /\ pc = "run"
      /\ api.header # None
  BY DEF readAccount, chainVars
<1>2. ChainIsAtTip' /\ FoundCovers'
  BY <1>1 DEF KInv, ChainIsAtTip, At, FoundCovers
<1>3. api.header \in Blocks /\ api.root \in Roots
  BY <1>1 DEF IInv, Progress, ServiceTypes, ChainHandler, BlockOrNone, RootOrNone
<1>4. new \in Infos /\ NoHint \in Hints
  BY <1>3, HeaderFacts DEF Infos, Hints
<1>5. /\ RecreateTrie(new, NoHint)
      /\ read' = IF RecreateFails(new, NoHint)
                 THEN [root |-> new.root, answer |-> "error"]
                 ELSE [root |-> trie'.root, answer |-> Lookup(trie', Active)]
  BY DEF readAccount
<1>6. new.root = api.root
  OBVIOUS
<1> HIDE DEF new
<1>7. new.root # EmptyRoot /\ Kept(new.root) => Covers(trie.storage, new.root)
  BY <1>1, <1>6 DEF KInv, ApiIsLoaded, TrieCovers
<1>8. TrieCovers' /\ (Kept(new.root) => ~ RecreateFails(new, NoHint))
  BY <1>4, <1>5, <1>7, RecreateCovers DEF KInv, ChainIsAtTip
<1>9. /\ trie' \in Tries
      /\ ~ RecreateFails(new, NoHint) => trie'.root = new.root
  BY <1>4, <1>5, RecreateTrieFacts DEF IInv, ServiceTypes, InfoIsOfTrie
<1>10. ApiIsLoaded'
  BY <1>1, <1>6, <1>8, <1>9 DEF ApiIsLoaded
<1>11. KeptStateIsReadable'
  <2>1. ASSUME query.root # None, Kept(query.root)
        PROVE  read'.answer # "error"
    <3>1. new.root = query.root
      BY <1>1, <1>6, <2>1 DEF IInv, Progress
    <3>2. trie'.root = query.root /\ read'.answer = Lookup(trie', Active)
      BY <1>5, <1>8, <1>9, <2>1, <3>1
    <3>3. trie'.root # EmptyRoot => Covers(trie'.storage, trie'.root)
      BY <1>8, <2>1, <3>2 DEF TrieCovers
    <3>4. ChainTypes /\ Genesis \in recorded /\ trie'.root \in Roots
      BY <1>9 DEF IInv, KInv, ChainIsAtTip, Tries
    <3>5. trie'.root # EmptyRoot =>
            LeafIn[trie'.root] \cap Searched(trie'.storage, Active) # {}
      BY <3>3, <3>4, CoveredIsFound
    <3> QED
      BY <3>2, <3>5 DEF Lookup
  <2> QED
    BY <1>1, <2>1 DEF KeptStateIsReadable, Kept
<1> QED
  BY <1>2, <1>8, <1>10, <1>11 DEF KInv

\* The other steps neither load a trie nor find a root hash.
LEMMA OtherKInv ==
  ASSUME IInv, KInv,
         \/ \E q \in Queries : ExecuteQuery(q)
         \/ extractHeader \/ setHookHeaders \/ ReturnVMOutput
         \/ UNCHANGED vars
  PROVE  KInv'
<1>1. UNCHANGED <<main, tip, recorded, trie, api>>
  BY DEF ExecuteQuery, extractHeader, setHookHeaders, ReturnVMOutput, vars,
       chainVars, serviceVars, adapterVars
<1>2. ChainIsAtTip' /\ TrieCovers' /\ ApiIsLoaded'
  BY <1>1, ReadingStays DEF KInv, ChainIsAtTip, At
<1>3. \/ pc' # "load" /\ read' = None
      \/ pc' = pc /\ query' = query /\ read' = read
  BY DEF ExecuteQuery, extractHeader, setHookHeaders, ReturnVMOutput, Return, vars,
       chainVars, serviceVars, IInv, Progress
<1>4. FoundCovers' /\ KeptStateIsReadable'
  BY <1>3 DEF KInv, FoundCovers, KeptStateIsReadable
<1> QED
  BY <1>2, <1>4 DEF KInv

LEMMA StepKInv ==
  ASSUME KeptNearby, IsInHistoricalBalancesMode,
         IInv, IInv', KInv, [Next]_vars, [PromptRead]_vars
  PROVE  KInv'
<1>1. CASE Chain
  BY <1>1, ChainKInv
<1>2. CASE extractCurrentRootHash
  <2>1. PromptRead \/ UNCHANGED vars
    OBVIOUS
  <2> QED
    BY <1>2, <2>1, ExtractRootKInv, OtherKInv
<1>3. CASE getRootHashForBlock \/ recreateTrie \/ readAccount
  BY <1>3, RootHashForBlockKInv, RecreateTrieKInv, ReadAccountKInv
<1>4. CASE \/ \E q \in Queries : ExecuteQuery(q)
           \/ extractHeader \/ setHookHeaders \/ ReturnVMOutput
           \/ UNCHANGED vars
  BY <1>4, OtherKInv
<1> QED
  BY <1>1, <1>2, <1>3, <1>4 DEF Next, Service

(* In historical balances mode a state the DBs have is readable, whatever  *)
(* epochs were queried before and left their storage in the trie, for any  *)
(* number of active DBs, any commits and any rollbacks: the VM reads it    *)
(* without the epoch of the block, and still from the DBs around that      *)
(* epoch (recreateTrie, trieStorageManagerInEpoch.Get).  It is assumed     *)
(* that the DBs have it in the epoch of its block or the one before, and   *)
(* that the two getters a query of the current block calls are at most one *)
(* epoch change or one rolled back block apart: they are two calls, and a  *)
(* wider gap would pair the epoch of one block with the root of another.   *)
THEOREM KeptStatesAreReadable ==
  ASSUME KeptNearby, IsInHistoricalBalancesMode
  PROVE  Spec /\ [][PromptRead]_vars => []KeptStateIsReadable
<1>1. KInv /\ IInv /\ IInv' /\ [Next]_vars /\ [PromptRead]_vars => KInv'
  BY StepKInv
<1>2. KInv => KeptStateIsReadable
  BY DEF KInv
<1> QED
  BY <1>1, <1>2, InitKInv, IInvHolds, PTL DEF Spec
============================================================================
