--------------------------- MODULE ScQueryService ---------------------------
(***************************************************************************)
(* Smart contract queries on past blocks (process/smartContract/           *)
(* scQueryService.go), while the node commits and rolls back blocks.       *)
(*                                                                         *)
(* A service owns a chain handler of its own (apiBlockChain), an accounts  *)
(* adapter over it (state/accountsDBApi.go), a blockchain hook and a cache *)
(* of epoch start headers; mutRunSc lets it answer one query at a time.    *)
(* Every query points all of these at its block and leaves them there, so  *)
(* what one query reads depends on the ones before it, those that failed   *)
(* half way included.  The headers come from storers and from the main     *)
(* chain handler, which the block processor and the bootstrapper change    *)
(* between any two steps of a query.                                       *)
(*                                                                         *)
(* The node is in historical balances mode or not; the history repository  *)
(* is enabled, as that mode demands.  A query refused before it takes the  *)
(* lock, or because the node is not synced, changes nothing and is left    *)
(* out.  The VM is external: it reads accounts through the adapter.        *)
(***************************************************************************)
EXTENDS TrieStorage

CONSTANTS
  Blocks,   \* block hashes
  Header,   \* Header[b]: what the header with hash b says; see HeaderType
  Genesis,
  None,
  EpochStartHdrCacheSize,
  IsInHistoricalBalancesMode,
  NumActive,       \* epochs whose DBs are active
  MaxEpoch,        \* bound on the epochs of the blocks
  MaxNonce,        \* bound on their nonces
  FinalNonce,      \* bound on rollbacks: the highest final nonce
  QueriedNonces,   \* the block nonces queries name
  QueriedHashes    \* the block hashes queries name

(* committed is the root hash the state has once the block is committed,   *)
(* its scheduled miniblocks executed; scheduled says whether the header    *)
(* carries additional data, where ScheduledRootHash is the committed root  *)
(* of the block before.                                                    *)
HeaderType ==
  [nonce : 0 .. MaxNonce, epoch : 0 .. MaxEpoch, start : BOOLEAN,
   root : Roots, committed : Roots, scheduled : BOOLEAN,
   prev : Blocks \cup {None}]

ASSUME ScQueryAssumption ==
  /\ {MaxEpoch, MaxNonce, FinalNonce} \subseteq Nat
  /\ {EpochStartHdrCacheSize, NumActive} \subseteq Nat \ {0}
  /\ IsInHistoricalBalancesMode \in BOOLEAN
  /\ None \notin Blocks \cup Roots \cup [nonce : 0 .. MaxNonce, root : Roots]
  /\ Genesis \in Blocks
  /\ Header \in [Blocks -> HeaderType]
  /\ Header[Genesis].nonce = 0 /\ Header[Genesis].epoch = 0
  /\ Header[Genesis].prev = None
  /\ \A b \in Blocks \ {Genesis} :
       LET p == Header[b].prev
       IN  /\ p # None
           /\ Header[b].nonce = Header[p].nonce + 1
           /\ Header[b].epoch - Header[p].epoch = IF Header[b].start THEN 1 ELSE 0
           /\ \/ Header[b].scheduled
              \/ Header[p].committed = Header[p].root
  /\ QueriedNonces \subseteq 0 .. MaxNonce /\ QueriedHashes \subseteq Blocks

VARIABLES
  tip,           \* the last block of the chain
  main,          \* the chain handler of the node: header and root hash
  nonceHash,     \* the unit that maps a nonce to a block hash
  recorded,      \* blocks whose header and epoch are found by their hash
  epochStartIn,  \* epoch start headers, stored under their epoch
  step,          \* what the block processor is in the middle of
  pc,            \* where the service is in its query
  query,         \* what was asked, and the header and root found for it
  api,           \* apiBlockChain: header and root hash
  info,          \* accountsDBApi.blockInfo: nonce and root; the hash is empty
  trie,          \* the trie of the adapter
  cache,         \* epochStartHdrCache, whose keys are the epochs of the blocks
  hook,          \* the blockchain hook: current and epoch start header
  read           \* what the VM last read for this query

chainVars == <<tip, main, nonceHash, recorded, epochStartIn, step>>
adapterVars == <<info, trie>>
serviceVars == <<pc, query, api, adapterVars, cache, hook, read>>
vars == <<chainVars, serviceVars>>

Queries ==
  {[kind |-> "current"]}
    \cup [kind : {"nonce"}, nonce : QueriedNonces]
    \cup [kind : {"hash"}, block : QueriedHashes]

BlockOrNone == Blocks \cup {None}
RootOrNone == Roots \cup {None}
ChainHandler == [header : BlockOrNone, root : RootOrNone]
NilChain == [header |-> None, root |-> None]
NoQuery == [asked |-> None, header |-> None, root |-> None]

TypeOK ==
  /\ tip \in Blocks /\ main \in ChainHandler
  /\ nonceHash \in [0 .. MaxNonce -> BlockOrNone]
  /\ recorded \subseteq Blocks
  /\ epochStartIn \in [1 .. MaxEpoch -> BlockOrNone]
  /\ step \in [at : {"idle", "current", "record", "revert", "clean"},
               block : BlockOrNone]
  /\ pc \in {"idle", "header", "next", "root", "load", "hook", "run", "failed"}
  /\ query \in [asked : Queries \cup {None}, header : BlockOrNone, root : RootOrNone]
  /\ api \in ChainHandler
  /\ info \in [nonce : 0 .. MaxNonce, root : Roots] \cup {None}
  /\ trie \in [root : Roots, storage : {BaseStorage} \cup 0 .. MaxEpoch]
  /\ cache \subseteq Blocks /\ Cardinality(cache) <= EpochStartHdrCacheSize
  /\ hook \in [current : BlockOrNone, epochStart : BlockOrNone]
  /\ read \in [root : Roots, answer : {"found", "absent", "error"}] \cup {None}

Idle == [at |-> "idle", block |-> None]

\* A node that starts from genesis; nothing was queried.
Init ==
  /\ tip = Genesis /\ main = NilChain
  /\ nonceHash = [n \in 0 .. MaxNonce |-> IF n = 0 THEN Genesis ELSE None]
  /\ recorded = {Genesis}
  /\ epochStartIn = [e \in 1 .. MaxEpoch |-> None]
  /\ step = Idle
  /\ pc = "idle" /\ query = NoQuery /\ api = NilChain
  /\ info = None /\ trie = [root |-> EmptyRoot, storage |-> BaseStorage]
  /\ cache = {} /\ hook = [current |-> None, epochStart |-> None]
  /\ read = None

-----------------------------------------------------------------------------
\* Committing and rolling back blocks.

\* The active DBs: the storers change the epoch with the start of epoch block
\* and do not go back with a rollback.
Active ==
  LET e == Max({Header[b].epoch : b \in recorded \cup ({step.block} \ {None})})
  IN  {d \in 0 .. e : d > e - NumActive}

At(b) == IF Header[b].nonce = 0
         THEN NilChain
         ELSE [header |-> b, root |-> Header[b].committed]

\* CommitBlock up to saveShardHeader: the epoch start trigger stores a start of
\* epoch block under its epoch, then the nonce is mapped to the hash.
saveShardHeader(b) ==
  /\ step = Idle /\ Header[b].prev = tip
  /\ epochStartIn' = IF Header[b].start
                     THEN [epochStartIn EXCEPT ![Header[b].epoch] = b]
                     ELSE epochStartIn
  /\ nonceHash' = [nonceHash EXCEPT ![Header[b].nonce] = b]
  /\ step' = [at |-> "current", block |-> b]
  /\ UNCHANGED <<tip, main, recorded, serviceVars>>

SetCurrentBlock ==
  /\ step.at = "current"
  /\ tip' = step.block /\ main' = At(step.block)
  /\ step' = [step EXCEPT !.at = "record"]
  /\ UNCHANGED <<nonceHash, recorded, epochStartIn, serviceVars>>

recordBlockInHistory ==
  /\ step.at = "record"
  /\ recorded' = recorded \cup {step.block}
  /\ step' = Idle
  /\ UNCHANGED <<tip, main, nonceHash, epochStartIn, serviceVars>>

rollBackOneBlock ==
  /\ step = Idle /\ Header[tip].nonce > FinalNonce
  /\ tip' = Header[tip].prev /\ main' = At(Header[tip].prev)
  /\ step' = [at |-> "revert", block |-> tip]
  /\ UNCHANGED <<nonceHash, recorded, epochStartIn, serviceVars>>

\* The trigger forgets a start of epoch block that is rolled back, but only when
\* the start of an earlier epoch is stored.
RevertStateToBlock ==
  /\ step.at = "revert"
  /\ LET e == Header[step.block].epoch
     IN  epochStartIn' =
           IF Header[step.block].start /\ \E d \in 1 .. e - 1 : epochStartIn[d] # None
           THEN [epochStartIn EXCEPT ![e] = None]
           ELSE epochStartIn
  /\ step' = [step EXCEPT !.at = "clean"]
  /\ UNCHANGED <<tip, main, nonceHash, recorded, serviceVars>>

cleanCachesAndStorageOnRollback ==
  /\ step.at = "clean"
  /\ nonceHash' = [nonceHash EXCEPT ![Header[step.block].nonce] = None]
  /\ step' = Idle
  /\ UNCHANGED <<tip, main, recorded, epochStartIn, serviceVars>>

-----------------------------------------------------------------------------
\* Finding the header and the root hash of the query.

ExecuteQuery(q) ==
  /\ pc = "idle"
  /\ query' = [NoQuery EXCEPT !.asked = q]
  /\ pc' = "header"
  /\ UNCHANGED <<chainVars, api, adapterVars, cache, hook, read>>

Return ==
  /\ pc' = "idle" /\ query' = NoQuery /\ read' = None

\* getBlockHeaderByNonce; None stands for an error.  The two lookups are one
\* step: a block, once recorded, stays so.
getBlockHeaderByNonce(n) ==
  IF n <= MaxNonce /\ nonceHash[n] \in recorded THEN nonceHash[n] ELSE None

getBlockHeaderByHash(b) == IF b \in recorded THEN b ELSE None

\* extractBlockHeaderAndRootHash: the header that was asked for.
extractHeader ==
  /\ pc = "header"
  /\ LET q == query.asked
         h == CASE q.kind = "current" -> main.header
                [] q.kind = "nonce"   -> getBlockHeaderByNonce(q.nonce)
                [] q.kind = "hash"    -> getBlockHeaderByHash(q.block)
     IN  IF h = None /\ q.kind # "current"
         THEN Return
         ELSE /\ query' = [query EXCEPT !.header = h]
              /\ pc' = IF q.kind = "current" THEN "root" ELSE "next"
              /\ UNCHANGED read
  /\ UNCHANGED <<chainVars, api, adapterVars, cache, hook>>

\* The current root hash is read in a call of its own.  Without one the VM runs
\* on whatever the query before left.
extractCurrentRootHash ==
  /\ pc = "root"
  /\ query' = [query EXCEPT !.root = main.root]
  /\ pc' = IF main.root = None THEN "run" ELSE "load"
  /\ UNCHANGED <<chainVars, api, adapterVars, cache, hook, read>>

\* Mutant: the root hash of the header, its scheduled miniblocks not executed.
RootHashOfHeader(h, next) == [header |-> h, root |-> Header[h].root]

\* getRootHashForBlock: the next header tells the root hash after the scheduled
\* miniblocks, and is then the header of the query.
RootHashForBlock(h, next) ==
  IF Header[next].scheduled
  THEN [header |-> next, root |-> Header[Header[next].prev].committed]
  ELSE [header |-> h, root |-> Header[h].root]

getRootHashForBlock ==
  /\ pc = "next"
  /\ LET next == getBlockHeaderByNonce(Header[query.header].nonce + 1)
         found == RootHashForBlock(query.header, next)
     IN  IF next = None
         THEN Return
         ELSE /\ query' = [query EXCEPT !.header = found.header, !.root = found.root]
              /\ pc' = "load"
              /\ UNCHANGED read
  /\ UNCHANGED <<chainVars, api, adapterVars, cache, hook>>

-----------------------------------------------------------------------------
\* Pointing the adapter and the hook at the block, and running the VM.

\* Mutant: the trie is recreated without the epoch of the block.
NoHintOf(h) == NoHint

HintOf(h) == IF IsInHistoricalBalancesMode THEN Header[h].epoch ELSE NoHint

\* Mutant: a failed recreation leaves the block info that was asked for.
KeepInfo(new, err) == new

\* The block info accountsDBApi remembers: nil after a failed recreation.
InfoAfter(new, err) == IF err THEN None ELSE new

\* accountsDBApi, RecreateTrie and recreateTrieIfNecessary: nothing is done for
\* the block info of the last recreation.  Result: failed or not.
RecreateFails(new, hint) ==
  info # new /\ Recreate(trie, new.root, hint, Active).err

RecreateTrie(new, hint) ==
  IF info = new
  THEN UNCHANGED adapterVars
  ELSE LET r == Recreate(trie, new.root, hint, Active)
       IN  trie' = r.trie /\ info' = InfoAfter(new, r.err)

\* SetCurrentBlockHeaderAndRootHash, then recreateTrie.  A nil header, read just
\* before the first block was committed, clears apiBlockChain and is an error.
recreateTrie ==
  /\ pc = "load"
  /\ IF query.header = None
     THEN api' = NilChain /\ Return /\ UNCHANGED adapterVars
     ELSE LET new == [nonce |-> 0, root |-> query.root]
              hint == HintOf(query.header)
              failed == RecreateFails(new, hint)
          IN  /\ api' = [header |-> query.header, root |-> query.root]
              /\ RecreateTrie(new, hint)
              /\ pc' = IF failed THEN "failed" ELSE "hook"
              /\ read' = IF failed
                         THEN [root |-> query.root, answer |-> "error"]
                         ELSE None
              /\ UNCHANGED query
  /\ UNCHANGED <<chainVars, cache, hook>>

CachedAt(e) == {b \in cache : Header[b].epoch = e}

\* Mutant: the cache is looked up without its key.
AnyCached(e) == IF cache # {} THEN CHOOSE b \in cache : TRUE ELSE epochStartIn[e]

\* getEpochStartBlockHdr of an epoch other than the first; None is an error.
EpochStartBlockHdr(e) ==
  IF CachedAt(e) # {} THEN CHOOSE b \in CachedAt(e) : TRUE ELSE epochStartIn[e]

\* A full cache drops its smallest epoch for the header it takes in.
Cached(b) ==
  LET oldest == Min({Header[c].epoch : c \in cache})
  IN  IF b \in cache THEN cache
      ELSE IF Cardinality(cache) < EpochStartHdrCacheSize THEN cache \cup {b}
      ELSE (cache \ CachedAt(oldest)) \cup {b}

\* SetEpochStartHeader, then SetCurrentHeader.  A start of epoch block is its own
\* epoch start; in epoch 0 SetCurrentHeader takes the genesis header of the
\* apiBlockChain, which nothing ever sets.  Its search for a header of the right
\* epoch is not reached: the one just set is of that epoch.
setHookHeaders ==
  /\ pc = "hook"
  /\ LET h == query.header
         e == Header[h].epoch
         b == IF e = 0 THEN None ELSE EpochStartBlockHdr(e)
     IN  IF e > 0 /\ b = None
         THEN Return /\ UNCHANGED <<cache, hook>>
         ELSE /\ cache' = IF e = 0 THEN cache ELSE Cached(b)
              /\ hook' = [current |-> h,
                          epochStart |-> IF Header[h].start THEN h ELSE b]
              /\ pc' = "run"
              /\ UNCHANGED <<query, read>>
  /\ UNCHANGED <<chainVars, api, adapterVars>>

\* The VM reads an account: recreateTrieIfNecessary for the block of apiBlockChain.
readAccount ==
  /\ pc = "run" /\ api.header # None
  /\ LET new == [nonce |-> Header[api.header].nonce, root |-> api.root]
     IN  /\ RecreateTrie(new, NoHint)
         /\ read' = IF RecreateFails(new, NoHint)
                    THEN [root |-> new.root, answer |-> "error"]
                    ELSE [root |-> trie'.root, answer |-> Lookup(trie', Active)]
  /\ UNCHANGED <<chainVars, pc, query, api, cache, hook>>

\* The query returns: an error, or the output of the VM once it read what it
\* needed; checkForRootHashChanges compares apiBlockChain with itself.
ReturnVMOutput ==
  /\ pc \in {"run", "failed"} /\ Return
  /\ UNCHANGED <<chainVars, api, adapterVars, cache, hook>>

-----------------------------------------------------------------------------
Chain ==
  \/ \E b \in Blocks : saveShardHeader(b)
  \/ SetCurrentBlock
  \/ recordBlockInHistory
  \/ rollBackOneBlock
  \/ RevertStateToBlock
  \/ cleanCachesAndStorageOnRollback

Service ==
  \/ \E q \in Queries : ExecuteQuery(q)
  \/ extractHeader
  \/ extractCurrentRootHash
  \/ getRootHashForBlock
  \/ recreateTrie
  \/ setHookHeaders
  \/ readAccount
  \/ ReturnVMOutput

Next == Chain \/ Service

Spec == Init /\ [][Next]_vars

-----------------------------------------------------------------------------
(* Whatever queries came before, failed half way or not, the VM reads the  *)
(* state of the root hash found for this query, with the header found for  *)
(* it as the current one (executeScCall; a failed recreation keeps the old *)
(* trie, and accountsDBApi skips the ones it thinks it has).  This is for  *)
(* FinalNonce > 0: after a rollback to genesis the chain handler has no    *)
(* root hash, and the query runs on what the one before it left.           *)
ReadsTheStateAskedFor ==
  /\ read # None => read.root = query.root
  /\ pc = "run" /\ query.root # None => hook.current = query.header

(* A query by nonce runs on the state some block of that nonce left, the   *)
(* scheduled miniblocks executed, also when blocks are rolled back and     *)
(* committed between its two header lookups (getRootHashForBlock).         *)
NonceMeansItsState ==
  pc \in {"load", "hook", "run", "failed"} /\ query.asked.kind = "nonce" =>
    \E b \in Blocks : /\ Header[b].nonce = query.asked.nonce
                      /\ Header[b].committed = query.root

(* In every epoch but the first, the epoch start header the contract sees  *)
(* is of the epoch of its block, whichever epochs were queried before and  *)
(* left the cache (getEpochStartBlockHdr, SetEpochStartHeader,             *)
(* SetCurrentHeader).                                                      *)
EpochStartIsOfTheEpoch ==
  pc = "run" /\ query.root # None /\ Header[query.header].epoch > 0 =>
    /\ hook.epochStart # None
    /\ Header[hook.epochStart].epoch = Header[query.header].epoch

(* A state the DBs have is readable: neither the trie nor a node of it is  *)
(* missed, although the first read of the VM recreates the trie without    *)
(* the epoch, the storage of another epoch may be left by the query before *)
(* and, for the current block, header and root hash are read in two calls  *)
(* between which a block of another epoch may be committed or rolled back  *)
(* (recreateTrie, doRecreateTrieWithBlockInfo, GetCurrentBlockRootHash).   *)
KeptStateIsReadable ==
  read # None /\ query.root # None
              /\ RootNodeIn[query.root] # {} /\ LeafIn[query.root] # {} =>
    read.answer # "error"
=============================================================================
