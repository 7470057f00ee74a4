---------------------------- MODULE ApiAccounts ----------------------------
(***************************************************************************)
(* accountsDBApi (state/accountsDBApi.go), the adapter behind queries on   *)
(* the current and on the final block, with the block info providers of    *)
(* state/blockInfoProviders and the chain handler they read                *)
(* (dataRetriever/blockchain).  Queries share one AccountsDB; the trie is  *)
(* recreated by the first query that sees a new block.                     *)
(***************************************************************************)
EXTENDS Integers, FiniteSetsExt, RWMutex

CONSTANTS
    MaxBlock,        \* bound: nonce of the last block committed
    Roots,           \* root hashes
    NoRoot,          \* no root hash
    RootOf,          \* RootOf[n]: the root hash block n commits
    NodesMayBeMissing  \* may the nodes of a root hash be out of reach

ASSUME ApiAssumption ==
    /\ MaxBlock \in Nat
    /\ NoRoot \notin Roots
    /\ RootOf \in [1 .. MaxBlock -> Roots]
    /\ NodesMayBeMissing \in BOOLEAN

VARIABLES
    provider,   \* which block the adapter follows, "current" or "final"
    header,     \* nonce of currentBlockHeader, 0 when it is nil
    hash,       \* nonce of the block currentBlockHeaderHash is of
    final,      \* nonce of finalBlockInfo, 0 when it is empty
    trie,       \* root hash of mainTrie of the inner AccountsDB
    blockInfo,  \* block info of the recreated trie
    mutex,      \* mutRecreatedTrieBlockInfo
    proc        \* the queries in flight

chain == <<provider, header, hash, final>>
adapter == <<trie, blockInfo>>
vars == <<provider, header, hash, final, trie, blockInfo, mutex, proc>>

\* A hash is named by the nonce of its block.  A nil BlockInfo has no root hash.
NoInfo == [nonce |-> 0, hash |-> 0, root |-> NoRoot]

Info(n) == [nonce |-> n, hash |-> n, root |-> RootOf[n]]

\* info is the block info the query collected, and then the one it returns; data
\* is the root hash of the trie it read.  since is the block provided when the
\* query began and floor the oldest such block of a query it overlaps with.
Idle == [pc |-> "idle", op |-> "none", info |-> NoInfo, data |-> NoRoot,
         since |-> 0, floor |-> 0]

InFlight == {p \in Procs : proc[p].pc \notin {"idle", "done"}}

Provided == IF provider = "current" THEN header ELSE final

Init ==
    /\ provider \in {"current", "final"}
    /\ header = 0
    /\ hash = 0
    /\ final = 0
    /\ trie = NoRoot
    /\ blockInfo = NoInfo
    /\ mutex = Unlocked
    /\ proc = [p \in Procs |-> Idle]

----------------------------------------------------------------------------
(* The block processor, CommitBlock *)

SetCurrentBlockHeaderAndRootHash ==
    /\ hash = header
    /\ header < MaxBlock
    /\ header' = header + 1
    /\ UNCHANGED <<provider, hash, final, adapter, mutex, proc>>

SetCurrentBlockHeaderHash ==
    /\ hash # header
    /\ hash' = header
    /\ UNCHANGED <<provider, header, final, adapter, mutex, proc>>

SetFinalBlockInfo(n) ==
    /\ final' = n
    /\ UNCHANGED <<provider, header, hash, adapter, mutex, proc>>

----------------------------------------------------------------------------
(* Queries *)

Goto(p, pc) == proc' = [proc EXCEPT ![p].pc = pc]

\* An error ends the query.
Fail(p) == proc' = [proc EXCEPT ![p] = Idle]

Answered(p, info, data) ==
    proc' = [proc EXCEPT ![p].pc = "done", ![p].info = info, ![p].data = data,
                         ![p].since = 0]

Begin(p, op) ==
    /\ proc[p].pc = "idle"
    /\ proc' = [proc EXCEPT ![p] =
                   [Idle EXCEPT !.pc = provider, !.op = op, !.since = Provided,
                                !.floor = Min({Provided} \cup
                                              {proc[q].since : q \in InFlight})]]
    /\ UNCHANGED <<chain, adapter, mutex>>

\* currentBlockInfo.GetBlockInfo: three calls of the chain handler.
GetCurrentBlockHeader(p) ==
    /\ proc[p].pc = "current"
    /\ IF header = 0 THEN Fail(p)
       ELSE proc' = [proc EXCEPT ![p].pc = "hash", ![p].info.nonce = header]
    /\ UNCHANGED <<chain, adapter, mutex>>

GetCurrentBlockHeaderHash(p) ==
    /\ proc[p].pc = "hash"
    /\ proc' = [proc EXCEPT ![p].pc = "root", ![p].info.hash = hash]
    /\ UNCHANGED <<chain, adapter, mutex>>

\* The last call; recreateTrieIfNecessary goes on with the read lock.
GetCurrentBlockRootHash(p) ==
    /\ proc[p].pc = "root"
    /\ proc' = [proc EXCEPT ![p].pc = "compare", ![p].info.root = RootOf[header]]
    /\ mutex' = RLock(mutex, p)
    /\ UNCHANGED <<chain, adapter>>

\* finalBlockInfo.GetBlockInfo: one call.
GetFinalBlockInfo(p) ==
    /\ proc[p].pc = "final"
    /\ IF final = 0 THEN Fail(p) /\ UNCHANGED mutex
       ELSE /\ proc' = [proc EXCEPT ![p].pc = "compare", ![p].info = Info(final)]
            /\ mutex' = RLock(mutex, p)
    /\ UNCHANGED <<chain, adapter>>

\* Mutant: only the root hashes are compared.
EqualRoots(info, other) == info.root = other.root

Equal(info, other) == info = other

\* The trie is recreated: GetAccountWithBlockInfo takes the read lock again,
\* GetCodeWithBlockInfo does not.
AfterRecreate(p) == Goto(p, IF proc[p].op = "account" THEN "rlock" ELSE "code")

RecreateTrieIfNecessary(p) ==
    /\ proc[p].pc = "compare"
    /\ HoldsRLock(mutex, p)
    /\ IF Equal(proc[p].info, blockInfo) THEN AfterRecreate(p) ELSE Goto(p, "lock")
    /\ mutex' = RUnlock(mutex, p)
    /\ UNCHANGED <<chain, adapter>>

Lock(p) ==
    /\ proc[p].pc = "lock"
    /\ CanAnnounce(mutex)
    /\ mutex' = Announce(mutex, p)
    /\ Goto(p, "recreate")
    /\ UNCHANGED <<chain, adapter>>

\* doRecreateTrieWithBlockInfo: the early exit, and RecreateTrie of AccountsDB,
\* which keeps the old trie when it fails ...
DoRecreateTrieWithBlockInfo(p) ==
    /\ proc[p].pc = "recreate"
    /\ HoldsLock(mutex, p)
    /\ \/ /\ Equal(proc[p].info, blockInfo)
          /\ AfterRecreate(p)
          /\ mutex' = Unlock(mutex)
          /\ UNCHANGED adapter
       \/ /\ ~ Equal(proc[p].info, blockInfo)
          /\ trie' = proc[p].info.root
          /\ Goto(p, "store")
          /\ UNCHANGED <<blockInfo, mutex>>
       \/ /\ ~ Equal(proc[p].info, blockInfo)
          /\ NodesMayBeMissing
          /\ blockInfo' = NoInfo
          /\ Fail(p)
          /\ mutex' = Unlock(mutex)
          /\ UNCHANGED trie
    /\ UNCHANGED chain

\* ... and the block info of the new trie.
StoreBlockInfo(p) ==
    /\ proc[p].pc = "store"
    /\ blockInfo' = proc[p].info
    /\ AfterRecreate(p)
    /\ mutex' = Unlock(mutex)
    /\ UNCHANGED <<chain, trie>>

RLockForAccount(p) ==
    /\ proc[p].pc = "rlock"
    /\ mutex' = RLock(mutex, p)
    /\ Goto(p, "account")
    /\ UNCHANGED <<chain, adapter>>

\* Mutant: the read lock is given up before the account is read.
GetRecreatedBlockInfoUnlocks(p) ==
    /\ proc[p].pc = "account"
    /\ HoldsRLock(mutex, p)
    /\ proc' = [proc EXCEPT ![p].pc = "read", ![p].info = blockInfo]
    /\ mutex' = RUnlock(mutex, p)
    /\ UNCHANGED <<chain, adapter>>

\* The rest of GetAccountWithBlockInfo: block info and account, under one lock.
GetRecreatedBlockInfo(p) ==
    /\ proc[p].pc = "account"
    /\ HoldsRLock(mutex, p)
    /\ proc' = [proc EXCEPT ![p].pc = "read", ![p].info = blockInfo]
    /\ UNCHANGED <<chain, adapter, mutex>>

GetExistingAccount(p) ==
    /\ proc[p].pc = "read"
    /\ \/ Answered(p, proc[p].info, trie)
       \/ NodesMayBeMissing /\ Fail(p)
    /\ mutex' = RUnlock(mutex, p)
    /\ UNCHANGED <<chain, adapter>>

\* The rest of GetCodeWithBlockInfo: no lock, and the block info found before.
\* Code that cannot be read is answered as empty.
GetCode(p) ==
    /\ proc[p].pc = "code"
    /\ Answered(p, proc[p].info, trie)
    /\ UNCHANGED <<chain, adapter, mutex>>

\* The caller takes the answer.
Return(p) ==
    /\ proc[p].pc = "done"
    /\ proc' = [proc EXCEPT ![p] = Idle]
    /\ UNCHANGED <<chain, adapter, mutex>>

Commit ==
    \/ SetCurrentBlockHeaderAndRootHash
    \/ SetCurrentBlockHeaderHash
    \/ \E n \in final + 1 .. header : SetFinalBlockInfo(n)

Step(p) ==
    \/ GetCurrentBlockHeader(p) \/ GetCurrentBlockHeaderHash(p)
    \/ GetCurrentBlockRootHash(p) \/ GetFinalBlockInfo(p)
    \/ RecreateTrieIfNecessary(p) \/ DoRecreateTrieWithBlockInfo(p)
    \/ StoreBlockInfo(p) \/ RLockForAccount(p) \/ GetRecreatedBlockInfo(p)
    \/ GetExistingAccount(p) \/ GetCode(p) \/ Return(p)

Next ==
    \/ Commit
    \/ \E p \in Procs : Begin(p, "account") \/ Begin(p, "code") \/ Lock(p) \/ Step(p)

Spec == Init /\ [][Next]_vars

----------------------------------------------------------------------------
(* Properties *)

Infos == [nonce : 0 .. MaxBlock, hash : 0 .. MaxBlock, root : Roots \cup {NoRoot}]

Queries ==
    [pc : {"idle", "current", "hash", "root", "final", "compare", "lock",
           "recreate", "store", "rlock", "account", "read", "code", "done"},
     op : {"none", "account", "code"}, info : Infos,
     data : Roots \cup {NoRoot}, since : 0 .. MaxBlock, floor : 0 .. MaxBlock]

\* The type of the state.
TypeOK ==
    /\ provider \in {"current", "final"}
    /\ header \in 0 .. MaxBlock /\ hash \in 0 .. MaxBlock
    /\ final \in 0 .. MaxBlock
    /\ trie \in Roots \cup {NoRoot}
    /\ blockInfo \in Infos
    /\ mutex \in Mutexes
    /\ proc \in [Procs -> Queries]

Answers == {p \in Procs : proc[p].pc = "done" /\ proc[p].op = "account"
                             /\ proc[p].info # NoInfo}

\* An account is answered together with the block info of the trie it was read
\* from, whatever other queries recreate meanwhile (GetAccountWithBlockInfo).  The
\* exception is an answer without block info, when the recreation of another query
\* failed in between.
AccountMatchesBlockInfo == \A p \in Answers : proc[p].data = proc[p].info.root

\* An account is never older than the oldest query it overlaps with: an overtaken
\* query may put back the trie of the block it saw when it began, but no older one
\* (recreateTrieIfNecessary, doRecreateTrieWithBlockInfo).
NotOlderThanOverlapping == \A p \in Answers : proc[p].info.nonce >= proc[p].floor
============================================================================
