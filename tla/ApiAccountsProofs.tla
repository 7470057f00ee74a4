------------------------- MODULE ApiAccountsProofs -------------------------
(***************************************************************************)
(* The accounts adapter of the current and the final block labels every    *)
(* account with the block it was read at, for any number of queries and    *)
(* any chain.                                                              *)
(***************************************************************************)
EXTENDS ApiAccounts, FiniteSetsExt, WellFoundedInduction, TLAPS

\* A nonempty set of natural numbers has a least element, which Min returns.
LEMMA MinIsLeast ==
    ASSUME NEW S, S \subseteq Nat, S # {}
    PROVE  Min(S) \in S /\ \A y \in S : Min(S) <= y
<1> DEFINE R == {ss \in Nat \X Nat : ss[1] < ss[2]}
<1>1. IsWellFoundedOn(R, Nat)
  BY NatLessThanWellFounded, Zenon DEF OpToRel
<1>2. \A x, y \in Nat : y < x => <<y, x>> \in R
  OBVIOUS
<1> HIDE DEF R
<1>3. PICK x \in S : \A y \in S : ~ (<<y, x>> \in R)
  BY <1>1, WFMin
<1>4. \A y \in S : x =< y
  <2> SUFFICES ASSUME NEW y \in S PROVE x =< y
    OBVIOUS
  <2>1. ~ (y < x)
    BY <1>2, <1>3, Zenon
  <2> QED
    BY <2>1
<1> QED
  BY <1>4 DEF Min

-----------------------------------------------------------------------------
\* RLock: the caller is a reader, or parked behind the writer.
LEMMA RLockFacts ==
    ASSUME NEW m \in Mutexes, NEW p \in Procs
    PROVE  /\ RLock(m, p) \in Mutexes
           /\ RLock(m, p).writer = m.writer
           /\ m.writer = NoProc => /\ RLock(m, p).readers = m.readers \cup {p}
                                  /\ RLock(m, p).parked = m.parked
           /\ m.writer # NoProc => /\ RLock(m, p).readers = m.readers
                                  /\ RLock(m, p).parked = m.parked \cup {p}
  BY DEF Mutexes, RLock

\* The other operations of the mutex.
LEMMA MutexOperations ==
    ASSUME NEW m \in Mutexes, NEW p \in Procs
    PROVE  /\ RUnlock(m, p) \in Mutexes
           /\ RUnlock(m, p).writer = m.writer
           /\ RUnlock(m, p).readers = m.readers \ {p}
           /\ RUnlock(m, p).parked = m.parked
           /\ Announce(m, p) \in Mutexes
           /\ Announce(m, p).writer = p
           /\ Announce(m, p).readers = m.readers
           /\ Announce(m, p).parked = m.parked
           /\ Unlock(m) \in Mutexes
           /\ Unlock(m).writer = NoProc
           /\ Unlock(m).readers = m.readers \cup m.parked
           /\ Unlock(m).parked = {}
  BY DEF Mutexes, RUnlock, Announce, Unlock

----------------------------------------------------------------------------
(* The inductive invariant *)

\* Readers and writer of mutRecreatedTrieBlockInfo are where the code puts them,
\* and the trie is not recreated while somebody reads.
Discipline ==
    \A p \in Procs :
       /\ p \in mutex.readers => /\ proc[p].pc \in {"compare", "account", "read"}
                               /\ p \notin mutex.parked
       /\ p \in mutex.parked => proc[p].pc \in {"compare", "account"}
       /\ mutex.writer = p => proc[p].pc \in {"recreate", "store"}
       /\ proc[p].pc = "read" => p \in mutex.readers
       /\ proc[p].pc \in {"recreate", "store"} => mutex.writer = p
       /\ proc[p].pc = "store" => mutex.readers = {}

\* The block info is the one of the trie, but for a writer between its two steps;
\* a reader has the block info of the trie it is about to read.
Labelled ==
    /\ (\A p \in Procs : proc[p].pc # "store")
          => (blockInfo # NoInfo => trie = blockInfo.root)
    /\ \A p \in Procs :
          /\ proc[p].pc = "store" => trie = proc[p].info.root
          /\ proc[p].pc = "read" => proc[p].info = blockInfo
          /\ proc[p].pc = "code" => proc[p].op # "account"
          /\ proc[p].pc = "done" /\ proc[p].op = "account" /\ proc[p].info # NoInfo
                => proc[p].data = proc[p].info.root

\* A query that found a block finds its root hash.
HasBlock == \A p \in Procs : proc[p].pc \in {"hash", "root"} => header # 0

IInv == TypeOK /\ Discipline /\ Labelled /\ HasBlock

----------------------------------------------------------------------------
(* How one query moves *)

LEMMA OneQueryMoves ==
    ASSUME TypeOK, NEW p \in Procs, NEW c \in Queries,
           proc' = [proc EXCEPT ![p] = c]
    PROVE  /\ proc' \in [Procs -> Queries]
           /\ proc'[p] = c
           /\ \A q \in Procs : q # p => proc'[q] = proc[q]
  BY DEF TypeOK

LEMMA NoInfoIsInfo == NoInfo \in Infos
  BY ApiAssumption DEF NoInfo, Infos

LEMMA IdleIsQuery == Idle \in Queries /\ Idle.pc = "idle"
  BY NoInfoIsInfo, ApiAssumption DEF Idle, Queries

\* Only the pc changes.
LEMMA GotoMoves ==
    ASSUME TypeOK, NEW p \in Procs,
           NEW pc \in {"lock", "recreate", "store", "rlock", "account", "code"},
           Goto(p, pc)
    PROVE  /\ proc' \in [Procs -> Queries]
           /\ proc'[p].pc = pc /\ proc'[p].info = proc[p].info
           /\ proc'[p].op = proc[p].op
           /\ \A q \in Procs : q # p => proc'[q] = proc[q]
<1> DEFINE c == [proc[p] EXCEPT !.pc = pc]
<1>1. proc[p] \in Queries
  BY DEF TypeOK
<1>2. c \in Queries /\ c.pc = pc /\ c.info = proc[p].info /\ c.op = proc[p].op
  BY <1>1 DEF Queries
<1>3. proc' = [proc EXCEPT ![p] = c]
  BY DEF Goto, TypeOK
<1> HIDE DEF c
<1>4. QED
  BY <1>2, <1>3, OneQueryMoves

\* The pc and the block info change.
LEMMA CollectMoves ==
    ASSUME TypeOK, NEW p \in Procs, NEW pc \in {"hash", "root", "compare", "read"},
           NEW info \in Infos,
           proc' = [proc EXCEPT ![p] = [proc[p] EXCEPT !.pc = pc, !.info = info]]
    PROVE  /\ proc' \in [Procs -> Queries]
           /\ proc'[p].pc = pc /\ proc'[p].info = info
           /\ \A q \in Procs : q # p => proc'[q] = proc[q]
<1> DEFINE c == [proc[p] EXCEPT !.pc = pc, !.info = info]
<1>1. proc[p] \in Queries
  BY DEF TypeOK
<1>2. c \in Queries /\ c.pc = pc /\ c.info = info
  BY <1>1 DEF Queries
<1> HIDE DEF c
<1>3. proc' = [proc EXCEPT ![p] = c]
  BY DEF c
<1>4. QED
  BY <1>2, <1>3, OneQueryMoves

\* The query is answered.
LEMMA AnsweredMoves ==
    ASSUME TypeOK, NEW p \in Procs, NEW info \in Infos,
           NEW data \in Roots \cup {NoRoot}, Answered(p, info, data)
    PROVE  /\ proc' \in [Procs -> Queries]
           /\ proc'[p].pc = "done" /\ proc'[p].info = info
           /\ proc'[p].data = data /\ proc'[p].op = proc[p].op
           /\ \A q \in Procs : q # p => proc'[q] = proc[q]
<1> DEFINE c == [proc[p] EXCEPT !.pc = "done", !.info = info, !.data = data,
                                !.since = 0]
<1>1. proc[p] \in Queries
  BY DEF TypeOK
<1>0. 0 \in 0 .. MaxBlock
  BY ApiAssumption
<1>2. /\ c \in Queries /\ c.pc = "done" /\ c.info = info
      /\ c.data = data /\ c.op = proc[p].op
  BY <1>0, <1>1 DEF Queries
<1>3. proc' = [proc EXCEPT ![p] = c]
  BY DEF Answered, TypeOK
<1> HIDE DEF c
<1>4. QED
  BY <1>2, <1>3, OneQueryMoves

\* The query ends.
LEMMA FailMoves ==
    ASSUME TypeOK, NEW p \in Procs, Fail(p)
    PROVE  /\ proc' \in [Procs -> Queries]
           /\ proc'[p].pc = "idle"
           /\ \A q \in Procs : q # p => proc'[q] = proc[q]
  BY IdleIsQuery, OneQueryMoves DEF Fail

----------------------------------------------------------------------------
(* Every step keeps the invariant *)

LEMMA InitInvariant == Init => IInv
<1> SUFFICES ASSUME Init PROVE IInv
  OBVIOUS
<1>1. TypeOK
  BY IdleIsQuery, NoInfoIsInfo, ApiAssumption
  DEF Init, TypeOK, Unlocked, Mutexes
<1>2. \A p \in Procs : proc[p].pc = "idle"
  BY IdleIsQuery DEF Init
<1>3. mutex.readers = {} /\ mutex.parked = {} /\ mutex.writer = NoProc
  BY DEF Init, Unlocked
<1>4. Discipline /\ HasBlock
  BY <1>2, <1>3, MutexAssumption DEF Discipline, HasBlock
<1>5. Labelled
  BY <1>2 DEF Labelled, Init
<1>6. QED
  BY <1>1, <1>4, <1>5 DEF IInv

LEMMA CommitKeepsInvariant ==
    ASSUME IInv, Commit
    PROVE  IInv'
<1>1. /\ UNCHANGED <<provider, adapter, mutex, proc>>
      /\ header' = header \/ (header' = header + 1 /\ header < MaxBlock)
      /\ hash' \in {hash, header}
      /\ final' = final \/ final' \in final + 1 .. header
  BY DEF Commit, SetCurrentBlockHeaderAndRootHash, SetCurrentBlockHeaderHash,
         SetFinalBlockInfo
<1>2. UNCHANGED <<provider, trie, blockInfo, mutex, proc>>
  BY <1>1 DEF adapter
<1>3. /\ header' \in 0 .. MaxBlock /\ hash' \in 0 .. MaxBlock
      /\ final' \in 0 .. MaxBlock
      /\ header # 0 => header' # 0
  BY <1>1, ApiAssumption DEF IInv, TypeOK
<1>4. TypeOK'
  BY <1>2, <1>3 DEF IInv, TypeOK
<1>5. Discipline' /\ Labelled'
  BY <1>2 DEF IInv, Discipline, Labelled
<1>6. HasBlock'
  BY <1>2, <1>3 DEF IInv, HasBlock
<1>7. QED
  BY <1>4, <1>5, <1>6 DEF IInv

LEMMA BeginKeepsInvariant ==
    ASSUME IInv, NEW p \in Procs, NEW op \in {"account", "code"}, Begin(p, op)
    PROVE  IInv'
<1> DEFINE S == {Provided} \cup {proc[q].since : q \in InFlight}
           c == [Idle EXCEPT !.pc = provider, !.op = op, !.since = Provided,
                             !.floor = Min(S)]
<1>1. Provided \in 0 .. MaxBlock /\ provider \in {"current", "final"}
  BY DEF IInv, TypeOK, Provided
<1>2. \A q \in InFlight : proc[q].since \in 0 .. MaxBlock
  BY DEF IInv, TypeOK, Queries, InFlight
<1>3. S \subseteq 0 .. MaxBlock /\ S # {}
  BY <1>1, <1>2
<1>4. S \subseteq Nat
  BY <1>3, ApiAssumption
<1> HIDE DEF S
<1>5. Min(S) \in 0 .. MaxBlock
  BY <1>3, <1>4, MinIsLeast
<1>6. c \in Queries /\ c.pc \in {"current", "final"}
  BY <1>1, <1>5, IdleIsQuery DEF Queries, Idle
<1>7. /\ proc' = [proc EXCEPT ![p] = c] /\ UNCHANGED <<chain, adapter, mutex>>
      /\ proc[p].pc = "idle"
  BY DEF Begin, S
<1> HIDE DEF c
<1>8. /\ proc' \in [Procs -> Queries] /\ proc'[p].pc \in {"current", "final"}
      /\ \A q \in Procs : q # p => proc'[q] = proc[q]
  BY <1>6, <1>7, OneQueryMoves DEF IInv
<1>9. UNCHANGED <<provider, header, hash, final, trie, blockInfo, mutex>>
  BY <1>7 DEF chain, adapter
<1>10. TypeOK'
  BY <1>8, <1>9 DEF IInv, TypeOK
<1>11. Discipline' /\ HasBlock'
  BY <1>7, <1>8, <1>9 DEF IInv, Discipline, HasBlock
<1>12. Labelled'
  BY <1>7, <1>8, <1>9 DEF IInv, Labelled
<1>13. QED
  BY <1>10, <1>11, <1>12 DEF IInv

\* The block info provider: no lock, except that its last call is followed by
\* RLock.
LEMMA CollectKeepsInvariant ==
    ASSUME IInv, NEW p \in Procs, NEW pc \in {"hash", "root"}, NEW info \in Infos,
           proc[p].pc \in {"current", "hash"}, header # 0,
           proc' = [proc EXCEPT ![p] = [proc[p] EXCEPT !.pc = pc, !.info = info]],
           UNCHANGED <<chain, adapter, mutex>>
    PROVE  IInv'
<1>1. /\ proc' \in [Procs -> Queries] /\ proc'[p].pc = pc
      /\ \A q \in Procs : q # p => proc'[q] = proc[q]
  BY CollectMoves DEF IInv
<1>2. UNCHANGED <<provider, header, hash, final, trie, blockInfo, mutex>>
  BY DEF chain, adapter
<1>3. TypeOK'
  BY <1>1, <1>2 DEF IInv, TypeOK
<1>4. Discipline' /\ HasBlock'
  BY <1>1, <1>2 DEF IInv, Discipline, HasBlock
<1>5. Labelled'
  BY <1>1, <1>2 DEF IInv, Labelled
<1>6. QED
  BY <1>3, <1>4, <1>5 DEF IInv

LEMMA CompareKeepsInvariant ==
    ASSUME IInv, NEW p \in Procs, NEW info \in Infos,
           proc[p].pc \in {"root", "final"},
           proc' = [proc EXCEPT ![p] = [proc[p] EXCEPT !.pc = "compare", !.info = info]],
           mutex' = RLock(mutex, p), UNCHANGED <<chain, adapter>>
    PROVE  IInv'
<1>1. /\ proc' \in [Procs -> Queries] /\ proc'[p].pc = "compare"
      /\ \A q \in Procs : q # p => proc'[q] = proc[q]
  BY CollectMoves DEF IInv
<1>2. UNCHANGED <<provider, header, hash, final, trie, blockInfo>>
  BY DEF chain, adapter
<1>3. /\ mutex' \in Mutexes /\ mutex'.writer = mutex.writer
      /\ mutex.writer = NoProc => /\ mutex'.readers = mutex.readers \cup {p}
                                 /\ mutex'.parked = mutex.parked
      /\ mutex.writer # NoProc => /\ mutex'.readers = mutex.readers
                                 /\ mutex'.parked = mutex.parked \cup {p}
  BY RLockFacts DEF IInv, TypeOK
<1>4. TypeOK'
  BY <1>1, <1>2, <1>3 DEF IInv, TypeOK
<1>5. Discipline' /\ HasBlock'
  BY <1>1, <1>2, <1>3, MutexAssumption DEF IInv, Discipline, HasBlock
<1>6. Labelled'
  BY <1>1, <1>2 DEF IInv, Labelled
<1>7. QED
  BY <1>4, <1>5, <1>6 DEF IInv

\* A query that holds no lock fails, or its caller takes the answer.
LEMMA EndKeepsInvariant ==
    ASSUME IInv, NEW p \in Procs, Fail(p), UNCHANGED <<chain, adapter, mutex>>,
           proc[p].pc \in {"current", "final", "done"}
    PROVE  IInv'
<1>1. /\ proc' \in [Procs -> Queries] /\ proc'[p].pc = "idle"
      /\ \A q \in Procs : q # p => proc'[q] = proc[q]
  BY FailMoves DEF IInv
<1>2. UNCHANGED <<provider, header, hash, final, trie, blockInfo, mutex>>
  BY DEF chain, adapter
<1>3. TypeOK'
  BY <1>1, <1>2 DEF IInv, TypeOK
<1>4. Discipline' /\ HasBlock'
  BY <1>1, <1>2 DEF IInv, Discipline, HasBlock
<1>5. Labelled'
  BY <1>1, <1>2 DEF IInv, Labelled
<1>6. QED
  BY <1>3, <1>4, <1>5 DEF IInv

LEMMA ProviderKeepsInvariant ==
    ASSUME IInv, NEW p \in Procs,
           \/ GetCurrentBlockHeader(p) \/ GetCurrentBlockHeaderHash(p)
           \/ GetCurrentBlockRootHash(p) \/ GetFinalBlockInfo(p) \/ Return(p)
    PROVE  IInv'
<1>1. /\ proc \in [Procs -> Queries] /\ proc[p].info \in Infos
      /\ header \in 0 .. MaxBlock /\ hash \in 0 .. MaxBlock
      /\ final \in 0 .. MaxBlock
  BY DEF IInv, TypeOK, Queries
<1>2. CASE GetCurrentBlockHeader(p)
  <2>1. CASE header = 0
    BY <1>2, <2>1, EndKeepsInvariant DEF GetCurrentBlockHeader
  <2>2. CASE header # 0
    <3> DEFINE info == [proc[p].info EXCEPT !.nonce = header]
    <3>1. info \in Infos
      BY <1>1 DEF Infos
    <3>2. proc' = [proc EXCEPT ![p].pc = "hash", ![p].info.nonce = header]
      BY <1>2, <2>2 DEF GetCurrentBlockHeader
    <3>3. proc' = [proc EXCEPT ![p] = [proc[p] EXCEPT !.pc = "hash", !.info = info]]
      BY <3>2
    <3> HIDE DEF info
    <3>4. QED
      BY <1>2, <2>2, <3>1, <3>3, CollectKeepsInvariant DEF GetCurrentBlockHeader
  <2>3. QED
    BY <2>1, <2>2
<1>3. CASE GetCurrentBlockHeaderHash(p)
  <2> DEFINE info == [proc[p].info EXCEPT !.hash = hash]
  <2>1. info \in Infos
    BY <1>1 DEF Infos
  <2>2. proc' = [proc EXCEPT ![p] = [proc[p] EXCEPT !.pc = "root", !.info = info]]
    BY <1>3 DEF GetCurrentBlockHeaderHash
  <2> HIDE DEF info
  <2>3. proc[p].pc = "hash" /\ header # 0
    BY <1>3 DEF GetCurrentBlockHeaderHash, IInv, HasBlock
  <2>4. QED
    BY <1>3, <2>1, <2>2, <2>3, CollectKeepsInvariant DEF GetCurrentBlockHeaderHash
<1>4. CASE GetCurrentBlockRootHash(p)
  <2> DEFINE info == [proc[p].info EXCEPT !.root = RootOf[header]]
  <2>1. header \in 1 .. MaxBlock
    BY <1>1, <1>4, ApiAssumption DEF GetCurrentBlockRootHash, IInv, HasBlock
  <2>2. RootOf[header] \in Roots
    BY <2>1, ApiAssumption
  <2>3. info \in Infos
    BY <1>1, <2>2 DEF Infos
  <2>4. proc' = [proc EXCEPT ![p] = [proc[p] EXCEPT !.pc = "compare", !.info = info]]
    BY <1>4 DEF GetCurrentBlockRootHash
  <2> HIDE DEF info
  <2>5. QED
    BY <1>4, <2>3, <2>4, CompareKeepsInvariant DEF GetCurrentBlockRootHash
<1>5. CASE GetFinalBlockInfo(p)
  <2>1. CASE final = 0
    BY <1>5, <2>1, EndKeepsInvariant DEF GetFinalBlockInfo
  <2>2. CASE final # 0
    <3>1. final \in 1 .. MaxBlock
      BY <1>1, <2>2, ApiAssumption
    <3>2. Info(final) \in Infos
      BY <1>1, <3>1, ApiAssumption DEF Info, Infos
    <3>3. proc' = [proc EXCEPT ![p] =
                      [proc[p] EXCEPT !.pc = "compare", !.info = Info(final)]]
      BY <1>5, <2>2 DEF GetFinalBlockInfo
    <3>4. QED
      BY <1>5, <2>2, <3>2, <3>3, CompareKeepsInvariant DEF GetFinalBlockInfo
  <2>3. QED
    BY <2>1, <2>2
<1>6. CASE Return(p)
  BY <1>6, EndKeepsInvariant DEF Return, Fail
<1>7. QED
  BY <1>2, <1>3, <1>4, <1>5, <1>6

\* The query goes on, and the lock is taken, given up or asked for.
LEMMA RecreateTrieIfNecessaryKeepsInvariant ==
    ASSUME IInv, NEW p \in Procs, RecreateTrieIfNecessary(p)
    PROVE  IInv'
<1>1. /\ proc[p].pc = "compare" /\ mutex' = RUnlock(mutex, p)
      /\ UNCHANGED <<chain, adapter>>
  BY DEF RecreateTrieIfNecessary
<1>2. PICK pc \in {"rlock", "code", "lock"} :
         Goto(p, pc) /\ (pc = "code" => proc[p].op # "account")
  BY DEF RecreateTrieIfNecessary, AfterRecreate
<1>3. /\ proc' \in [Procs -> Queries] /\ proc'[p].pc = pc
      /\ proc'[p].op = proc[p].op
      /\ \A q \in Procs : q # p => proc'[q] = proc[q]
  BY <1>2, GotoMoves DEF IInv
<1>4. UNCHANGED <<provider, header, hash, final, trie, blockInfo>>
  BY <1>1 DEF chain, adapter
<1>5. /\ mutex' \in Mutexes /\ mutex'.writer = mutex.writer
      /\ mutex'.readers = mutex.readers \ {p} /\ mutex'.parked = mutex.parked
      /\ p \notin mutex.parked
  BY <1>1, MutexOperations
  DEF IInv, TypeOK, Discipline, RecreateTrieIfNecessary, HoldsRLock
<1>6. TypeOK'
  BY <1>3, <1>4, <1>5 DEF IInv, TypeOK
<1>7. Discipline' /\ HasBlock'
  BY <1>1, <1>2, <1>3, <1>4, <1>5 DEF IInv, Discipline, HasBlock
<1>8. Labelled'
  BY <1>1, <1>2, <1>3, <1>4 DEF IInv, Labelled
<1>9. QED
  BY <1>6, <1>7, <1>8 DEF IInv

LEMMA LockKeepsInvariant ==
    ASSUME IInv, NEW p \in Procs, Lock(p)
    PROVE  IInv'
<1>1. /\ proc[p].pc = "lock" /\ mutex.writer = NoProc
      /\ mutex' = Announce(mutex, p) /\ Goto(p, "recreate")
      /\ UNCHANGED <<chain, adapter>>
  BY DEF Lock, CanAnnounce
<1>2. /\ proc' \in [Procs -> Queries] /\ proc'[p].pc = "recreate"
      /\ \A q \in Procs : q # p => proc'[q] = proc[q]
  BY <1>1, GotoMoves DEF IInv
<1>3. UNCHANGED <<provider, header, hash, final, trie, blockInfo>>
  BY <1>1 DEF chain, adapter
<1>4. /\ mutex' \in Mutexes /\ mutex'.writer = p
      /\ mutex'.readers = mutex.readers /\ mutex'.parked = mutex.parked
  BY <1>1, MutexOperations DEF IInv, TypeOK
<1>5. TypeOK'
  BY <1>2, <1>3, <1>4 DEF IInv, TypeOK
<1>6. Discipline' /\ HasBlock'
  BY <1>1, <1>2, <1>3, <1>4, MutexAssumption DEF IInv, Discipline, HasBlock
<1>7. Labelled'
  BY <1>1, <1>2, <1>3 DEF IInv, Labelled
<1>8. QED
  BY <1>5, <1>6, <1>7 DEF IInv

\* What holds while a query has the write lock, and after it gives it up.
LEMMA UnlockFacts ==
    ASSUME IInv, NEW p \in Procs, mutex.writer = p, mutex.readers = {}
    PROVE  /\ \A q \in Procs : proc[q].pc # "read"
           /\ \A q \in Procs : q # p => proc[q].pc \notin {"recreate", "store"}
           /\ Unlock(mutex) \in Mutexes /\ Unlock(mutex).writer = NoProc
           /\ Unlock(mutex).readers = mutex.parked
           /\ Unlock(mutex).parked = {}
<1>1. mutex \in Mutexes
  BY DEF IInv, TypeOK
<1>2. /\ Unlock(mutex) \in Mutexes /\ Unlock(mutex).writer = NoProc
      /\ Unlock(mutex).readers = mutex.readers \cup mutex.parked
      /\ Unlock(mutex).parked = {}
  BY <1>1, MutexOperations
<1>3. Unlock(mutex).readers = mutex.parked
  BY <1>2
<1>4. /\ \A q \in Procs : proc[q].pc # "read"
      /\ \A q \in Procs : q # p => proc[q].pc \notin {"recreate", "store"}
  BY DEF IInv, Discipline
<1>5. QED
  BY <1>2, <1>3, <1>4

LEMMA DoRecreateKeepsInvariant ==
    ASSUME IInv, NEW p \in Procs, DoRecreateTrieWithBlockInfo(p)
    PROVE  IInv'
<1>1. /\ proc[p].pc = "recreate" /\ mutex.writer = p /\ mutex.readers = {}
      /\ UNCHANGED chain
  BY DEF DoRecreateTrieWithBlockInfo, HoldsLock
<1>2. /\ \A q \in Procs : proc[q].pc # "read"
      /\ \A q \in Procs : q # p => proc[q].pc \notin {"recreate", "store"}
      /\ Unlock(mutex) \in Mutexes /\ Unlock(mutex).writer = NoProc
      /\ Unlock(mutex).readers = mutex.parked /\ Unlock(mutex).parked = {}
  BY <1>1, UnlockFacts
<1>3. UNCHANGED <<provider, header, hash, final>>
  BY <1>1 DEF chain
<1>4. CASE AfterRecreate(p) /\ mutex' = Unlock(mutex) /\ UNCHANGED adapter
  <2>1. PICK pc \in {"rlock", "code"} :
           Goto(p, pc) /\ (pc = "code" => proc[p].op # "account")
    BY <1>4 DEF AfterRecreate
  <2>2. /\ proc' \in [Procs -> Queries] /\ proc'[p].pc = pc
        /\ proc'[p].op = proc[p].op
        /\ \A q \in Procs : q # p => proc'[q] = proc[q]
    BY <2>1, GotoMoves DEF IInv
  <2>3. UNCHANGED <<trie, blockInfo>>
    BY <1>4 DEF adapter
  <2>4. TypeOK'
    BY <1>2, <1>3, <1>4, <2>2, <2>3 DEF IInv, TypeOK
  <2>5. Discipline' /\ HasBlock'
    BY <1>1, <1>2, <1>3, <1>4, <2>1, <2>2, MutexAssumption
    DEF IInv, Discipline, HasBlock
  <2>6. Labelled'
    BY <1>1, <1>2, <2>1, <2>2, <2>3 DEF IInv, Labelled
  <2>7. QED
    BY <2>4, <2>5, <2>6 DEF IInv
<1>5. CASE /\ trie' = proc[p].info.root /\ Goto(p, "store")
           /\ UNCHANGED <<blockInfo, mutex>>
  <2>1. /\ proc' \in [Procs -> Queries] /\ proc'[p].pc = "store"
        /\ proc'[p].info = proc[p].info
        /\ \A q \in Procs : q # p => proc'[q] = proc[q]
    BY <1>5, GotoMoves DEF IInv
  <2>2. trie' \in Roots \cup {NoRoot}
    BY <1>5 DEF IInv, TypeOK, Queries, Infos
  <2>3. TypeOK'
    BY <1>3, <1>5, <2>1, <2>2 DEF IInv, TypeOK
  <2>4. Discipline' /\ HasBlock'
    BY <1>1, <1>2, <1>3, <1>5, <2>1 DEF IInv, Discipline, HasBlock
  <2>5. Labelled'
    BY <1>1, <1>2, <1>5, <2>1 DEF IInv, Labelled
  <2>6. QED
    BY <2>3, <2>4, <2>5 DEF IInv
<1>6. CASE /\ blockInfo' = NoInfo /\ Fail(p) /\ mutex' = Unlock(mutex)
           /\ UNCHANGED trie
  <2>1. /\ proc' \in [Procs -> Queries] /\ proc'[p].pc = "idle"
        /\ \A q \in Procs : q # p => proc'[q] = proc[q]
    BY <1>6, FailMoves DEF IInv
  <2>2. TypeOK'
    BY <1>2, <1>3, <1>6, <2>1, NoInfoIsInfo DEF IInv, TypeOK
  <2>3. Discipline' /\ HasBlock'
    BY <1>1, <1>2, <1>3, <1>6, <2>1, MutexAssumption
    DEF IInv, Discipline, HasBlock
  <2>4. NoInfo' = NoInfo
    BY DEF NoInfo
  <2>5. Labelled'
    BY <1>1, <1>2, <1>6, <2>1, <2>4 DEF IInv, Labelled
  <2>6. QED
    BY <2>2, <2>3, <2>5 DEF IInv
<1>7. QED
  BY <1>4, <1>5, <1>6 DEF DoRecreateTrieWithBlockInfo

LEMMA StoreKeepsInvariant ==
    ASSUME IInv, NEW p \in Procs, StoreBlockInfo(p)
    PROVE  IInv'
<1>1. /\ proc[p].pc = "store" /\ blockInfo' = proc[p].info
      /\ mutex' = Unlock(mutex) /\ UNCHANGED <<chain, trie>>
  BY DEF StoreBlockInfo
<1>2. mutex.writer = p /\ mutex.readers = {}
  BY <1>1 DEF IInv, Discipline
<1>3. /\ \A q \in Procs : proc[q].pc # "read"
      /\ \A q \in Procs : q # p => proc[q].pc \notin {"recreate", "store"}
      /\ Unlock(mutex) \in Mutexes /\ Unlock(mutex).writer = NoProc
      /\ Unlock(mutex).readers = mutex.parked /\ Unlock(mutex).parked = {}
  BY <1>2, UnlockFacts
<1>4. PICK pc \in {"rlock", "code"} :
         Goto(p, pc) /\ (pc = "code" => proc[p].op # "account")
  BY DEF StoreBlockInfo, AfterRecreate
<1>5. /\ proc' \in [Procs -> Queries] /\ proc'[p].pc = pc
      /\ proc'[p].op = proc[p].op
      /\ \A q \in Procs : q # p => proc'[q] = proc[q]
  BY <1>4, GotoMoves DEF IInv
<1>6. UNCHANGED <<provider, header, hash, final, trie>> /\ blockInfo' \in Infos
  BY <1>1 DEF chain, IInv, TypeOK, Queries
<1>7. TypeOK'
  BY <1>1, <1>3, <1>5, <1>6 DEF IInv, TypeOK
<1>8. Discipline' /\ HasBlock'
  BY <1>1, <1>2, <1>3, <1>4, <1>5, <1>6, MutexAssumption
  DEF IInv, Discipline, HasBlock
<1>9. Labelled'
  BY <1>1, <1>3, <1>4, <1>5, <1>6 DEF IInv, Labelled
<1>10. QED
  BY <1>7, <1>8, <1>9 DEF IInv

LEMMA RLockForAccountKeepsInvariant ==
    ASSUME IInv, NEW p \in Procs, RLockForAccount(p)
    PROVE  IInv'
<1>1. /\ proc[p].pc = "rlock" /\ mutex' = RLock(mutex, p) /\ Goto(p, "account")
      /\ UNCHANGED <<chain, adapter>>
  BY DEF RLockForAccount
<1>2. /\ proc' \in [Procs -> Queries] /\ proc'[p].pc = "account"
      /\ \A q \in Procs : q # p => proc'[q] = proc[q]
  BY <1>1, GotoMoves DEF IInv
<1>3. UNCHANGED <<provider, header, hash, final, trie, blockInfo>>
  BY <1>1 DEF chain, adapter
<1>4. /\ mutex' \in Mutexes /\ mutex'.writer = mutex.writer
      /\ mutex.writer = NoProc => /\ mutex'.readers = mutex.readers \cup {p}
                                 /\ mutex'.parked = mutex.parked
      /\ mutex.writer # NoProc => /\ mutex'.readers = mutex.readers
                                 /\ mutex'.parked = mutex.parked \cup {p}
  BY <1>1, RLockFacts DEF IInv, TypeOK
<1>5. TypeOK'
  BY <1>2, <1>3, <1>4 DEF IInv, TypeOK
<1>6. Discipline' /\ HasBlock'
  BY <1>1, <1>2, <1>3, <1>4, MutexAssumption DEF IInv, Discipline, HasBlock
<1>7. Labelled'
  BY <1>1, <1>2, <1>3 DEF IInv, Labelled
<1>8. QED
  BY <1>5, <1>6, <1>7 DEF IInv

\* GetAccountWithBlockInfo, under the read lock.
LEMMA GetRecreatedBlockInfoKeepsInvariant ==
    ASSUME IInv, NEW p \in Procs, GetRecreatedBlockInfo(p)
    PROVE  IInv'
<1>1. /\ proc[p].pc = "account" /\ p \in mutex.readers
      /\ UNCHANGED <<provider, header, hash, final, trie, blockInfo, mutex>>
  BY DEF GetRecreatedBlockInfo, HoldsRLock, chain, adapter
<1>2. proc' = [proc EXCEPT ![p] =
                  [proc[p] EXCEPT !.pc = "read", !.info = blockInfo]]
  BY DEF GetRecreatedBlockInfo, IInv, TypeOK
<1>3. /\ proc' \in [Procs -> Queries]
      /\ proc'[p].pc = "read" /\ proc'[p].info = blockInfo
      /\ \A q \in Procs : q # p => proc'[q] = proc[q]
  BY <1>2, CollectMoves DEF IInv, TypeOK
<1>4. TypeOK'
  BY <1>1, <1>3 DEF IInv, TypeOK
<1>5. Discipline' /\ HasBlock'
  BY <1>1, <1>3 DEF IInv, Discipline, HasBlock
<1>6. Labelled'
  BY <1>1, <1>3 DEF IInv, Labelled
<1>7. QED
  BY <1>4, <1>5, <1>6 DEF IInv

\* Nobody is between the two steps of a recreation while the account is read.
LEMMA GetExistingAccountKeepsInvariant ==
    ASSUME IInv, NEW p \in Procs, GetExistingAccount(p)
    PROVE  IInv'
<1>1. /\ proc[p].pc = "read" /\ mutex' = RUnlock(mutex, p)
      /\ UNCHANGED <<provider, header, hash, final, trie, blockInfo>>
  BY DEF GetExistingAccount, chain, adapter
<1>2. p \in mutex.readers /\ p \notin mutex.parked
  BY <1>1 DEF IInv, Discipline
<1>3. \A q \in Procs : proc[q].pc # "store"
  BY <1>2 DEF IInv, Discipline
<1>4. proc[p].info # NoInfo => trie = proc[p].info.root
  BY <1>1, <1>3 DEF IInv, Labelled
<1>5. /\ mutex' \in Mutexes /\ mutex'.writer = mutex.writer
      /\ mutex'.readers = mutex.readers \ {p} /\ mutex'.parked = mutex.parked
  BY <1>1, MutexOperations DEF IInv, TypeOK
<1>6. /\ proc[p].info \in Infos /\ trie \in Roots \cup {NoRoot}
  BY DEF IInv, TypeOK, Queries
<1>7. /\ proc' \in [Procs -> Queries]
      /\ \/ /\ proc'[p].pc = "done" /\ proc'[p].info = proc[p].info
            /\ proc'[p].data = trie
         \/ proc'[p].pc = "idle"
      /\ \A q \in Procs : q # p => proc'[q] = proc[q]
  <2>1. CASE Answered(p, proc[p].info, trie)
    BY <1>6, <2>1, AnsweredMoves DEF IInv
  <2>2. CASE Fail(p)
    BY <2>2, FailMoves DEF IInv
  <2>3. QED
    BY <2>1, <2>2 DEF GetExistingAccount
<1>8. TypeOK'
  BY <1>1, <1>5, <1>7 DEF IInv, TypeOK
<1>9. Discipline' /\ HasBlock'
  BY <1>1, <1>2, <1>5, <1>7 DEF IInv, Discipline, HasBlock
<1>10. NoInfo' = NoInfo
  BY DEF NoInfo
<1>11. Labelled'
  BY <1>1, <1>3, <1>4, <1>7, <1>10 DEF IInv, Labelled
<1>12. QED
  BY <1>8, <1>9, <1>11 DEF IInv

LEMMA GetCodeKeepsInvariant ==
    ASSUME IInv, NEW p \in Procs, GetCode(p)
    PROVE  IInv'
<1>1. /\ proc[p].pc = "code" /\ Answered(p, proc[p].info, trie)
      /\ UNCHANGED <<provider, header, hash, final, trie, blockInfo, mutex>>
  BY DEF GetCode, chain, adapter
<1>2. proc[p].info \in Infos /\ trie \in Roots \cup {NoRoot}
  BY DEF IInv, TypeOK, Queries
<1>3. /\ proc' \in [Procs -> Queries] /\ proc'[p].pc = "done"
      /\ proc'[p].op = proc[p].op
      /\ \A q \in Procs : q # p => proc'[q] = proc[q]
  BY <1>1, <1>2, AnsweredMoves DEF IInv
<1>4. proc[p].op # "account"
  BY <1>1 DEF IInv, Labelled
<1>5. TypeOK'
  BY <1>1, <1>3 DEF IInv, TypeOK
<1>6. Discipline' /\ HasBlock'
  BY <1>1, <1>3 DEF IInv, Discipline, HasBlock
<1>7. Labelled'
  BY <1>1, <1>3, <1>4 DEF IInv, Labelled
<1>8. QED
  BY <1>5, <1>6, <1>7 DEF IInv

----------------------------------------------------------------------------
(* The theorem *)

LEMMA NextKeepsInvariant == IInv /\ [Next]_vars => IInv'
<1> SUFFICES ASSUME IInv, [Next]_vars
             PROVE  IInv'
  OBVIOUS
<1>1. CASE UNCHANGED vars
  BY <1>1 DEF vars, IInv, TypeOK, Discipline, Labelled, HasBlock, NoInfo
<1>2. CASE Commit
  BY <1>2, CommitKeepsInvariant
<1>3. ASSUME NEW p \in Procs, Begin(p, "account") \/ Begin(p, "code")
      PROVE  IInv'
  BY <1>3, BeginKeepsInvariant
<1>4. ASSUME NEW p \in Procs, Lock(p)
      PROVE  IInv'
  BY <1>4, LockKeepsInvariant
<1>5. ASSUME NEW p \in Procs, Step(p)
      PROVE  IInv'
  <2>1. CASE \/ GetCurrentBlockHeader(p) \/ GetCurrentBlockHeaderHash(p)
             \/ GetCurrentBlockRootHash(p) \/ GetFinalBlockInfo(p) \/ Return(p)
    BY <2>1, ProviderKeepsInvariant
  <2>2. CASE RecreateTrieIfNecessary(p)
    BY <2>2, RecreateTrieIfNecessaryKeepsInvariant
  <2>3. CASE DoRecreateTrieWithBlockInfo(p)
    BY <2>3, DoRecreateKeepsInvariant
  <2>4. CASE StoreBlockInfo(p)
    BY <2>4, StoreKeepsInvariant
  <2>5. CASE RLockForAccount(p)
    BY <2>5, RLockForAccountKeepsInvariant
  <2>6. CASE GetRecreatedBlockInfo(p)
    BY <2>6, GetRecreatedBlockInfoKeepsInvariant
  <2>7. CASE GetExistingAccount(p)
    BY <2>7, GetExistingAccountKeepsInvariant
  <2>8. CASE GetCode(p)
    BY <2>8, GetCodeKeepsInvariant
  <2>9. QED
    BY <1>5, <2>1, <2>2, <2>3, <2>4, <2>5, <2>6, <2>7, <2>8 DEF Step
<1>6. QED
  BY <1>1, <1>2, <1>3, <1>4, <1>5 DEF Next

\* GetAccountWithBlockInfo: whatever the queries in flight recreate, an account is
\* answered together with the block info of the trie it was read from, or with none
\* after a recreation that failed.
THEOREM AccountsAreLabelled == Spec => []AccountMatchesBlockInfo
<1>1. Init => IInv
  BY InitInvariant
<1>2. IInv /\ [Next]_vars => IInv'
  BY NextKeepsInvariant
<1>3. IInv => AccountMatchesBlockInfo
  BY DEF IInv, Labelled, AccountMatchesBlockInfo, Answers
<1>4. QED
  BY <1>1, <1>2, <1>3, PTL DEF Spec
----------------------------------------------------------------------------
(* No answer is older than the queries it overlaps with *)

Flying(c) == c.pc \notin {"idle", "done"}

\* What is known of the query c of an adapter that follows pv, whose provider
\* gives block n and whose trie has the block info bi: the block the query saw is
\* not older than the one provided when it began; once it has made sure of the
\* trie, no block older than its floor is loaded.
FreshQuery(c, pv, n, bi) ==
    /\ c.pc \in {"current", "final"} => c.pc = pv
    /\ Flying(c) => c.floor <= c.since /\ c.since <= n
    /\ c.pc \in {"hash", "root", "compare", "lock", "recreate", "store"}
          => c.info.nonce >= c.since
    /\ c.pc \in {"rlock", "account", "read"} => bi = NoInfo \/ bi.nonce >= c.floor
    /\ c.pc = "done" /\ c.op = "account" /\ c.info # NoInfo
          => c.info.nonce >= c.floor

\* Of two queries in flight neither saw a block older than the other's floor.
Overlap ==
    \A p, q \in Procs : Flying(proc[p]) /\ Flying(proc[q])
                           => proc[q].since >= proc[p].floor

Fresh ==
    /\ \A p \in Procs : FreshQuery(proc[p], provider, Provided, blockInfo)
    /\ Overlap

LEMMA FreshInit == Init => Fresh
  BY IdleIsQuery DEF Init, Fresh, FreshQuery, Flying, Overlap

\* A step of one query: it keeps its since and floor, and a block info it loads
\* is not older than the floor of anybody in flight.
LEMMA OneQueryStaysFresh ==
    ASSUME TypeOK, Fresh, NEW p \in Procs, NEW c \in Queries,
           proc' = [proc EXCEPT ![p] = c], UNCHANGED chain,
           Flying(c) => /\ Flying(proc[p]) /\ c.since = proc[p].since
                        /\ c.floor = proc[p].floor,
           FreshQuery(c, provider, Provided, blockInfo'),
           \/ blockInfo' \in {blockInfo, NoInfo}
           \/ \A q \in Procs : Flying(proc[q]) => blockInfo'.nonce >= proc[q].floor
    PROVE  Fresh'
<1>1. proc'[p] = c /\ \A q \in Procs : q # p => proc'[q] = proc[q]
  BY OneQueryMoves
<1>2. provider' = provider /\ Provided' = Provided
  BY DEF chain, Provided
<1>3. Overlap'
  BY <1>1 DEF Fresh, Overlap
<1>4. ASSUME NEW q \in Procs, q # p
      PROVE  FreshQuery(proc[q], provider, Provided, blockInfo')
  <2>1. FreshQuery(proc[q], provider, Provided, blockInfo)
    BY DEF Fresh
  <2>2. proc[q].pc \in {"rlock", "account", "read"} => Flying(proc[q])
    BY DEF Flying
  <2> QED
    BY <2>1, <2>2 DEF FreshQuery
<1>5. NoInfo' = NoInfo
  BY DEF NoInfo
<1> QED
  BY <1>1, <1>2, <1>3, <1>4, <1>5 DEF Fresh, FreshQuery

LEMMA CommitKeepsFresh ==
    ASSUME TypeOK, Fresh, Commit
    PROVE  Fresh'
<1>1. /\ UNCHANGED <<provider, blockInfo, proc>>
      /\ header' = header \/ header' = header + 1
      /\ final' = final \/ final' \in final + 1 .. header
  BY DEF Commit, SetCurrentBlockHeaderAndRootHash, SetCurrentBlockHeaderHash,
         SetFinalBlockInfo, adapter
<1>2. Provided' \in Int /\ Provided \in Int /\ Provided <= Provided'
  BY <1>1 DEF Provided, TypeOK
<1>3. ASSUME NEW p \in Procs
      PROVE  FreshQuery(proc[p], provider, Provided', blockInfo)
  <2>1. FreshQuery(proc[p], provider, Provided, blockInfo)
    BY DEF Fresh
  <2>2. proc[p].since \in Int
    BY DEF TypeOK, Queries
  <2>3. proc[p].since <= Provided => proc[p].since <= Provided'
    BY <1>2, <2>2
  <2> QED
    BY <2>1, <2>3 DEF FreshQuery
<1>4. Overlap'
  BY <1>1 DEF Fresh, Overlap
<1> QED
  BY <1>1, <1>3, <1>4 DEF Fresh

LEMMA BeginKeepsFresh ==
    ASSUME TypeOK, Fresh, NEW p \in Procs, NEW op \in {"account", "code"}, Begin(p, op)
    PROVE  Fresh'
<1> DEFINE S == {Provided} \cup {proc[q].since : q \in InFlight}
           c == [Idle EXCEPT !.pc = provider, !.op = op, !.since = Provided,
                             !.floor = Min(S)]
<1>1. Provided \in 0 .. MaxBlock /\ provider \in {"current", "final"}
  BY DEF TypeOK, Provided
<1>2. \A q \in Procs : proc[q].since \in 0 .. MaxBlock /\ proc[q].floor \in 0 .. MaxBlock
  BY DEF TypeOK, Queries
<1>3. S \subseteq Nat /\ S # {}
  BY <1>1, <1>2, ApiAssumption DEF InFlight
<1>4. \A q \in Procs : Flying(proc[q]) => proc[q].since \in S
  BY DEF InFlight, Flying
<1>5. Provided \in S
  OBVIOUS
<1>6. /\ proc' = [proc EXCEPT ![p] = c] /\ UNCHANGED <<chain, adapter>>
      /\ proc[p].pc = "idle"
  BY DEF Begin, S
<1> HIDE DEF S
<1>7. Min(S) \in Nat /\ \A x \in S : Min(S) <= x
  BY <1>3, MinIsLeast
<1>8. c.pc = provider /\ c.since = Provided /\ c.floor = Min(S)
  BY DEF Idle
<1> HIDE DEF c
<1>9. proc'[p] = c /\ \A q \in Procs : q # p => proc'[q] = proc[q]
  BY <1>6 DEF TypeOK
<1>10. provider' = provider /\ Provided' = Provided /\ blockInfo' = blockInfo
  BY <1>6 DEF chain, adapter, Provided
<1>11. FreshQuery(c, provider, Provided, blockInfo)
  BY <1>1, <1>5, <1>7, <1>8 DEF FreshQuery
<1>12. Overlap'
  <2> SUFFICES ASSUME NEW q \in Procs, NEW r \in Procs,
                      Flying(proc'[q]), Flying(proc'[r])
               PROVE  proc'[r].since >= proc'[q].floor
    BY DEF Overlap, Flying
  <2>1. CASE q = p /\ r = p
    BY <1>1, <1>5, <1>7, <1>8, <1>9, <2>1
  <2>2. CASE q = p /\ r # p
    <3>1. proc[r].since \in S
      BY <1>4, <1>9, <2>2
    <3> QED
      BY <1>2, <1>7, <1>8, <1>9, <2>2, <3>1
  <2>3. CASE q # p /\ r = p
    <3>1. proc[q].floor <= proc[q].since /\ proc[q].since <= Provided
      BY <1>9, <2>3 DEF Fresh, FreshQuery
    <3> QED
      BY <1>1, <1>2, <1>8, <1>9, <2>3, <3>1
  <2>4. CASE q # p /\ r # p
    BY <1>9, <2>4 DEF Fresh, Overlap
  <2> QED
    BY <2>1, <2>2, <2>3, <2>4
<1>13. \A q \in Procs : FreshQuery(proc'[q], provider, Provided, blockInfo)
  BY <1>9, <1>11 DEF Fresh
<1> QED
  BY <1>10, <1>12, <1>13 DEF Fresh
\* A query that ends is fresh.
LEMMA FailKeepsFresh ==
    ASSUME TypeOK, Fresh, NEW p \in Procs, Fail(p), UNCHANGED chain,
           blockInfo' \in {blockInfo, NoInfo}
    PROVE  Fresh'
<1>1. proc' = [proc EXCEPT ![p] = Idle] /\ Idle \in Queries /\ Idle.pc = "idle"
  BY IdleIsQuery DEF Fail
<1>2. FreshQuery(Idle, provider, Provided, blockInfo') /\ ~ Flying(Idle)
  BY <1>1 DEF FreshQuery, Flying
<1> QED
  BY <1>1, <1>2, OneQueryStaysFresh

\* Collecting the block info, the nonce of which is read first.
LEMMA CollectKeepsFresh ==
    ASSUME TypeOK, Fresh, NEW p \in Procs, NEW pc \in {"hash", "root", "compare", "read"},
           NEW info \in Infos, Flying(proc[p]),
           proc' = [proc EXCEPT ![p] = [proc[p] EXCEPT !.pc = pc, !.info = info]],
           UNCHANGED <<chain, blockInfo>>,
           pc # "read" => info.nonce >= proc[p].since,
           pc = "read" => proc[p].pc = "account"
    PROVE  Fresh'
<1> DEFINE c == [proc[p] EXCEPT !.pc = pc, !.info = info]
<1>1. proc[p] \in Queries /\ FreshQuery(proc[p], provider, Provided, blockInfo)
  BY DEF TypeOK, Fresh
<1>2. /\ c \in Queries /\ c.pc = pc /\ c.info = info
      /\ c.since = proc[p].since /\ c.floor = proc[p].floor
  BY <1>1 DEF Queries
<1>3. proc' = [proc EXCEPT ![p] = c]
  OBVIOUS
<1> HIDE DEF c
<1>4. FreshQuery(c, provider, Provided, blockInfo')
  BY <1>1, <1>2 DEF FreshQuery, Flying
<1> QED
  BY <1>2, <1>3, <1>4, OneQueryStaysFresh

LEMMA ProviderKeepsFresh ==
    ASSUME TypeOK, HasBlock, Fresh, NEW p \in Procs,
           \/ GetCurrentBlockHeader(p) \/ GetCurrentBlockHeaderHash(p)
           \/ GetCurrentBlockRootHash(p) \/ GetFinalBlockInfo(p) \/ Return(p)
    PROVE  Fresh'
<1>1. /\ proc \in [Procs -> Queries] /\ proc[p].info \in Infos
      /\ header \in 0 .. MaxBlock /\ hash \in 0 .. MaxBlock
      /\ final \in 0 .. MaxBlock /\ proc[p].since \in 0 .. MaxBlock
      /\ FreshQuery(proc[p], provider, Provided, blockInfo)
  BY DEF TypeOK, Queries, Fresh
<1>2. UNCHANGED <<chain, blockInfo>>
  BY DEF GetCurrentBlockHeader, GetCurrentBlockHeaderHash, GetCurrentBlockRootHash,
         GetFinalBlockInfo, Return, adapter
<1>3. CASE Fail(p)
  BY <1>2, <1>3, FailKeepsFresh
<1>4. CASE GetCurrentBlockHeader(p) /\ ~ Fail(p)
  <2> DEFINE info == [proc[p].info EXCEPT !.nonce = header]
  <2>1. info \in Infos /\ info.nonce = header
    BY <1>1 DEF Infos
  <2>2. proc' = [proc EXCEPT ![p] = [proc[p] EXCEPT !.pc = "hash", !.info = info]]
    <3>1. proc' = [proc EXCEPT ![p].pc = "hash", ![p].info.nonce = header]
      BY <1>4 DEF GetCurrentBlockHeader
    <3> QED
      BY <1>1, <3>1
  <2> HIDE DEF info
  <2>3. proc[p].pc = "current" /\ Flying(proc[p]) /\ proc[p].since <= header
    BY <1>1, <1>4 DEF GetCurrentBlockHeader, FreshQuery, Flying, Provided
  <2>4. info.nonce >= proc[p].since
    BY <1>1, <2>1, <2>3
  <2> QED
    BY <1>2, <2>1, <2>2, <2>3, <2>4, CollectKeepsFresh
<1>5. CASE GetCurrentBlockHeaderHash(p)
  <2> DEFINE info == [proc[p].info EXCEPT !.hash = hash]
  <2>1. info \in Infos /\ info.nonce = proc[p].info.nonce
    BY <1>1 DEF Infos
  <2>2. proc' = [proc EXCEPT ![p] = [proc[p] EXCEPT !.pc = "root", !.info = info]]
    BY <1>1, <1>5 DEF GetCurrentBlockHeaderHash
  <2> HIDE DEF info
  <2>3. Flying(proc[p]) /\ info.nonce >= proc[p].since
    BY <1>1, <1>5, <2>1 DEF GetCurrentBlockHeaderHash, FreshQuery, Flying
  <2> QED
    BY <1>2, <2>1, <2>2, <2>3, CollectKeepsFresh
<1>6. CASE GetCurrentBlockRootHash(p)
  <2> DEFINE info == [proc[p].info EXCEPT !.root = RootOf[header]]
  <2>1. header \in 1 .. MaxBlock
    BY <1>1, <1>6, ApiAssumption DEF GetCurrentBlockRootHash, HasBlock
  <2>2. RootOf[header] \in Roots
    BY <2>1, ApiAssumption
  <2>3. info \in Infos /\ info.nonce = proc[p].info.nonce
    BY <1>1, <2>2 DEF Infos
  <2>4. proc' = [proc EXCEPT ![p] = [proc[p] EXCEPT !.pc = "compare", !.info = info]]
    BY <1>1, <1>6 DEF GetCurrentBlockRootHash
  <2> HIDE DEF info
  <2>5. Flying(proc[p]) /\ info.nonce >= proc[p].since
    BY <1>1, <1>6, <2>3 DEF GetCurrentBlockRootHash, FreshQuery, Flying
  <2> QED
    BY <1>2, <2>3, <2>4, <2>5, CollectKeepsFresh
<1>7. CASE GetFinalBlockInfo(p) /\ ~ Fail(p)
  <2>1. final \in 1 .. MaxBlock
    BY <1>1, <1>7, ApiAssumption DEF GetFinalBlockInfo
  <2>2. Info(final) \in Infos /\ Info(final).nonce = final
    BY <1>1, <2>1, ApiAssumption DEF Info, Infos
  <2>3. proc' = [proc EXCEPT ![p] =
                    [proc[p] EXCEPT !.pc = "compare", !.info = Info(final)]]
    BY <1>1, <1>7 DEF GetFinalBlockInfo
  <2>4. proc[p].pc = "final" /\ Flying(proc[p]) /\ proc[p].since <= final
    BY <1>1, <1>7 DEF GetFinalBlockInfo, FreshQuery, Flying, Provided
  <2>5. Info(final).nonce >= proc[p].since
    BY <1>1, <2>2, <2>4
  <2> QED
    BY <1>2, <2>2, <2>3, <2>4, <2>5, CollectKeepsFresh
<1>8. CASE Return(p)
  BY <1>3, <1>8 DEF Return, Fail
<1> QED
  BY <1>3, <1>4, <1>5, <1>6, <1>7, <1>8

\* Only the pc changes; a query that finds or makes the trie its own has a block
\* info that is not older than its floor.
LEMMA GotoKeepsFresh ==
    ASSUME TypeOK, Fresh, NEW p \in Procs, Flying(proc[p]),
           NEW pc \in {"lock", "recreate", "store", "rlock", "account", "code"},
           Goto(p, pc), UNCHANGED chain,
           pc \in {"lock", "recreate", "store"}
              => proc[p].pc \in {"compare", "lock", "recreate"},
           pc \in {"rlock", "account"} => blockInfo' = NoInfo \/ blockInfo'.nonce >= proc[p].floor,
           \/ blockInfo' = blockInfo
           \/ \A q \in Procs : Flying(proc[q]) => blockInfo'.nonce >= proc[q].floor
    PROVE  Fresh'
<1> DEFINE c == [proc[p] EXCEPT !.pc = pc]
<1>1. proc[p] \in Queries /\ FreshQuery(proc[p], provider, Provided, blockInfo)
  BY DEF TypeOK, Fresh
<1>2. /\ c \in Queries /\ c.pc = pc /\ c.info = proc[p].info
      /\ c.since = proc[p].since /\ c.floor = proc[p].floor
  BY <1>1 DEF Queries
<1>3. proc' = [proc EXCEPT ![p] = c]
  BY DEF Goto, TypeOK
<1> HIDE DEF c
<1>4. FreshQuery(c, provider, Provided, blockInfo')
  BY <1>1, <1>2 DEF FreshQuery, Flying
<1> QED
  BY <1>2, <1>3, <1>4, OneQueryStaysFresh

\* The block a query is about to load is not older than any floor in flight.
LEMMA CollectedIsFresh ==
    ASSUME TypeOK, Fresh, NEW p \in Procs,
           proc[p].pc \in {"compare", "recreate", "store"}, NEW q \in Procs,
           Flying(proc[q])
    PROVE  proc[p].info.nonce >= proc[q].floor
<1>1. /\ proc[p].info.nonce \in Int /\ proc[p].since \in Int
      /\ proc[q].floor \in Int
  BY DEF TypeOK, Queries, Infos
<1>2. proc[p].info.nonce >= proc[p].since
  BY DEF Fresh, FreshQuery
<1>3. proc[p].since >= proc[q].floor
  BY DEF Fresh, Overlap, Flying
<1> QED
  BY <1>1, <1>2, <1>3

LEMMA RecreateKeepsFresh ==
    ASSUME TypeOK, Fresh, NEW p \in Procs,
           \/ RecreateTrieIfNecessary(p) \/ DoRecreateTrieWithBlockInfo(p)
           \/ StoreBlockInfo(p) \/ Lock(p)
    PROVE  Fresh'
<1>1. /\ proc[p].pc \in {"compare", "recreate", "store", "lock"} /\ Flying(proc[p])
      /\ UNCHANGED chain
  BY DEF RecreateTrieIfNecessary, DoRecreateTrieWithBlockInfo, StoreBlockInfo, Lock, Flying
<1>2. ASSUME AfterRecreate(p), blockInfo' = proc[p].info, proc[p].pc # "lock"
      PROVE  Fresh'
  <2>1. PICK pc \in {"rlock", "code"} : Goto(p, pc)
    BY <1>2 DEF AfterRecreate
  <2>2. \A q \in Procs : Flying(proc[q]) => blockInfo'.nonce >= proc[q].floor
    BY <1>1, <1>2, CollectedIsFresh
  <2> QED
    BY <1>1, <2>1, <2>2, GotoKeepsFresh
<1>3. CASE RecreateTrieIfNecessary(p)
  BY <1>1, <1>2, <1>3, GotoKeepsFresh DEF RecreateTrieIfNecessary, Equal, adapter
<1>4. CASE DoRecreateTrieWithBlockInfo(p)
  <2>1. CASE AfterRecreate(p) /\ blockInfo' = proc[p].info
    BY <1>2, <1>4, <2>1 DEF DoRecreateTrieWithBlockInfo
  <2>2. CASE Goto(p, "store") /\ blockInfo' = blockInfo
    BY <1>1, <1>4, <2>2, GotoKeepsFresh DEF DoRecreateTrieWithBlockInfo
  <2>3. CASE Fail(p) /\ blockInfo' = NoInfo
    BY <1>1, <2>3, FailKeepsFresh
  <2> QED
    BY <1>4, <2>1, <2>2, <2>3 DEF DoRecreateTrieWithBlockInfo, Equal, adapter
<1>5. CASE StoreBlockInfo(p)
  BY <1>2, <1>5 DEF StoreBlockInfo
<1>6. CASE Lock(p)
  BY <1>1, <1>6, GotoKeepsFresh DEF Lock, adapter
<1> QED
  BY <1>3, <1>4, <1>5, <1>6

LEMMA AnswerKeepsFresh ==
    ASSUME IInv, Fresh, NEW p \in Procs,
           \/ RLockForAccount(p) \/ GetRecreatedBlockInfo(p)
           \/ GetExistingAccount(p) \/ GetCode(p)
    PROVE  Fresh'
<1>1. /\ TypeOK /\ proc[p] \in Queries /\ proc[p].info \in Infos
      /\ FreshQuery(proc[p], provider, Provided, blockInfo) /\ blockInfo \in Infos
  BY DEF IInv, TypeOK, Queries, Fresh
<1>2. /\ UNCHANGED <<chain, blockInfo>> /\ Flying(proc[p])
  BY DEF RLockForAccount, GetRecreatedBlockInfo, GetExistingAccount, GetCode, adapter,
         Flying
<1>3. CASE RLockForAccount(p)
  <2>1. Goto(p, "account") /\ (blockInfo = NoInfo \/ blockInfo.nonce >= proc[p].floor)
    BY <1>1, <1>3 DEF RLockForAccount, FreshQuery
  <2> QED
    BY <1>1, <1>2, <2>1, GotoKeepsFresh
<1>4. CASE GetRecreatedBlockInfo(p)
  <2>1. /\ proc' = [proc EXCEPT ![p] = [proc[p] EXCEPT !.pc = "read", !.info = blockInfo]]
        /\ proc[p].pc = "account"
    BY <1>1, <1>4 DEF GetRecreatedBlockInfo, TypeOK
  <2> QED
    BY <1>1, <1>2, <2>1, CollectKeepsFresh
<1>5. ASSUME Answered(p, proc[p].info, trie), proc[p].pc \in {"read", "code"}
      PROVE  Fresh'
  <2> DEFINE c == [proc[p] EXCEPT !.pc = "done", !.info = proc[p].info, !.data = trie,
                                  !.since = 0]
  <2>1. proc' = [proc EXCEPT ![p] = c]
    BY <1>1, <1>5 DEF Answered, TypeOK
  <2>2. 0 \in 0 .. MaxBlock /\ trie \in Roots \cup {NoRoot}
    BY <1>1, ApiAssumption DEF TypeOK
  <2>3. /\ c \in Queries /\ c.pc = "done" /\ c.info = proc[p].info
        /\ c.op = proc[p].op /\ c.floor = proc[p].floor
    BY <1>1, <2>2 DEF Queries
  <2> HIDE DEF c
  <2>4. proc[p].op = "account" => proc[p].pc = "read" /\ proc[p].info = blockInfo
    BY <1>5 DEF IInv, Labelled
  <2>5. FreshQuery(c, provider, Provided, blockInfo') /\ ~ Flying(c)
    BY <1>1, <2>3, <2>4 DEF FreshQuery, Flying
  <2> QED
    BY <1>1, <1>2, <2>1, <2>3, <2>5, OneQueryStaysFresh
<1>6. CASE GetExistingAccount(p)
  BY <1>1, <1>2, <1>5, <1>6, FailKeepsFresh DEF GetExistingAccount
<1>7. CASE GetCode(p)
  BY <1>5, <1>7 DEF GetCode
<1> QED
  BY <1>3, <1>4, <1>6, <1>7

LEMMA FreshNext == IInv /\ Fresh /\ [Next]_vars => Fresh'
<1> SUFFICES ASSUME IInv, Fresh, [Next]_vars PROVE Fresh'
  OBVIOUS
<1>1. TypeOK /\ HasBlock
  BY DEF IInv
<1>2. CASE UNCHANGED vars
  BY <1>2 DEF vars, Fresh, FreshQuery, Overlap, Flying, Provided, NoInfo
<1>3. CASE Commit
  BY <1>1, <1>3, CommitKeepsFresh
<1>4. ASSUME NEW p \in Procs, Begin(p, "account") \/ Begin(p, "code")
      PROVE  Fresh'
  BY <1>1, <1>4, BeginKeepsFresh
<1>5. ASSUME NEW p \in Procs, Lock(p) \/ Step(p)
      PROVE  Fresh'
  BY <1>1, <1>5, ProviderKeepsFresh, RecreateKeepsFresh, AnswerKeepsFresh DEF Step
<1> QED
  BY <1>2, <1>3, <1>4, <1>5 DEF Next

\* recreateTrieIfNecessary: whatever the queries in flight overtake or put back, no
\* account is answered for a block older than the oldest one provided to a query
\* that the answered one overlaps with.
THEOREM AnswersAreFresh == Spec => []NotOlderThanOverlapping
<1>1. Fresh => NotOlderThanOverlapping
  BY DEF Fresh, FreshQuery, NotOlderThanOverlapping, Answers
<1> QED
  BY <1>1, InitInvariant, NextKeepsInvariant, FreshInit, FreshNext, PTL DEF Spec
============================================================================
