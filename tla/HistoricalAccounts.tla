------------------------- MODULE HistoricalAccounts -------------------------
(***************************************************************************)
(* accountsDBApiWithHistory (state/accountsDBApiWithHistory.go): one       *)
(* AccountsDB, hence one trie, serves every query on a past block.  A      *)
(* query whose root hash is not the loaded one takes the write lock and    *)
(* recreates the trie for everybody.                                       *)
(***************************************************************************)
EXTENDS TrieStorage, RWMutex

CONSTANTS
    NoRoot,        \* latestRecreatedRootHash before the first query
    HeaderEpochs,  \* HeaderEpochs[r]: epochs of the blocks with root hash r
    Hintless,      \* the roots that are also asked for by root hash alone
    NumActive,     \* number of epochs with an open DB
    FirstEpoch,    \* epoch the node starts in
    LastEpoch      \* bound: last epoch the chain reaches

\* The nodes of a root are in the DB of its block's epoch or of the one before:
\* the comment on numEpochsToVerify.
ASSUME HistoryAssumption ==
    /\ NoRoot \notin Roots
    /\ HeaderEpochs \in [Roots -> SUBSET Nat]
    /\ \A r \in Roots \ {EmptyRoot} : \A h \in HeaderEpochs[r] :
          /\ RootNodeIn[r] \cap {h - 1, h} # {}
          /\ LeafIn[r] \cap {h - 1, h} # {}
    /\ Hintless \subseteq Roots
    /\ NumActive \in Nat \ {0}
    /\ FirstEpoch \in Nat /\ LastEpoch \in Nat
    /\ FirstEpoch <= LastEpoch

VARIABLES
    trie,    \* mainTrie of the inner AccountsDB
    latest,  \* latestRecreatedRootHash
    epoch,   \* the current epoch of the chain
    mutex,   \* mutRecreateAndGet
    proc     \* the queries in flight

vars == <<trie, latest, epoch, mutex, proc>>

\* reused says that the query found the trie of its root hash already loaded.
Idle == [pc |-> "idle", op |-> "none", root |-> NoRoot, hint |-> NoHint,
         reused |-> FALSE, answer |-> "none", label |-> NoRoot]

\* The epochs with an open DB, as changeEpoch of the storer leaves them.
Active == Max({0, epoch - NumActive + 1}) .. epoch

Init ==
    /\ trie = [root |-> EmptyRoot, storage |-> BaseStorage]
    /\ latest = NoRoot
    /\ epoch = FirstEpoch
    /\ mutex = Unlocked
    /\ proc = [p \in Procs |-> Idle]

\* addBlockCoordinatesToAccountQueryOptions: a query by block hash or nonce gets
\* the block's epoch as hint, a query by root hash gets none.
Hints(r) == HeaderEpochs[r] \cup (IF r \in Hintless THEN {NoHint} ELSE {})

GetWithBlockInfo(p, op, r, hint) ==
    /\ proc[p].pc = "idle"
    /\ proc' = [proc EXCEPT ![p] = [Idle EXCEPT !.pc = "check", !.op = op,
                                                !.root = r, !.hint = hint]]
    /\ mutex' = RLock(mutex, p)
    /\ UNCHANGED <<trie, latest, epoch>>

ShouldRecreateTrie(r) == latest # r

\* Mutant: the read lock is not given up before the write lock is asked for.
FirstCheckKeepsRLock(p) ==
    /\ proc[p].pc = "check"
    /\ HoldsRLock(mutex, p)
    /\ proc' = [proc EXCEPT ![p].pc =
                   IF ShouldRecreateTrie(proc[p].root) THEN "lock" ELSE "get",
                            ![p].reused = ~ ShouldRecreateTrie(proc[p].root)]
    /\ UNCHANGED <<trie, latest, epoch, mutex>>

\* First check, under the read lock: keep it for the get, or drop it.
FirstCheck(p) ==
    /\ proc[p].pc = "check"
    /\ HoldsRLock(mutex, p)
    /\ IF ShouldRecreateTrie(proc[p].root)
       THEN /\ mutex' = RUnlock(mutex, p)
            /\ proc' = [proc EXCEPT ![p].pc = "lock"]
       ELSE /\ proc' = [proc EXCEPT ![p].pc = "get", ![p].reused = TRUE]
            /\ UNCHANGED mutex
    /\ UNCHANGED <<trie, latest, epoch>>

Lock(p) ==
    /\ proc[p].pc = "lock"
    /\ CanAnnounce(mutex)
    /\ mutex' = Announce(mutex, p)
    /\ proc' = [proc EXCEPT ![p].pc = "recheck"]
    /\ UNCHANGED <<trie, latest, epoch>>

Answered(p, answer) ==
    proc' = [proc EXCEPT ![p].pc = "done", ![p].answer = answer,
                         ![p].label = IF answer = "error" THEN NoRoot
                                      ELSE proc[p].root]

\* Mutant: the root hash is remembered although the trie was not recreated.
RecheckRemembersAlways(p) ==
    /\ proc[p].pc = "recheck"
    /\ HoldsLock(mutex, p)
    /\ LET new == Recreate(trie, proc[p].root, proc[p].hint, Active)
       IN  /\ trie' = new.trie
           /\ latest' = proc[p].root
           /\ IF new.err
              THEN Answered(p, "error") /\ mutex' = Unlock(mutex)
              ELSE /\ proc' = [proc EXCEPT ![p].pc = "got"]
                   /\ UNCHANGED mutex
    /\ UNCHANGED epoch

\* Second check, under the write lock; a failed recreation ends the query.
Recheck(p) ==
    /\ proc[p].pc = "recheck"
    /\ HoldsLock(mutex, p)
    /\ IF ShouldRecreateTrie(proc[p].root)
       THEN LET new == Recreate(trie, proc[p].root, proc[p].hint, Active)
            IN  /\ trie' = new.trie
                /\ IF new.err
                   THEN /\ Answered(p, "error")
                        /\ mutex' = Unlock(mutex)
                        /\ UNCHANGED latest
                   ELSE /\ latest' = proc[p].root
                        /\ proc' = [proc EXCEPT ![p].pc = "got"]
                        /\ UNCHANGED mutex
       ELSE /\ proc' = [proc EXCEPT ![p].pc = "got", ![p].reused = TRUE]
            /\ UNCHANGED <<trie, latest, mutex>>
    /\ UNCHANGED epoch

\* doGetAccountWithBlockInfoUnprotected, doGetCodeWithBlockInfoUnprotected and
\* the deferred unlock.
DoGet(p) ==
    /\ proc[p].pc \in {"get", "got"}
    /\ Answered(p, IF proc[p].op = "account" THEN Lookup(trie, Active)
                                             ELSE LookupCode(trie, Active))
    /\ mutex' = IF proc[p].pc = "get" THEN RUnlock(mutex, p) ELSE Unlock(mutex)
    /\ UNCHANGED <<trie, latest, epoch>>

\* The caller takes the answer.
Return(p) ==
    /\ proc[p].pc = "done"
    /\ proc' = [proc EXCEPT ![p] = Idle]
    /\ UNCHANGED <<trie, latest, epoch, mutex>>

\* The storer underneath moves its window.
ChangeEpoch ==
    /\ epoch < LastEpoch
    /\ epoch' = epoch + 1
    /\ UNCHANGED <<trie, latest, mutex, proc>>

Step(p) == FirstCheck(p) \/ Recheck(p) \/ DoGet(p) \/ Return(p)

Request(p) ==
    \E op \in {"account", "code"}, r \in Roots :
       \E hint \in Hints(r) : GetWithBlockInfo(p, op, r, hint)

Next ==
    \/ \E p \in Procs : Request(p) \/ Lock(p) \/ Step(p)
    \/ ChangeEpoch

Spec == Init /\ [][Next]_vars

\* A goroutine that can run does run; sync.Mutex, which queues the writers, hands
\* itself over to one that has waited a millisecond.
Fairness == \A p \in Procs : WF_vars(Step(p)) /\ SF_vars(Lock(p))

FairSpec == Spec /\ Fairness

----------------------------------------------------------------------------
(* Properties *)

Queries ==
    [pc : {"idle", "check", "lock", "recheck", "get", "got", "done"},
     op : {"none", "account", "code"}, root : Roots \cup {NoRoot},
     hint : Nat \cup {NoHint}, reused : BOOLEAN,
     answer : {"none", "found", "absent", "empty", "error"},
     label : Roots \cup {NoRoot}]

\* The type of the state.
TypeOK ==
    /\ trie \in [root : Roots, storage : Nat \cup {BaseStorage}]
    /\ latest \in Roots \cup {NoRoot}
    /\ epoch \in Nat
    /\ mutex \in Mutexes
    /\ proc \in [Procs -> Queries]

\* What the lock says about the queries: readers and writer are where the code
\* puts them, and the one that read or wrote the trie has it for itself.
LockDiscipline ==
    \A p \in Procs :
       /\ p \in mutex.readers => /\ proc[p].pc \in {"check", "get"}
                               /\ p \notin mutex.parked
       /\ p \in mutex.parked => proc[p].pc = "check"
       /\ mutex.writer = p => proc[p].pc \in {"recheck", "got"}
       /\ proc[p].pc = "get" => p \in mutex.readers
       /\ proc[p].pc \in {"recheck", "got"} => mutex.writer = p
       /\ proc[p].pc = "got" => mutex.readers = {}

\* A query in flight has a root hash and an operation, and an answer only when it
\* is done.
InFlight ==
    \A p \in Procs :
       /\ proc[p].pc = "idle" => proc[p] = Idle
       /\ proc[p].pc # "idle" => /\ proc[p].root \in Roots
                                /\ proc[p].op \in {"account", "code"}
       /\ proc[p].pc \notin {"idle", "done"} => /\ proc[p].answer = "none"
                                              /\ proc[p].label = NoRoot

\* The query that is about to read finds the trie of its own root hash loaded, and
\* keeps it until it has read (mutRecreateAndGet held from the check on); the
\* recorded root hash is the one of the loaded trie (recreateTrieUnprotected).
SharedTrie ==
    /\ LockDiscipline
    /\ InFlight
    /\ latest # NoRoot => trie.root = latest
    /\ \A p \in Procs : proc[p].pc \in {"get", "got"} => latest = proc[p].root

\* The queries as their callers see them.
Seen ==
    [p \in Procs |-> [st |-> CASE proc[p].pc = "idle" -> "idle"
                               [] proc[p].pc = "done" -> "answered"
                               [] OTHER -> "asked",
                      op |-> proc[p].op, root |-> proc[p].root,
                      answer |-> proc[p].answer, label |-> proc[p].label]]

State == INSTANCE HistoricalState WITH calls <- Seen

\* Every answer is about the root hash that was asked for, however the queries
\* share the one trie and its lock (GetAccountWithBlockInfo,
\* GetCodeWithBlockInfo).
AnswersAreTruthful == State!Spec

\* Every query returns: giving up the read lock before asking for the write lock
\* leaves no two queries waiting for each other.
EveryQueryReturns == \A p \in Procs : proc[p].pc # "idle" ~> proc[p].pc = "idle"

\* A query by block that recreates the trie itself finds the account's path in
\* the epoch of the block or the one before (trieStorageManagerInEpoch.Get).
RecreatedIsReadable ==
    \A p \in Procs :
       /\ proc[p].pc = "done"
       /\ proc[p].op = "account"
       /\ proc[p].hint # NoHint
       /\ ~ proc[p].reused
       => proc[p].answer # "error"

\* Every query by block finds the account's path, whatever was asked before.
BlockIsReadable ==
    \A p \in Procs :
       /\ proc[p].pc = "done"
       /\ proc[p].op = "account"
       /\ proc[p].hint # NoHint
       => proc[p].answer # "error"
============================================================================
