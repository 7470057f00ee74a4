------------------------- MODULE FullHistoryStorer -------------------------
(***************************************************************************)
(* FullHistoryPruningStorer and fullHistoryTriePruningStorer               *)
(* (storage/pruning): one DB per epoch, the newest ones always open, older *)
(* ones opened on demand and kept in an LRU cache of                       *)
(* NumOfOldActivePersisters entries.  This is the storer a node in         *)
(* historical balances mode uses for blocks, transactions and tries.       *)
(*                                                                         *)
(* A process is one call in flight.  Its steps are the critical sections   *)
(* of the code: what ps.lock, or one call of a thread-safe cache or DB,    *)
(* makes atomic.  Between two steps anything else may run.                 *)
(***************************************************************************)
EXTENDS EpochWindow

CONSTANTS
    Procs,                    \* concurrent calls
    Keys,                     \* keys; a value is determined by its key
    NumOfOldActivePersisters, \* capacity of oldEpochsActivePersistersCache
    StartingEpoch,            \* epoch the node starts in
    MaxEpoch,                 \* bound: last epoch the chain reaches
    MinKeep,                  \* bound: oldest epoch a prepare header may name
    Ops,                      \* operations the callers use
    Stored,                   \* epochs whose DB holds every key at the start
    Synced                    \* epochs whose DB holds the TrieSyncedKey marker

AllOps == {"GetFromEpoch", "GetBulkFromEpoch", "PutInEpoch",
           "Put", "Get", "Remove", "Close", "PutInEpochWithoutCache"}

ASSUME StorerAssumption ==
    /\ NumOfOldActivePersisters \in Nat \ {0}
    /\ StartingEpoch \in Nat
    /\ MaxEpoch \in Nat
    /\ StartingEpoch <= MaxEpoch
    /\ MaxEpoch + 2 < Word
    /\ MinKeep \in 0 .. MaxEpoch
    /\ Ops \subseteq AllOps
    /\ Stored \subseteq 0 .. StartingEpoch
    /\ Synced \subseteq 0 .. MaxEpoch
    /\ IsFiniteSet(Procs)

\* GetFromEpoch also searches the epoch after the one it was asked for.
Epochs == 0 .. MaxEpoch + 1

VARIABLES
    active,   \* epochs of activePersisters
    known,    \* keys of persistersMapByEpoch
    open,     \* epochs whose DB handle is open
    lru,      \* keys of oldEpochsActivePersistersCache
    disk,     \* disk[e]: the keys on disk in the DB of epoch e
    cache,    \* keys held by ps.cacher
    marked,   \* epochs whose DB holds the ActiveDBKey marker
    prepare,  \* oldest epoch the last epoch-start prepare header needs
    putEpoch, \* epochForPutOperation
    cur,      \* epoch of the last epoch-start notification
    phase,    \* "up", "closing" once the LRU cache was cleared, "closed"
    proc      \* the calls in flight

window  == <<active, known, open>>
control == <<marked, prepare, putEpoch, cur, phase>>
vars == <<active, known, open, lru, disk, cache, marked, prepare, putEpoch,
          cur, phase, proc>>

\* pc is the next step; at is the epoch being searched; live says the handle the
\* call obtained was not closed since; own says the call opened that handle and
\* will close it; stored says the key was in the DB of the requested epoch when
\* the call began.
Idle == [pc |-> "idle", op |-> "none", key |-> "none", epoch |-> 0, at |-> 0,
         live |-> FALSE, own |-> FALSE, stored |-> FALSE]

Call(op, k, e) ==
    [Idle EXCEPT !.op = op, !.key = k, !.epoch = e, !.at = e]

\* Whoever holds a handle of a closed DB gets ErrDBIsClosed from it.
Killed(es) ==
    [p \in Procs |-> IF proc[p].pc = "io" /\ proc[p].at \in es
                     THEN [proc[p] EXCEPT !.live = FALSE] ELSE proc[p]]

Window == [active |-> active, known |-> known, open |-> open]

Running == phase # "closed"

\* ps.lock.Lock waits for Get, which fills the cache before it drops its RLock.
CanLock == \A p \in Procs : proc[p].pc # "fill"

Init ==
    /\ marked \in SUBSET (IF IsTrie THEN 0 .. StartingEpoch ELSE {})
    /\ LET w == InitPersistersInEpoch(StartingEpoch, marked, Synced)
       IN  /\ active = w.active
           /\ known = w.known
           /\ open = w.open
    /\ lru = {}
    /\ disk = [e \in Epochs |-> IF e \in Stored THEN Keys ELSE {}]
    /\ cache = {}
    /\ prepare = NoPrepareHdr
    /\ putEpoch = StartingEpoch
    /\ cur = StartingEpoch
    /\ phase = "up"
    /\ proc = [p \in Procs |-> Idle]

----------------------------------------------------------------------------
(* Epoch notifications *)

\* EpochStartPrepare: the MetaBlock names the oldest epoch some shard needs.
SaveHeaderForEpochStartPrepare(keep) ==
    /\ Running
    /\ prepare' = keep
    /\ UNCHANGED <<window, lru, disk, cache, marked, putEpoch, cur, phase, proc>>

\* EpochStartAction.  The same epoch is notified again when its start block is
\* reverted and committed anew, and always for the trie storer, which registers
\* the handler twice.
ChangeEpoch(e) ==
    /\ Running /\ CanLock
    /\ \E o \in ChangeEpochOutcomes(Window, e, prepare, marked) :
          /\ active' = o.w.active
          /\ known' = o.w.known
          /\ open' = o.w.open
          /\ disk' = [f \in Epochs |-> IF f \in o.destroyed THEN {} ELSE disk[f]]
          /\ proc' = Killed(o.closed)
    /\ cur' = e
    /\ UNCHANGED <<lru, cache, marked, prepare, putEpoch, phase>>

SetEpochForPutOperation(e) ==
    /\ Running /\ "Put" \in Ops
    /\ CanLock
    /\ putEpoch' = e
    /\ UNCHANGED <<window, lru, disk, cache, marked, prepare, cur, phase, proc>>

----------------------------------------------------------------------------
(* The LRU cache of old epochs, external; onEvicted runs inside Put *)

\* What Put may evict: nothing while there is room or the key is there.
Victims(e) == IF e \in lru \/ Cardinality(lru) < NumOfOldActivePersisters
              THEN {{}} ELSE {{v} : v \in lru}

\* Mutant: the check against activePersisters is missing.
OnEvictedAlways(evicted) == evicted \cap open

\* onEvicted closes an evicted persister unless it is active or already closed.
OnEvicted(evicted) == (evicted \ active) \cap open

\* Mutant: the reopened persister is not put in the cache.
PutInLRUForgotten(p, e, evicted) ==
    /\ UNCHANGED lru
    /\ open' = open \cup {e}
    /\ proc' = [proc EXCEPT ![p].pc = "io", ![p].live = TRUE]

\* oldEpochsActivePersistersCache.Put(e), with ps.lock held.
PutInLRU(p, e, evicted) ==
    /\ lru' = (lru \ evicted) \cup {e}
    /\ open' = (open \ OnEvicted(evicted)) \cup {e}
    /\ proc' = [Killed(OnEvicted(evicted)) EXCEPT
                   ![p] = [proc[p] EXCEPT !.pc = "io", !.live = TRUE]]

----------------------------------------------------------------------------
(* Calls *)

Start(p, op, k, e, pc) ==
    /\ Running /\ op \in Ops
    /\ proc[p].pc = "idle"
    /\ proc' = [proc EXCEPT ![p] =
                   [Call(op, k, e) EXCEPT
                       !.pc = pc,
                       !.stored = op = "GetFromEpoch" /\ k \in disk[e]]]

Finish(p) == proc' = [proc EXCEPT ![p] = Idle]

\* Mutant: the search of the next epoch has no end.
NotFoundForever(p) ==
    proc' = [proc EXCEPT ![p] =
        [proc[p] EXCEPT !.pc = "check", !.at = @ + 1, !.live = FALSE]]

\* A search that found nothing goes on in the next epoch, once.
NotFound(p) ==
    proc' = [proc EXCEPT ![p] =
        IF proc[p].op = "GetFromEpoch" /\ proc[p].at = proc[p].epoch
        THEN [proc[p] EXCEPT !.pc = "check", !.at = @ + 1, !.live = FALSE]
        ELSE [proc[p] EXCEPT !.pc = "missed", !.live = FALSE]]

GetFromEpoch(p, k, e) ==
    /\ Start(p, "GetFromEpoch", k, e, "check")
    /\ UNCHANGED <<window, lru, disk, cache, control>>

GetBulkFromEpoch(p, k, e) ==
    /\ Start(p, "GetBulkFromEpoch", k, e, "fast")
    /\ UNCHANGED <<window, lru, disk, cache, control>>

PutInEpoch(p, k, e) ==
    /\ Start(p, "PutInEpoch", k, e, "fast")
    /\ cache' = cache \cup {k}
    /\ UNCHANGED <<window, lru, disk, control>>

Put(p, k) ==
    /\ Start(p, "Put", k, 0, "choose")
    /\ cache' = cache \cup {k}
    /\ UNCHANGED <<window, lru, disk, control>>

\* getPersisterToUse: the set epoch's DB if it is open, else the newest one.
PersisterToUse ==
    IF putEpoch \in known \cap open THEN putEpoch ELSE Max(active)

GetPersisterToUse(p) ==
    /\ proc[p].pc = "choose"
    /\ proc' = [proc EXCEPT ![p].pc = "io", ![p].at = PersisterToUse,
                            ![p].live = PersisterToUse \in open]
    /\ UNCHANGED <<window, lru, disk, cache, control>>

\* searchInEpoch: which way to search, decided under RLock.
IsEpochActive(e) == Min(active) <= e /\ e <= Max(active)

SearchInEpoch(p) ==
    /\ proc[p].pc = "check"
    /\ proc' = [proc EXCEPT ![p].pc =
                   IF IsEpochActive(proc[p].at) THEN "search" ELSE "fast"]
    /\ UNCHANGED <<window, lru, disk, cache, control>>

\* Is the key in the cache or in an active DB?
InActivePersisters(k) == \E e \in active \cap open : k \in disk[e]

SearchFirst(p) ==
    /\ proc[p].pc = "search"
    /\ IF proc[p].key \in cache \/ InActivePersisters(proc[p].key)
       THEN Finish(p) ELSE NotFound(p)
    /\ UNCHANGED <<window, lru, disk, cache, control>>

\* getOrOpenPersister: first under RLock ...
GetPersisterData(p) ==
    /\ proc[p].pc = "fast"
    /\ proc' = [proc EXCEPT ![p] =
                   IF proc[p].at \in (lru \cup known) \cap open
                   THEN [@ EXCEPT !.pc = "io", !.live = TRUE]
                   ELSE [@ EXCEPT !.pc = "slow"]]
    /\ UNCHANGED <<window, lru, disk, cache, control>>

\* ... then under Lock.  An unknown epoch gets a new DB and enters the map.
GetOrOpenPersister(p) ==
    LET e == proc[p].at
    IN  /\ proc[p].pc = "slow" /\ CanLock
        /\ e \in lru \cup known \/ e \notin open
        /\ IF e \in lru /\ e \in open
           THEN /\ proc' = [proc EXCEPT ![p].pc = "io", ![p].live = TRUE]
                /\ UNCHANGED <<lru, open>>
           ELSE \E evicted \in Victims(e) : PutInLRU(p, e, evicted)
        /\ known' = IF e \in lru THEN known ELSE known \cup {e}
        /\ UNCHANGED <<active, disk, cache, control>>

\* Create fails: on a disk error, or because the path is locked by a handle
\* nobody can find any more.  The error ends the call, or this search of it.
OpenFails(p) ==
    /\ proc[p].pc = "slow" /\ CanLock
    /\ \/ DiskMayFail /\ proc[p].at \notin open
       \/ proc[p].at \in open \ (lru \cup known)
    /\ IF proc[p].op = "GetFromEpoch" THEN NotFound(p) ELSE Finish(p)
    /\ UNCHANGED <<window, lru, disk, cache, control>>

\* Get on the handle obtained before; GetBulkFromEpoch asks the cache first.
Read(p) ==
    /\ proc[p].pc = "io"
    /\ proc[p].op \in {"GetFromEpoch", "GetBulkFromEpoch"}
    /\ IF \/ proc[p].op = "GetBulkFromEpoch" /\ proc[p].key \in cache
          \/ proc[p].live /\ proc[p].key \in disk[proc[p].at]
       THEN Finish(p) ELSE NotFound(p)
    /\ UNCHANGED <<window, lru, disk, cache, control>>

\* Mutant: a failed write leaves the key in the cache.
DoPutKeepsCache(p) ==
    /\ proc[p].pc = "io"
    /\ proc[p].op \in {"Put", "PutInEpoch"}
    /\ disk' = IF proc[p].live
               THEN [disk EXCEPT ![proc[p].at] = @ \cup {proc[p].key}] ELSE disk
    /\ Finish(p)
    /\ UNCHANGED <<window, lru, cache, control>>

\* doPutInPersister: a failed write also takes the key out of the cache.
DoPutInPersister(p) ==
    /\ proc[p].pc = "io"
    /\ proc[p].op \in {"Put", "PutInEpoch"}
    /\ IF proc[p].live
       THEN /\ disk' = [disk EXCEPT ![proc[p].at] = @ \cup {proc[p].key}]
            /\ UNCHANGED cache
       ELSE /\ cache' = cache \ {proc[p].key}
            /\ UNCHANGED disk
    /\ Finish(p)
    /\ UNCHANGED <<window, lru, control>>

\* Get found the key in an active DB; it enters the cache in a later step.
Get(p, k) ==
    /\ k \notin cache /\ InActivePersisters(k)
    /\ Start(p, "Get", k, 0, "fill")
    /\ UNCHANGED <<window, lru, disk, cache, control>>

FillCache(p) ==
    /\ proc[p].pc = "fill"
    /\ cache' = cache \cup {proc[p].key}
    /\ Finish(p)
    /\ UNCHANGED <<window, lru, disk, control>>

\* Remove: the cache first; then the DBs, newest first, up to the first that
\* accepts the deletion (a DB accepts the deletion of a key it does not hold).
Remove(p, k) ==
    /\ Start(p, "Remove", k, 0, "erase")
    /\ cache' = cache \ {k}
    /\ UNCHANGED <<window, lru, disk, control>>

RemoveFromPersister(p) ==
    /\ proc[p].pc = "erase"
    /\ disk' = IF active \cap open = {} THEN disk
               ELSE [disk EXCEPT ![Max(active \cap open)] = @ \ {proc[p].key}]
    /\ Finish(p)
    /\ UNCHANGED <<window, lru, cache, control>>

\* PutInEpochWithoutCache of triePruningStorer, which the full history storer
\* inherits: a finished snapshot writes ActiveDBKey in the epoch it began in.  A
\* closed DB is opened for the write and closed after it, past the LRU cache.
PutInEpochWithoutCache(p, e) ==
    /\ IsTrie /\ e \in known
    /\ Start(p, "PutInEpochWithoutCache", "none", e, "borrow")
    /\ UNCHANGED <<window, lru, disk, cache, control>>

CreateAndInitPersisterIfClosed(p) ==
    LET e == proc[p].at
    IN  /\ proc[p].pc = "borrow" /\ CanLock
        /\ \/ /\ open' = open \cup {e}
              /\ proc' = [proc EXCEPT ![p].pc = "io", ![p].live = TRUE,
                                      ![p].own = e \notin open]
           \/ /\ DiskMayFail /\ e \notin open
              /\ Finish(p)
              /\ UNCHANGED open
        /\ UNCHANGED <<active, known, lru, disk, cache, control>>

PutMarker(p) ==
    /\ proc[p].pc = "io"
    /\ proc[p].op = "PutInEpochWithoutCache"
    /\ marked' = IF proc[p].live THEN marked \cup {proc[p].at} ELSE marked
    /\ IF proc[p].own THEN proc' = [proc EXCEPT ![p].pc = "release"]
                      ELSE Finish(p)
    /\ UNCHANGED <<window, lru, disk, cache, prepare, putEpoch, cur, phase>>

\* The deferred pd.Close() takes no lock of the storer.
ClosePersister(p) ==
    /\ proc[p].pc = "release"
    /\ open' = open \ {proc[p].at}
    /\ proc' = [Killed({proc[p].at}) EXCEPT ![p] = Idle]
    /\ UNCHANGED <<active, known, lru, disk, cache, control>>

\* The caller receives the not-found answer.
Return(p) ==
    /\ proc[p].pc = "missed"
    /\ Finish(p)
    /\ UNCHANGED <<window, lru, disk, cache, control>>

\* ps.cacher, external, drops an entry for room, or ClearCache is called.
CacheEvicts(k) ==
    /\ k \in cache
    /\ cache' = cache \ {k}
    /\ UNCHANGED <<window, lru, disk, control, proc>>

----------------------------------------------------------------------------
(* Shutdown *)

\* Close clears the LRU cache, which closes the old epochs ...
CloseOldEpochs ==
    /\ phase = "up" /\ "Close" \in Ops
    /\ lru' = {}
    /\ open' = open \ OnEvicted(lru)
    /\ proc' = Killed(OnEvicted(lru))
    /\ phase' = "closing"
    /\ UNCHANGED <<active, known, disk, cache, marked, prepare, putEpoch, cur>>

\* ... then the active ones, under RLock, and clears the cache.
Close ==
    /\ phase = "closing"
    /\ open' = open \ active
    /\ proc' = Killed(active)
    /\ cache' = {}
    /\ phase' = "closed"
    /\ UNCHANGED <<active, known, lru, disk, marked, prepare, putEpoch, cur>>

Step(p) ==
    \/ SearchInEpoch(p) \/ SearchFirst(p)
    \/ GetPersisterData(p) \/ GetOrOpenPersister(p) \/ OpenFails(p)
    \/ Read(p) \/ GetPersisterToUse(p) \/ DoPutInPersister(p)
    \/ CreateAndInitPersisterIfClosed(p) \/ PutMarker(p) \/ ClosePersister(p)
    \/ FillCache(p) \/ RemoveFromPersister(p) \/ Return(p)

\* Callers name epochs of blocks they know: the chain may be in an epoch whose
\* notification the storer has yet to get.
Request(p) ==
    \/ \E e \in StartingEpoch .. cur : PutInEpochWithoutCache(p, e)
    \/ \E k \in Keys :
          \/ Put(p, k) \/ Get(p, k) \/ Remove(p, k)
          \/ \E e \in 0 .. MaxEpoch :
                /\ e <= cur + 1
                /\ GetFromEpoch(p, k, e) \/ GetBulkFromEpoch(p, k, e)
                      \/ PutInEpoch(p, k, e)

Notification ==
    \/ \E keep \in MinKeep .. cur + 1 :
          keep <= MaxEpoch /\ SaveHeaderForEpochStartPrepare(keep)
    \/ \E e \in {cur, cur + 1} : e <= MaxEpoch /\ ChangeEpoch(e)
    \/ \E e \in {cur, cur + 1} : e <= MaxEpoch /\ SetEpochForPutOperation(e)

Next ==
    \/ Notification
    \/ \E p \in Procs : Request(p) \/ Step(p)
    \/ \E k \in Keys : CacheEvicts(k)
    \/ CloseOldEpochs \/ Close

Spec == Init /\ [][Next]_vars

----------------------------------------------------------------------------
(* Properties *)

\* The calls in flight: one that writes or fills the cache has a key, and only
\* PutInEpochWithoutCache borrows a handle.
Calls ==
    {c \in [pc : {"idle", "check", "search", "fast", "slow", "choose", "io",
                  "borrow", "release", "fill", "erase", "missed"},
            op : Ops \cup {"none"}, key : Keys \cup {"none"},
            epoch : 0 .. MaxEpoch, at : Epochs, live : BOOLEAN, own : BOOLEAN,
            stored : BOOLEAN] :
        /\ c.pc = "fill" \/ c.op \in {"Put", "PutInEpoch"} => c.key \in Keys
        /\ c.pc \in {"borrow", "release"} => c.op = "PutInEpochWithoutCache"
        /\ c.op = "PutInEpochWithoutCache" => IsTrie}

\* The type of the state; no step leaves activePersisters empty, whose first and
\* last elements the code indexes without a check (isEpochActive, Put).
TypeOK ==
    /\ active \subseteq Epochs /\ known \subseteq Epochs /\ open \subseteq Epochs
    /\ active # {}
    /\ lru \subseteq Epochs
    /\ disk \in [Epochs -> SUBSET Keys]
    /\ cache \subseteq Keys
    /\ marked \subseteq Epochs
    /\ prepare \in Epochs \cup {NoPrepareHdr}
    /\ putEpoch \in Epochs /\ cur \in 0 .. MaxEpoch
    /\ phase \in {"up", "closing", "closed"}
    /\ proc \in [Procs -> Calls]

\* No eviction, epoch change or reopening ever leaves an active epoch with a
\* closed DB while the storer runs (onEvicted, changeEpochWithExisting,
\* closeAndDestroyPersisters): Put, Get and SearchFirst rely on it.
ActiveIsOpen == Running => active \subseteq open

\* Every open DB is active or in the LRU cache, whatever calls and epoch changes
\* interleave: with the LRU cache's own bound, at most Len(activePersisters) +
\* NumOfOldActivePersisters file handles are held (getOrOpenPersister, onEvicted,
\* changeEpoch).
OpenIsAccounted == Running => open \subseteq active \cup lru

\* After changeEpoch the newest active DB is the one of the notified epoch, also
\* when a reader had created that epoch's DB before it began
\* (changeEpochWithExisting).
NewestIsCurrent == Max(active) = cur

\* A key in the cache is on disk, or a Put of it is in flight: a write that fails
\* because its DB was closed under it takes the key out again (doPutInPersister).
CacheIsBacked ==
    \A k \in cache :
       \/ \E e \in Epochs : k \in disk[e]
       \/ \E p \in Procs : /\ proc[p].pc # "idle"
                           /\ proc[p].op \in {"Put", "PutInEpoch"}
                           /\ proc[p].key = k

\* GetFromEpoch never answers "not found" for a key that was in that epoch's DB
\* when it was called.
FoundIfStored ==
    \A p \in Procs :
       proc[p].pc = "missed" /\ proc[p].op = "GetFromEpoch" => ~ proc[p].stored

\* A DB marked as active leaves the window of a trie storer only when two newer
\* marked ones stay in it: those two hold one complete state, and the trie of the
\* current block must stay readable (lastEpochNeeded, processPersistersToClose).
KeepsTrieStateOpen ==
    [][\A e \in (active \cap marked) \ active' :
          Cardinality({f \in active' \cap marked' : f > e})
              >= minNumOfActiveDBsNecessary]_vars

\* But for the key a Remove is called with, only epochs older than
\* NumOfEpochsToKeep lose data (DestroyClosed).  This is so once the chain is that
\* long: before, epoch - numOfEpochsToKeep is a wrapped uint32, and DBs that
\* readers create ahead of time may make the map larger than NumOfEpochsToKeep.
DestroysOnlyOldEpochs ==
    [][\A e \in Epochs : ~ (disk[e] \subseteq disk'[e])
                            => \/ e + NumOfEpochsToKeep <= cur'
                               \/ \E p \in Procs : RemoveFromPersister(p)]_vars
============================================================================
