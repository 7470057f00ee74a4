---------------------------- MODULE StateStorage ----------------------------
(***************************************************************************)
(* The state a shard node keeps on disk: what the block processor commits, *)
(* what the storage pruning manager removes, and what the snapshots        *)
(* manager carries over to the DB of a new epoch.                          *)
(*                                                                         *)
(* One goroutine commits and rolls back blocks.  A commit writes the nodes *)
(* of the new state, lists in the eviction waiting list what it added and  *)
(* what it made obsolete, may start a snapshot (the block brought the      *)
(* epoch start metablock), and finalises older blocks.  Each block it      *)
(* finalises or rolls back makes two calls to the pruning manager, which   *)
(* wait in todo: they are separate steps because the snapshot workers and  *)
(* the iterators of the API enter and leave the pruning buffering mode     *)
(* between them.  No block is committed before they are done.              *)
(*                                                                         *)
(* A state is a root hash and the set NodesOf[r] of its trie nodes.  A     *)
(* node is on disk in the DBs of one or more epochs.                       *)
(***************************************************************************)
EXTENDS EvictionWaitingList

CONSTANTS
  NodesOf,        \* [Roots -> SUBSET Nodes]
  Genesis,        \* root of the state the node starts from
  OldNodes,       \* its nodes that are in the DB of epoch 0
  Children,       \* pairs <<r, s>>: executing a block on state r may give s
  NoRoot,         \* not a root hash
  StartNonce,     \* nonce of the block the node is at, long final
  UpSince,        \* nonce of the first block it committed
  MaxEpoch,       \* last epoch; the first current one is 1
  PruningDelay,   \* pruningDelay of the block processor
  Word,           \* modulus of the uint64 nonces
  MaxCommits,     \* bound on the number of blocks committed, rolled back ones included
  MaxUnfinal,     \* bound on the blocks above the final one
  MaxRestarts,    \* bound on the number of restarts
  MaxIterators,   \* bound on the number of iterators opened
  MaxPartial,     \* bound on the nodes a failing snapshot has copied
  Scheduled,      \* headers carry the root hash their block starts from
  PutsMayDiffer,  \* a commit may list other hashes at a key that is still listed
  BelowRestart    \* a rollback may pass the first block committed since the start

ASSUME StateAssumption ==
  /\ NodesOf \in [Roots -> SUBSET Nodes]
  /\ Genesis \in Roots /\ OldNodes \subseteq NodesOf[Genesis]
  /\ Children \subseteq Roots \X Roots
  /\ NoRoot \notin Roots
  /\ MaxEpoch \in Nat \ {0}
  /\ UpSince \in Nat \ {0} /\ StartNonce \in Nat /\ UpSince <= StartNonce
  /\ PruningDelay \in Nat
  /\ Word \in Nat /\ Word > StartNonce + MaxCommits + PruningDelay
  /\ {MaxCommits, MaxUnfinal, MaxRestarts, MaxIterators, MaxPartial}
       \subseteq Nat
  /\ {Scheduled, PutsMayDiffer, BelowRestart} \subseteq BOOLEAN

Epochs == 0 .. MaxEpoch

VARIABLES
  chain,             \* [root, epoch, meta] of the blocks from StartNonce on
  final,             \* highest final nonce
  lastRestartNonce,  \* nonce of the first block committed since the start, or 0
  todo,              \* calls to the pruning manager still to be made
  list,              \* dbEvictionWaitingList
  buffer,            \* pruningBuffer
  blockingOps,       \* pruningBlockingOps of the trie storage manager
  db,                \* [Epochs -> SUBSET Nodes], the DB of every epoch
  active,            \* epochs whose DB holds ActiveDBKey
  epoch,             \* latest storage epoch
  metaRoot,          \* [Epochs -> root to snapshot when the epoch begins]
  snap,              \* the snapshot in progress: st, root, epoch, err
  lastSnapshot,      \* lastSnapshot of the snapshots manager: root, epoch
  adding,            \* AddMarker goroutines: root, epoch
  marker,            \* [Epochs -> LastSnapshot value in the epoch's DB]
  latestFinished,    \* latestFinishedSnapshotEpoch
  iterators,         \* iterators open, and opened so far
  emptied,           \* history: the waiting list was emptied because it was full
  commits, restarts  \* counted for the bounds

chainVars == <<chain, final, lastRestartNonce, commits, restarts>>
pruningVars == <<todo, list, buffer, emptied>>
diskVars == <<db, active, epoch>>
snapVars == <<snap, lastSnapshot, adding>>
markerVars == <<marker, latestFinished>>
vars == <<chainVars, pruningVars, diskVars, snapVars, markerVars,
          blockingOps, metaRoot, iterators>>

Blocks == [root : Roots, epoch : Epochs, meta : Epochs]
Buffered == [call : {"prune", "cancelPrune"}, key : Keys]
Calls == [call : {"prune", "cancelPrune", "PruneTrie", "CancelPrune"},
          key : Keys, on : BOOLEAN]
Snapshots == [st : {"idle", "waiting", "copying", "copied", "finished", "unmarked"},
              root : Roots \cup {NoRoot}, epoch : Epochs, err : BOOLEAN]
Marks == [root : Roots \cup {NoRoot}, epoch : Epochs]

NoSnapshot == [st |-> "idle", root |-> NoRoot, epoch |-> 0, err |-> FALSE]
NoMark == [root |-> NoRoot, epoch |-> 0]

TypeOK ==
  /\ chain \in Seq(Blocks) /\ Len(chain) \in 1 .. MaxCommits + 1
  /\ final \in StartNonce .. StartNonce + Len(chain) - 1
  /\ lastRestartNonce \in 0 .. StartNonce + MaxCommits
  /\ todo \in Seq(Calls)
  /\ list \in Lists
  /\ buffer \in Seq(Buffered) /\ Len(buffer) <= PruningBufferLen
  /\ blockingOps \in Nat
  /\ db \in [Epochs -> SUBSET Nodes]
  /\ active \subseteq Epochs
  /\ epoch \in Epochs
  /\ metaRoot \in [Epochs -> Roots \cup {NoRoot}]
  /\ snap \in Snapshots
  /\ lastSnapshot \in Marks
  /\ adding \subseteq Marks
  /\ marker \in [Epochs -> Roots \cup {NoRoot}]
  /\ latestFinished \in Epochs
  /\ iterators \in [open : Nat, opened : 0 .. MaxIterators]
  /\ emptied \in BOOLEAN
  /\ commits \in 0 .. MaxCommits
  /\ restarts \in 0 .. MaxRestarts

(* A node that has been up for a while, in epoch 1, with one final state   *)
(* that was written in epochs 0 and 1.                                     *)
Init ==
  /\ chain = <<[root |-> Genesis, epoch |-> 1, meta |-> 1]>>
  /\ final = StartNonce /\ lastRestartNonce = UpSince /\ commits = 0 /\ restarts = 0
  /\ todo = <<>> /\ list = EmptyList /\ buffer = <<>> /\ emptied = FALSE
  /\ blockingOps = 0
  /\ db = [e \in Epochs |-> CASE e = 0 -> OldNodes
                              [] e = 1 -> NodesOf[Genesis] \ OldNodes
                              [] OTHER -> {}]
  /\ active = {0} /\ epoch = 1
  /\ metaRoot = [e \in Epochs |-> NoRoot]
  /\ snap = NoSnapshot /\ lastSnapshot = NoMark /\ adding = {}
  /\ marker = [e \in Epochs |-> NoRoot] /\ latestFinished = 0
  /\ iterators = [open |-> 0, opened |-> 0]

-----------------------------------------------------------------------------
Height == StartNonce + Len(chain) - 1
RootAt(nonce) == chain[nonce - StartNonce + 1].root

\* The nodes found by a reader of the epochs from e on.
StoredSince(e) == UNION {db[x] : x \in {y \in Epochs : y >= e}}
IsStored(root) == NodesOf[root] \subseteq StoredSince(0)

\* Mutant: the delay after a restart is dropped.
AlwaysEnabled(nonce, restartNonce) == TRUE

\* getPruningHandler: data is removed only PruningDelay blocks after a restart.
IsPruningEnabled(nonce, restartNonce) ==
  (nonce - restartNonce) % Word > PruningDelay

EnterPruningBufferingMode(n) == n + 1
ExitPruningBufferingMode(n) == IF n < 1 THEN n ELSE n - 1

(* SnapshotState: a snapshot of the same root and epoch is not repeated,   *)
(* and one asked for while another is in progress is skipped, but its      *)
(* marker goroutine is started all the same.  The last four parameters are *)
(* the manager's state at the call.                                        *)
SnapshotState(root, e, last, inProgress, pending, ops) ==
  LET asked == [root |-> root, epoch |-> e]
      skip == last = asked \/ inProgress # NoSnapshot
  IN
  /\ adding' = IF last = asked THEN pending ELSE pending \cup {asked}
  /\ snap' = IF skip THEN inProgress
             ELSE [st |-> "waiting", root |-> root, epoch |-> e, err |-> FALSE]
  /\ lastSnapshot' = IF skip THEN last ELSE asked
  /\ blockingOps' = IF skip THEN ops ELSE EnterPruningBufferingMode(ops)

-----------------------------------------------------------------------------
(* Committing, finalising and rolling back blocks.                         *)

Added(old, new) == NodesOf[new] \ NodesOf[old]

\* The entries a commit lists: what it added, then what it made obsolete.
ListedKeys(old, new) ==
  {k \in {<<new, "New">>} : Added(old, new) # {}} \cup
  {k \in {<<old, "Old">>} : Added(new, old) # {}}

ListedHashes(old, new, key) ==
  IF key = <<new, "New">> THEN Added(old, new) ELSE Added(new, old)

PutIfAny(l, key, hashes) == IF hashes = {} THEN l ELSE Put(l, key, hashes)

MarkForEviction(l, old, new) ==
  IF old = new
  THEN l
  ELSE PutIfAny(PutIfAny(l, <<new, "New">>, Added(old, new)),
                <<old, "Old">>, Added(new, old))

Changes(nonce) == RootAt(nonce) # RootAt(nonce - 1)

(* updateState finalises the step between the root hashes for pruning of   *)
(* two headers.  With scheduled miniblocks a header's is the one in its    *)
(* additional data, the state its block starts from: the pruning is one    *)
(* block late.  What came before StartNonce is settled.                    *)
RootHashForPruning(nonce) ==
  IF Scheduled /\ nonce > StartNonce THEN RootAt(nonce - 1) ELSE RootAt(nonce)

\* The i-th smallest of a set of nonces.
Nth(nonces, i) == CHOOSE n \in nonces : Cardinality({x \in nonces : x < n}) = i - 1

\* updateStateStorage for the final headers from + 1 .. to, in their order.
updateStateStorage(from, to, restartNonce) ==
  LET Prunes(nonce) == RootHashForPruning(nonce) # RootHashForPruning(nonce - 1)
      headers == {nonce \in from + 1 .. to : Prunes(nonce)}
      CallOf(i) ==
        LET nonce == Nth(headers, (i + 1) \div 2)
            prevRoot == RootHashForPruning(nonce - 1)
        IN  IF i % 2 = 1
            THEN [call |-> "CancelPrune", key |-> <<prevRoot, "New">>, on |-> FALSE]
            ELSE [call |-> "PruneTrie", key |-> <<prevRoot, "Old">>,
                  on |-> IsPruningEnabled(nonce, restartNonce)]
  IN  [i \in 1 .. 2 * Cardinality(headers) |-> CallOf(i)]

(* A block with a state that the chain has not had (nonces of accounts     *)
(* only grow), or with that of the block before it.                        *)
MayFollow(root) ==
  /\ <<RootAt(Height), root>> \in Children
  /\ \/ root = RootAt(Height)
     \/ \A i \in 1 .. Len(chain) : chain[i].root # root
  /\ \/ PutsMayDiffer
     \/ root = RootAt(Height)
     \/ \A k \in ListedKeys(RootAt(Height), root) :
          \/ list.cache[k].refs = 0
          \/ list.cache[k].hashes = ListedHashes(RootAt(Height), root, k)

(* CommitBlock.  start: a start of epoch block, which changes the epoch of *)
(* the storers and is itself committed in the last epoch.  withMeta: the   *)
(* block brings the metablock that starts the next epoch, and with it the  *)
(* root g to snapshot, once and for all.  Blocks up to nonce n become      *)
(* final; a header that cannot be loaded ends the loop of updateState at m.*)
CommitBlock(root, start, withMeta, g, n, m) ==
  LET last == chain[Len(chain)]
      blockEpoch == IF start THEN last.epoch + 1 ELSE last.epoch
      putEpoch == IF start THEN last.epoch ELSE blockEpoch
      meta == IF withMeta THEN last.meta + 1 ELSE last.meta
      restartNonce == IF lastRestartNonce = 0 THEN Height + 1 ELSE lastRestartNonce
      toSnapshot == IF metaRoot[meta] = NoRoot THEN RootAt(g) ELSE metaRoot[meta]
  IN
  /\ todo = <<>>
  /\ commits < MaxCommits /\ Height + 1 - n <= MaxUnfinal
  /\ MayFollow(root)
  /\ start => blockEpoch \in Epochs /\ blockEpoch <= meta + 1 /\ blockEpoch >= epoch
  /\ withMeta => meta \in Epochs /\ meta <= blockEpoch + 1
  /\ chain' = Append(chain, [root |-> root, epoch |-> blockEpoch, meta |-> meta])
  /\ epoch' = IF start THEN blockEpoch ELSE epoch
  /\ db' = [db EXCEPT ![putEpoch] = @ \cup Added(last.root, root)]
  /\ list' = MarkForEviction(list, last.root, root)
  /\ emptied' = (emptied \/ (last.root # root
                 /\ \E k \in ListedKeys(last.root, root) : list'.cache[k].refs = 0))
  /\ lastRestartNonce' = restartNonce
  /\ IF withMeta
     THEN /\ metaRoot' = [metaRoot EXCEPT ![meta] = toSnapshot]
          /\ SnapshotState(toSnapshot, meta, lastSnapshot, snap, adding, blockingOps)
     ELSE UNCHANGED <<metaRoot, snapVars, blockingOps>>
  /\ todo' = updateStateStorage(final, m, restartNonce)
  /\ final' = n
  /\ commits' = commits + 1
  /\ UNCHANGED <<buffer, active, markerVars, iterators, restarts>>

(* rollBackOneBlock of a block above the final one: the state before it is *)
(* recreated (when it cannot be, restoreState undoes everything), and      *)
(* PruneStateOnRollback gives up the old nodes' eviction and prunes the    *)
(* new ones.  The eviction is given up a first time when the block before  *)
(* says in its additional data that it did not change the state.           *)
RollBackOneBlock ==
  LET giveUp == [call |-> "CancelPrune", key |-> <<RootAt(Height - 1), "Old">>,
                 on |-> FALSE]
      prevUnchanged == /\ Scheduled /\ Height - 1 > StartNonce
                       /\ ~ Changes(Height - 1)
  IN
  /\ todo = <<>> /\ Height > final
  /\ BelowRestart \/ Height >= lastRestartNonce
  /\ IsStored(RootAt(Height - 1))
  /\ chain' = SubSeq(chain, 1, Len(chain) - 1)
  /\ todo' = (IF prevUnchanged THEN <<giveUp>> ELSE <<>>) \o
             (IF Changes(Height)
              THEN << giveUp,
                      [call |-> "PruneTrie", key |-> <<RootAt(Height), "New">>,
                       on |-> IsPruningEnabled(Height, lastRestartNonce)] >>
              ELSE <<>>)
  /\ UNCHANGED <<final, lastRestartNonce, commits, restarts, list, buffer, emptied, diskVars,
                 snapVars, markerVars, blockingOps, metaRoot, iterators>>

-----------------------------------------------------------------------------
(* The storage pruning manager, called by the goroutine that commits.      *)

\* Mutant: pruning does not wait for snapshots.
NeverBlocked == FALSE

IsPruningBlocked == blockingOps # 0

\* What a call to the pruning manager leaves alone.
unchangedByPruning == <<chainVars, active, epoch, emptied, snapVars, markerVars,
                        blockingOps, metaRoot, iterators>>

NextCall(call) == todo # <<>> /\ Head(todo).call = call

CancelPrune ==
  /\ NextCall("CancelPrune")
  /\ todo' = Tail(todo)
  /\ IF IsPruningBlocked \/ Len(buffer) # 0
     THEN /\ buffer' = AddToBuffer(buffer, [call |-> "cancelPrune", key |-> Head(todo).key])
          /\ list' = list
     ELSE /\ list' = Evict(list, Head(todo).key)
          /\ buffer' = buffer
  /\ UNCHANGED <<unchangedByPruning, db>>

(* PruneTrie.  While pruning is blocked the nodes of a rolled back block   *)
(* are given up and the pruning of old nodes is buffered; otherwise the    *)
(* buffer is emptied and its operations, in their order, come before this  *)
(* one, all of them with the pruning handler of this call.                 *)
PruneTrie ==
  LET c == Head(todo)
      resolved == [i \in 1 .. Len(buffer) |->
                     [call |-> buffer[i].call, key |-> buffer[i].key, on |-> c.on]]
  IN
  /\ NextCall("PruneTrie")
  /\ \/ /\ IsPruningBlocked /\ c.key[2] = "New"
        /\ list' = Evict(list, c.key)
        /\ todo' = Tail(todo) /\ buffer' = buffer
     \/ /\ IsPruningBlocked /\ c.key[2] = "Old"
        /\ buffer' = AddToBuffer(buffer, [call |-> "prune", key |-> c.key])
        /\ todo' = Tail(todo) /\ list' = list
     \/ /\ ~ IsPruningBlocked
        /\ todo' = resolved \o <<[c EXCEPT !.call = "prune"]>> \o Tail(todo)
        /\ buffer' = <<>> /\ list' = list
  /\ UNCHANGED <<unchangedByPruning, db>>

cancelPrune ==
  /\ NextCall("cancelPrune")
  /\ todo' = Tail(todo)
  /\ list' = Evict(list, Head(todo).key)
  /\ UNCHANGED <<unchangedByPruning, db, buffer>>

(* removeFromDb: the entry leaves the list whether or not data is removed, *)
(* and what is removed leaves the DB of the current epoch only.            *)
prune ==
  LET c == Head(todo)
      evicted == Evict(list, c.key)
      removed == {h \in EvictedHashes(list, c.key) : ~ ShouldKeepHash(evicted, h, c.key[2])}
  IN
  /\ NextCall("prune")
  /\ todo' = Tail(todo)
  /\ list' = evicted
  /\ db' = IF c.on THEN [db EXCEPT ![epoch] = @ \ removed] ELSE db
  /\ UNCHANGED <<unchangedByPruning, buffer>>

-----------------------------------------------------------------------------
(* The snapshot worker, the marker goroutines and the API's iterators.     *)

unchangedBySnapshot == <<chainVars, pruningVars, epoch, metaRoot, iterators,
                         lastSnapshot, adding>>

\* WaitForStorageEpochChange succeeds; TakeSnapshot enters the mode once more.
StartCopying ==
  /\ snap.st = "waiting" /\ epoch = snap.epoch
  /\ snap' = [snap EXCEPT !.st = "copying"]
  /\ blockingOps' = EnterPruningBufferingMode(blockingOps)
  /\ UNCHANGED <<unchangedBySnapshot, db, active, markerVars>>

\* Mutant: the early completion does not leave the buffering mode.
TimesOutStillBlocking ==
  /\ snap.st = "waiting" /\ epoch # snap.epoch
  /\ snap' = NoSnapshot
  /\ UNCHANGED <<unchangedBySnapshot, db, active, markerVars, blockingOps>>

\* It times out: earlySnapshotCompletion, and lastSnapshot stays as it is.
WaitTimesOut ==
  /\ snap.st = "waiting" /\ epoch # snap.epoch
  /\ snap' = NoSnapshot
  /\ blockingOps' = ExitPruningBufferingMode(blockingOps)
  /\ UNCHANGED <<unchangedBySnapshot, db, active, markerVars>>

(* takeSnapshot reads each node from the epochs before the snapshot's,     *)
(* newest first, writes it to the snapshot's epoch and, when it came from  *)
(* further back, to the epoch before it.  Nodes that are not found are     *)
(* synced from the network into the current epoch, or fail the snapshot;   *)
(* it also fails when a DB is closing, with any part of the nodes copied.  *)
SourceNodes(e) == UNION {db[x] : x \in {y \in Epochs : y < e}}

Copied(nodes, e) ==
  [db EXCEPT ![e] = @ \cup nodes,
             ![e - 1] = @ \cup nodes]

Copy ==
  LET found == NodesOf[snap.root] \cap SourceNodes(snap.epoch)
      missing == NodesOf[snap.root] \ found
  IN
  /\ snap.st = "copying"
  /\ \/ /\ missing = {} /\ db' = Copied(found, snap.epoch)
        /\ snap' = [snap EXCEPT !.st = "copied"]
     \/ /\ missing # {}
        /\ db' = [Copied(found, snap.epoch) EXCEPT ![epoch] = @ \cup missing]
        /\ snap' = [snap EXCEPT !.st = "copied"]
     \/ \E part \in SUBSET found :
          /\ Cardinality(part) <= MaxPartial
          /\ db' = Copied(part, snap.epoch)
          /\ snap' = [snap EXCEPT !.st = "copied", !.err = TRUE]
  /\ blockingOps' = ExitPruningBufferingMode(blockingOps)
  /\ UNCHANGED <<unchangedBySnapshot, active, markerVars>>

\* finishSnapshotOperation.
Finish ==
  /\ snap.st = "copied"
  /\ snap' = [snap EXCEPT !.st = "finished"]
  /\ blockingOps' = ExitPruningBufferingMode(blockingOps)
  /\ UNCHANGED <<unchangedBySnapshot, db, active, markerVars>>

\* processSnapshotCompletion after an error: nothing is marked.
Incomplete ==
  /\ snap.st = "finished" /\ snap.err
  /\ snap' = NoSnapshot
  /\ UNCHANGED <<unchangedBySnapshot, db, active, markerVars, blockingOps>>

RemoveMarker ==
  /\ snap.st = "finished" /\ ~ snap.err
  /\ marker' = [e \in Epochs |-> NoRoot]
  /\ latestFinished' = snap.epoch
  /\ snap' = [snap EXCEPT !.st = "unmarked"]
  /\ UNCHANGED <<unchangedBySnapshot, db, active, blockingOps>>

MarkActive ==
  /\ snap.st = "unmarked"
  /\ active' = active \cup {snap.epoch}
  /\ snap' = NoSnapshot
  /\ UNCHANGED <<unchangedBySnapshot, db, markerVars, blockingOps>>

\* Mutant: a late marker is put although its snapshot has finished.
AddMarkerAnyway(m) ==
  /\ adding' = adding \ {m}
  /\ epoch = m.epoch
  /\ marker' = [marker EXCEPT ![m.epoch] = m.root]
  /\ UNCHANGED <<chainVars, pruningVars, diskVars, snap, lastSnapshot, latestFinished,
                 blockingOps, metaRoot, iterators>>

\* AddMarker, once the storage is in the epoch of the mark, or never.
AddMarker(m) ==
  /\ adding' = adding \ {m}
  /\ \/ /\ epoch = m.epoch
        /\ marker' = IF m.epoch <= latestFinished
                     THEN marker
                     ELSE [marker EXCEPT ![m.epoch] = m.root]
     \/ /\ epoch # m.epoch
        /\ marker' = marker
  /\ UNCHANGED <<chainVars, pruningVars, diskVars, snap, lastSnapshot, latestFinished,
                 blockingOps, metaRoot, iterators>>

\* GetAllLeavesOnChannel of the API blocks pruning until its last leaf.
OpenIterator ==
  /\ iterators.opened < MaxIterators
  /\ iterators' = [open |-> iterators.open + 1, opened |-> iterators.opened + 1]
  /\ blockingOps' = EnterPruningBufferingMode(blockingOps)
  /\ UNCHANGED <<chainVars, pruningVars, diskVars, snapVars, markerVars, metaRoot>>

CloseIterator ==
  /\ iterators.open > 0
  /\ iterators' = [iterators EXCEPT !.open = @ - 1]
  /\ blockingOps' = ExitPruningBufferingMode(blockingOps)
  /\ UNCHANGED <<chainVars, pruningVars, diskVars, snapVars, markerVars, metaRoot>>

(* The process stops anywhere and starts again: what was in memory is      *)
(* lost.  The storage bootstrap loads the chain up to a block whose state  *)
(* can be recreated (a block in the middle of its commit was not saved),   *)
(* and StartSnapshotAfterRestartIfNeeded takes up the snapshot the marker  *)
(* of the current epoch names.                                             *)
Restart(nonce) ==
  /\ restarts < MaxRestarts
  /\ nonce \in final .. (IF todo = <<>> THEN Height ELSE Height - 1)
  /\ IsStored(RootAt(nonce))
  /\ chain' = SubSeq(chain, 1, nonce - StartNonce + 1)
  /\ lastRestartNonce' = 0
  /\ restarts' = restarts + 1
  /\ todo' = <<>> /\ list' = EmptyList /\ buffer' = <<>>
  /\ latestFinished' = 0
  /\ iterators' = [iterators EXCEPT !.open = 0]
  /\ IF marker[epoch] = NoRoot
     THEN /\ snap' = NoSnapshot /\ lastSnapshot' = NoMark /\ adding' = {}
          /\ blockingOps' = 0
     ELSE SnapshotState(marker[epoch], epoch, NoMark, NoSnapshot, {}, 0)
  /\ UNCHANGED <<final, commits, emptied, diskVars, marker, metaRoot>>

-----------------------------------------------------------------------------
Commit ==
  \E root \in Roots, start, withMeta \in BOOLEAN, n \in final .. Height :
    \E m \in final .. n, g \in final .. n :
      /\ withMeta \/ g = n
      /\ CommitBlock(root, start, withMeta, g, n, m)

Pruning == CancelPrune \/ PruneTrie \/ cancelPrune \/ prune

SnapshotWorker ==
  \/ StartCopying \/ WaitTimesOut \/ Copy \/ Finish
  \/ Incomplete \/ RemoveMarker \/ MarkActive

Next ==
  \/ Commit
  \/ RollBackOneBlock
  \/ Pruning
  \/ SnapshotWorker
  \/ \E m \in adding : AddMarker(m)
  \/ OpenIterator
  \/ CloseIterator
  \/ \E nonce \in StartNonce .. Height : Restart(nonce)

Spec == Init /\ [][Next]_vars

(* The goroutines run: the calls to the pruning manager are made, the      *)
(* snapshot worker goes on, iterators are drained.                         *)
FairSpec ==
  Spec /\ WF_vars(Pruning) /\ WF_vars(SnapshotWorker) /\ WF_vars(CloseIterator)

-----------------------------------------------------------------------------
(* The state of the head can always be read, from the two newest epochs    *)
(* since the last complete snapshot: nothing that pruneTrie removes, on    *)
(* finality or on rollback, at once or from the buffer, before or after a  *)
(* restart, is part of it, and an epoch is marked active only with all     *)
(* that the blocks before it left in older DBs.                            *)
HeadIsReadable ==
  \A e \in active :
    (\A x \in active : x <= e) =>
      NodesOf[RootAt(Height)] \subseteq StoredSince(e - 1)

(* So can every state a rollback may return to, unless the waiting list    *)
(* was emptied because it was full.  A rollback over an empty block gives  *)
(* an eviction up twice; where that call waits in the buffer for a later   *)
(* block to list the key again, it takes the later listing and this fails. *)
RollbackTargetsAreStored ==
  emptied \/ \A nonce \in final .. Height : IsStored(RootAt(nonce))

(* Reverse lookups agree with the cache, or ShouldKeepHash would answer    *)
(* for entries that are gone or miss entries that are there.               *)
ReversedIsInverse == IsInverse(list)

(* While a snapshot waits or copies, no node of its state leaves the disk. *)
SnapshotSourceIsKept ==
  [][snap.st \in {"waiting", "copying"} /\ snap'.root = snap.root /\ snap'.epoch = snap.epoch
     => (NodesOf[snap.root] \cap SourceNodes(snap.epoch))
          \subseteq SourceNodes(snap.epoch)']_vars

(* The marker of a finished snapshot is gone for good, however late its    *)
(* AddMarker goroutine runs: a restart would otherwise take the snapshot   *)
(* again, of a state whose nodes have been pruned since.                   *)
NoMarkerOfFinished ==
  \A e \in Epochs : marker[e] # NoRoot => e > latestFinished

(* Whatever blocks pruning goes away again.                                *)
PruningIsUnblocked == []<>(blockingOps = 0)
=============================================================================
