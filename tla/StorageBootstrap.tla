-------------------------- MODULE StorageBootstrap --------------------------
(***************************************************************************)
(* What a shard node finds of its chain when it starts again               *)
(* (baseStorageBootstrapper.go, shardStorageBootstrapper.go).              *)
(*                                                                         *)
(* A block is committed to six storage units: its header, the index from   *)
(* nonces to hashes, its proof, its state, the metablocks it processed and *)
(* a bootstrap record for its round, which names the round of the record   *)
(* before.  Every unit has a batch of its own (BatchDelaySeconds), so that *)
(* a crash takes away the last writes of each unit independently.          *)
(*                                                                         *)
(* Blocks are committed and rolled back by one goroutine.  The block       *)
(* tracker calls ReceivedSelfNotarizedFromCrossHeaders from another one,   *)
(* which computes the final checkpoint under one lock and sets it under    *)
(* another.                                                                *)
(***************************************************************************)
EXTENDS ForkDetector

CONSTANTS
  Prev,                 \* [Blocks -> Blocks], PrevHash
  NotarizedByMeta,      \* own headers the metachain notarizes, one for a nonce
  Notarizes,            \* [Blocks -> SUBSET NotarizedByMeta], by the metablocks it has
  MetasIn,              \* [Blocks -> set of nonces of metablocks processed]
  NoBlock,              \* not a block
  BootstrapRoundIndex,  \* later rounds are not loaded
  StateIsPruned,        \* a rollback removes the state of its block
  Interleaved,          \* a commit or a rollback may disturb the tracker between its steps
  MaxLost,              \* bound on the last writes of a unit a crash takes away
  MaxCommits,           \* bound on the blocks committed
  MaxFailed,            \* bound on the commits that fail after saving the header
  MaxCrashes            \* bound on the crashes

ASSUME BootstrapAssumption ==
  /\ Prev \in [Blocks -> Blocks] /\ Prev[Genesis] = Genesis
  /\ \A b \in Blocks \ {Genesis} : NonceOf[b] = NonceOf[Prev[b]] + 1
                                   /\ RoundOf[b] > RoundOf[Prev[b]]
  /\ NotarizedByMeta \subseteq Blocks \ {Genesis}
  /\ Notarizes \in [Blocks -> SUBSET NotarizedByMeta]
  /\ MetasIn \in [Blocks -> SUBSET (Nat \ {0})]
  /\ NoBlock \notin Blocks
  /\ {BootstrapRoundIndex, MaxLost, MaxCommits, MaxFailed, MaxCrashes} \subseteq Nat
  /\ {StateIsPruned, Interleaved} \subseteq BOOLEAN

VARIABLES
  phase,      \* "up", "loading": in the loop of loadBlocks, "loaded": after it
  current,    \* the chain handler's block; Genesis when it has none
  fd,         \* the fork detector
  lastRound,  \* of the boot storer, in memory
  first,      \* nonce of the first block committed since the start; 0 for none
  disk,       \* storage unit -> its last values, the newest at the end
  round,      \* the round loadBlocks is at
  tried,      \* storageHeadersInfo: the blocks of the rounds it has tried
  tracker,    \* what the tracker has computed and not set yet, or NoBlock
  residue,    \* history: "detector" if a failed round has left its block there,
              \* "index" if the index has led to a header of another fork
  used        \* commits, failed commits and crashes, counted for the bounds

vars == <<phase, current, fd, lastRound, first, disk, round, tried, tracker, residue, used>>

Rounds == {RoundOf[b] : b \in Blocks}
Metas == UNION {MetasIn[b] : b \in Blocks}
Records == [block : Blocks \cup {NoBlock}, lastRound : Rounds, final : Nonces,
            notarized : SUBSET Blocks]
NoRecord == [block |-> NoBlock, lastRound |-> 0, final |-> 0, notarized |-> {}]

Units == [headers : Seq(SUBSET Blocks), index : Seq([Nonces -> Blocks \cup {NoBlock}]),
          proofs : Seq(SUBSET Blocks), states : Seq(SUBSET Blocks),
          metas : Seq(SUBSET Metas),
          boot : Seq([records : [Rounds -> Records], highest : Rounds])]

\* The values of a unit that a crash may leave; a record is two writes.
Depth(u) == IF u = "boot" THEN 2 * MaxLost + 1 ELSE MaxLost + 1

TypeOK ==
  /\ phase \in {"up", "loading", "loaded"}
  /\ current \in Blocks
  /\ fd \in Detectors
  /\ lastRound \in Rounds /\ round \in Rounds /\ first \in Nonces
  /\ disk \in Units /\ \A u \in DOMAIN disk : Len(disk[u]) \in 1 .. Depth(u)
  /\ tried \in Seq(Blocks)
  /\ tracker \in Blocks \cup {NoBlock}
  /\ residue \subseteq {"detector", "index"}
  /\ used \in [commits : 0 .. MaxCommits, failed : 0 .. MaxFailed, crashes : 0 .. MaxCrashes]

\* A node at genesis with empty storage, its genesis state apart.
Init ==
  /\ phase = "up" /\ current = Genesis /\ fd = RestoreToGenesis
  /\ lastRound = 0 /\ first = 0 /\ round = 0 /\ tried = <<>>
  /\ disk = [headers |-> <<{}>>, index |-> <<[n \in Nonces |-> NoBlock]>>,
             proofs |-> <<{}>>, states |-> <<{Genesis}>>, metas |-> <<{}>>,
             boot |-> <<[records |-> [r \in Rounds |-> NoRecord], highest |-> 0]>>]
  /\ tracker = NoBlock /\ residue = {}
  /\ used = [commits |-> 0, failed |-> 0, crashes |-> 0]

-----------------------------------------------------------------------------
\* What a unit answers while the process is up.
Now(u) == Last(disk[u])

\* A write; the oldest value is then safe on the disk.
Written(values, v, depth) ==
  IF v = Last(values) THEN values
  ELSE LET all == Append(values, v)
       IN  IF Len(all) > depth THEN Tail(all) ELSE all

Write(us, new) ==
  [u \in DOMAIN disk |-> IF u \in us THEN Written(disk[u], new[u], Depth(u)) ELSE disk[u]]

\* The last metablock that the chain up to b has processed; 0 for none.
MetaUpTo[b \in Blocks] ==
  IF b = Genesis THEN 0 ELSE Max(MetasIn[b] \cup {MetaUpTo[Prev[b]]})

\* The chain up to b: the least set of blocks with b and what its blocks follow.
Ancestors ==
  [b \in Blocks |->
     {x \in Blocks : \A S \in SUBSET Blocks :
        b \in S /\ (\A y \in S : Prev[y] \in S) => x \in S}]

\* The headers it notarizes, and the final one when that is higher.
getBootstrapHeadersInfo(b, final) ==
  Notarizes[b] \cup {x \in {final} : NonceOf[x] > Max({NonceOf[y] : y \in Notarizes[b]} \cup {0})}

BootstrapData(b, final) ==
  [block |-> b, lastRound |-> lastRound, final |-> NonceOf[final],
   notarized |-> getBootstrapHeadersInfo(b, final)]

\* Mutant: the record names the round before its own, whoever proposed in it.
PreviousRound(boot, b, final) ==
  [boot EXCEPT !.records[RoundOf[b]] =
     [BootstrapData(b, final) EXCEPT !.lastRound = RoundOf[b] - 1]]

\* bootStorer.Put writes a record and then the highest round, as SaveLastRound.
PutRecord(boot, b, final) == [boot EXCEPT !.records[RoundOf[b]] = BootstrapData(b, final)]

SaveLastRound(boot, r) == [boot EXCEPT !.highest = r]

\* saveShardHeader, with the proof.
Saved(b) == [headers |-> Now("headers") \cup {b},
             index |-> [Now("index") EXCEPT ![NonceOf[b]] = b],
             proofs |-> Now("proofs") \cup ({b} \cap Proven)]

(* The final block stays, and the one the tracker has found on the chain,  *)
(* until the tracker has set it.                                           *)
Undisturbed(detector, b) ==
  tracker # NoBlock => detector.final = fd.final /\ tracker \in Ancestors[b]

(* CommitBlock of a child of the current block.                            *)
CommitBlock(b) ==
  LET detector == AddHeader(fd, b, Notarizes[b])
      boot == PutRecord(Now("boot"), b, detector.final)
      new == [headers |-> Saved(b).headers, index |-> Saved(b).index,
              proofs |-> Saved(b).proofs,
              states |-> Now("states") \cup {b}, metas |-> Now("metas") \cup MetasIn[b]]
      written == Write(DOMAIN new, new)
      recorded == Written(disk["boot"], boot, Depth("boot"))
  IN
  /\ phase = "up" /\ used.commits < MaxCommits
  /\ b # Genesis /\ Prev[b] = current
  /\ Interleaved \/ Undisturbed(detector, b)
  /\ disk' = [written EXCEPT !["boot"] =
                Written(recorded, SaveLastRound(boot, RoundOf[b]), Depth("boot"))]
  /\ fd' = detector
  /\ lastRound' = RoundOf[b]
  /\ first' = IF first = 0 THEN NonceOf[b] ELSE first
  /\ current' = b
  /\ used' = [used EXCEPT !.commits = @ + 1]
  /\ UNCHANGED <<phase, round, tried, tracker, residue>>

\* CommitBlock that fails after saveShardHeader.
CommitFails(b) ==
  /\ phase = "up" /\ used.failed < MaxFailed
  /\ b # Genesis /\ Prev[b] = current
  /\ disk' = Write({"headers", "index", "proofs"}, Saved(b))
  /\ used' = [used EXCEPT !.failed = @ + 1]
  /\ UNCHANGED <<phase, current, fd, lastRound, first, round, tried, tracker, residue>>

(* A block at the nonce of the final one may go if it is another block, or *)
(* if it has scheduled miniblocks, which the model leaves out.             *)
shouldAllowRollback ==
  \/ NonceOf[current] > NonceOf[fd.final]
  \/ NonceOf[current] = NonceOf[fd.final] /\ current # fd.final
     /\ first # 0 /\ NonceOf[current] >= first

\* rollBack of one block.
RollBack ==
  LET prev == Prev[current]
      new == [states |-> Now("states") \ (IF StateIsPruned THEN {current} ELSE {}),
              metas |-> Now("metas") \ MetasIn[current],
              index |-> [Now("index") EXCEPT ![NonceOf[current]] = NoBlock],
              boot |-> SaveLastRound(Now("boot"), RoundOf[prev])]
  IN
  /\ phase = "up" /\ shouldAllowRollback
  /\ prev \in Now("headers") \cup {Genesis}
  /\ Interleaved \/ Undisturbed(RemoveHeader(fd, current), prev)
  /\ prev \in Now("states")
  /\ disk' = Write(DOMAIN new, new)
  /\ fd' = RemoveHeader(fd, current)
  /\ lastRound' = RoundOf[prev]
  /\ current' = prev
  /\ UNCHANGED <<phase, first, round, tried, tracker, residue, used>>

(* ReceivedSelfNotarizedFromCrossHeaders: the final checkpoint is computed *)
(* with mutHeaders and set with mutFork.                                   *)
ReceivedSelfNotarized(b) ==
  LET detector == appendSelfNotarizedHeaders(fd, {b})
      found == ProcessedAndNotarized(detector)
  IN
  /\ phase = "up" /\ tracker = NoBlock
  /\ NewNotarized(fd, {b}) # {}
  /\ fd' = detector
  /\ tracker' = IF found = {} THEN NoBlock ELSE HighestOf(found)
  /\ UNCHANGED <<phase, current, lastRound, first, disk, round, tried, residue, used>>

setFinalCheckpoint ==
  /\ tracker # NoBlock
  /\ fd' = [fd EXCEPT !.final = tracker]
  /\ tracker' = NoBlock
  /\ UNCHANGED <<phase, current, lastRound, first, disk, round, tried, residue, used>>

-----------------------------------------------------------------------------
(* loadBlocks.                                                             *)

\* The process stops anywhere and starts again.
Crash ==
  \E kept \in [DOMAIN disk -> 1 .. Depth("boot")] :
    /\ used.crashes < MaxCrashes
    /\ \A u \in DOMAIN disk : kept[u] <= Len(disk[u])
    /\ disk' = [u \in DOMAIN disk |-> <<disk[u][kept[u]]>>]
    /\ round' = disk["boot"][kept["boot"]].highest
    /\ lastRound' = round' /\ first' = 0
    /\ phase' = IF round' = 0 THEN "up" ELSE "loading"
    /\ current' = Genesis /\ fd' = RestoreToGenesis
    /\ tried' = <<>> /\ tracker' = NoBlock /\ residue' = residue \ {"detector"}
    /\ used' = [used EXCEPT !.crashes = @ + 1]

Record == Now("boot").records[round]

\* A record that names its own round as the one before is corrupt.
HasRecord == Record # NoRecord /\ Record.lastRound # round

\* The block stands in the chain handler and, with its flag, the fork detector.
applyBlock(b) ==
  LET added == AddCheckpoint(fd, b)
  IN  IF b \in Instant THEN ResetProbableHighestNonce(SetFinalToLastCheckpoint(added))
      ELSE IF b \in Proven THEN added
      ELSE fd

HasProof(b) == b \in Proven => b \in Now("proofs")

(* getBootInfos: the records from this one back to the one before the      *)
(* final block, newest first; a record that is missing is an error.        *)
BootInfos(rec) ==
  LET lowest == Max({rec.final - 1, 1})
      Back[r \in Rounds] ==
        LET at == Now("boot").records[r]
        IN  IF at = NoRecord THEN <<at>>
            ELSE IF NonceOf[at.block] <= lowest \/ at.lastRound = 0 THEN <<at>>
            ELSE <<at>> \o Back[at.lastRound]
  IN  IF rec.final = NonceOf[rec.block] \/ NonceOf[rec.block] <= lowest
      THEN <<rec>>
      ELSE <<rec>> \o Back[rec.lastRound]

\* What applyBootInfos needs of one record.
CanApply(b) ==
  /\ MetaUpTo[b] \in Now("metas") \cup {0}
  /\ b \in Now("headers") /\ HasProof(b)

\* Self notarized headers with one missing are all left out.
applySelfNotarizedHeaders(bs) ==
  IF \A x \in bs : x \in Now("headers") /\ HasProof(x) THEN bs ELSE {}

(* AddHeader for each record, oldest first; its error is only logged.  A   *)
(* single record makes its block final.                                    *)
applyBootInfos(detector, infos) ==
  LET Add(acc, rec) == AddHeader(acc, rec.block, applySelfNotarizedHeaders(rec.notarized))
      applied == FoldLeft(Add, detector, Reverse(infos))
  IN  IF Len(infos) = 1 THEN SetFinalToLastCheckpoint(applied) ELSE applied

\* Mutant: the loop goes on with the same round.
TryAgain == UNCHANGED <<round, tried, phase>>

\* The round is given up for the one before it.
TryBefore ==
  /\ round' = Record.lastRound
  /\ tried' = Append(tried, Record.block)
  /\ UNCHANGED phase

SkipLaterRound ==
  /\ phase = "loading" /\ HasRecord /\ round > BootstrapRoundIndex
  /\ TryBefore
  /\ UNCHANGED <<current, fd, lastRound, first, disk, tracker, residue, used>>

\* applyHeaderInfo finds the header and the state, and calls applyBlock.
FoundHeader == Record.block \in Now("headers") \cap Now("states")

CompleteRound ==
  FoundHeader /\ HasProof(Record.block) /\ NoRecord \notin Range(BootInfos(Record))

(* One iteration for a record: the rest of applyHeaderInfo or getBootInfos *)
(* fails, ...                                                              *)
HeaderNotApplied ==
  /\ phase = "loading" /\ HasRecord /\ round <= BootstrapRoundIndex
  /\ ~ CompleteRound
  /\ current' = IF FoundHeader THEN Record.block ELSE current
  /\ fd' = IF FoundHeader THEN applyBlock(Record.block) ELSE fd
  /\ residue' = residue \cup (IF fd' = fd THEN {} ELSE {"detector"})
  /\ TryBefore
  /\ UNCHANGED <<lastRound, first, disk, tracker, used>>

Applicable ==
  phase = "loading" /\ HasRecord /\ round <= BootstrapRoundIndex /\ CompleteRound

(* ... or applyBootInfos, because of a header, a proof or a metablock, or  *)
(* of what the model leaves out: the keys of the nodes coordinator and of  *)
(* the epoch start trigger, the miniblocks; ...                            *)
RecordsNotApplied ==
  /\ Applicable
  /\ current' = Record.block
  /\ fd' = RestoreToGenesis
  /\ residue' = residue \ {"detector"}
  /\ TryBefore
  /\ UNCHANGED <<lastRound, first, disk, tracker, used>>

\* ... or all is well.
RoundLoaded ==
  /\ Applicable
  /\ \A rec \in Range(BootInfos(Record)) : CanApply(rec.block)
  /\ phase' = "loaded"
  /\ current' = Record.block
  /\ fd' = applyBootInfos(applyBlock(Record.block), BootInfos(Record))
  /\ tried' = Append(tried, Record.block)
  /\ UNCHANGED <<lastRound, first, disk, round, tracker, residue, used>>

(* No round is left: restoreBlockChainToGenesis.                           *)
NothingLoaded ==
  /\ phase = "loading" /\ ~ HasRecord
  /\ phase' = "up"
  /\ current' = Genesis
  /\ lastRound' = 0
  /\ disk' = Write({"boot"}, [boot |-> SaveLastRound(Now("boot"), 0)])
  /\ round' = 0 /\ tried' = <<>>
  /\ UNCHANGED <<fd, first, tracker, residue, used>>

\* Mutant: the first nonce removed is that of the last metablock itself.
FromLastNotarized(b) == {m \in Metas : MetaUpTo[b] # 0 /\ m >= MetaUpTo[b]}

\* The metablocks removed because of their nonce.
cleanupNotarizedStorageForHigherNoncesIfExist(b) ==
  {m \in Metas : MetaUpTo[b] # 0 /\ m > MetaUpTo[b]}

(* The end of loadBlocks.  The header after the highest round, if there is *)
(* one, and those of the rounds given up leave the index, and the          *)
(* metablocks they processed their unit.                                   *)
CleanUp ==
  LET highest == Now("boot").records[Now("boot").highest].block
      above == {Now("index")[n] : n \in {x \in Nonces : x = NonceOf[highest] + 1}}
               \cap Now("headers")
      gone == above \cup (Range(tried) \ {current})
      metas == UNION {MetasIn[b] : b \in gone \cap Now("headers")}
               \cup cleanupNotarizedStorageForHigherNoncesIfExist(current)
      new == [index |-> [n \in Nonces |-> IF \E b \in gone : NonceOf[b] = n
                                          THEN NoBlock ELSE Now("index")[n]],
              metas |-> Now("metas") \ metas,
              boot |-> SaveLastRound(Now("boot"), round)]
  IN
  /\ phase = "loaded"
  /\ disk' = Write(DOMAIN new, new)
  /\ lastRound' = round
  /\ phase' = "up"
  /\ residue' = residue \cup (IF \E b \in above : Prev[b] # highest THEN {"index"} ELSE {})
  /\ round' = 0 /\ tried' = <<>>
  /\ UNCHANGED <<current, fd, first, tracker, used>>

-----------------------------------------------------------------------------
LoadStep ==
  \/ SkipLaterRound \/ HeaderNotApplied \/ RecordsNotApplied
  \/ RoundLoaded \/ NothingLoaded \/ CleanUp

Next ==
  \/ \E b \in Blocks : CommitBlock(b) \/ CommitFails(b)
  \/ RollBack
  \/ \E b \in NotarizedByMeta : ReceivedSelfNotarized(b)
  \/ setFinalCheckpoint
  \/ Crash
  \/ LoadStep

Spec == Init /\ [][Next]_vars

\* loadBlocks runs to its end.
FairSpec == Spec /\ WF_vars(LoadStep)

-----------------------------------------------------------------------------
(* From the highest round down, every bootstrap record is followed by that *)
(* of its block's parent, or its block's parent is genesis: a restart      *)
(* falls back along the chain and never onto a fork, also after rollbacks  *)
(* and after crashes that take the last records away.                      *)
RecordsFollowTheChain ==
  \A i \in 1 .. Len(disk["boot"]) :
    LET boot == disk["boot"][i]
        Reached == {r \in Rounds : /\ boot.highest # 0
                                   /\ boot.records[r] # NoRecord
                                   /\ boot.records[boot.highest] # NoRecord
                                   /\ boot.records[r].block \in
                                        Ancestors[boot.records[boot.highest].block]}
    IN  /\ boot.highest # 0 => boot.records[boot.highest] # NoRecord
        /\ \A r \in Reached :
             LET rec == boot.records[r]
                 before == boot.records[rec.lastRound]
             IN  IF rec.lastRound = 0 THEN Prev[rec.block] = Genesis
                                      ELSE before.block = Prev[rec.block]

(* Whenever the node is up, the block it takes for final is on its chain,  *)
(* and the last checkpoint is its current block: AddHeader would otherwise *)
(* refuse the next block, or RemoveHeader a rollback.  It holds after each *)
(* way a restart can go, but for rounds that failed after applyBlock.      *)
DetectorFollowsTheChain ==
  phase = "up" /\ "detector" \notin residue =>
    fd.final \in Ancestors[current] /\ lastCheckpoint(fd) = current

(* A block is final because the metachain notarized it or by its proof.    *)
(* Block 1 is the exception: a node that starts again with it as its only  *)
(* block takes it for final.                                               *)
FinalIsNotarized ==
  phase = "up" /\ "detector" \notin residue =>
    fd.final \in {Genesis} \cup NotarizedByMeta \cup Instant \cup {b \in Blocks : NonceOf[b] = 1}

(* A node that is up and has a block finds it again when it stops and      *)
(* starts: its record is the one of the highest round, and the headers,    *)
(* proofs, metablocks and records loadBlocks needs are there, also after   *)
(* rollbacks and crashes.  The exception is a restart that took a header   *)
(* of another fork from the index: cleanupNotarizedStorage then removes    *)
(* metablocks its own block may have processed as well.                    *)
RestartFindsTheBlock ==
  LET rec == Now("boot").records[Now("boot").highest]
  IN
  phase = "up" /\ current # Genesis /\ "index" \notin residue =>
    /\ rec.block = current
    /\ current \in Now("states")
    /\ NoRecord \notin Range(BootInfos(rec))
    /\ \A info \in Range(BootInfos(rec)) : CanApply(info.block)

(* loadBlocks comes to an end: the rounds it goes back to get smaller.     *)
LoadingEnds == phase = "loading" ~> phase = "up"
=============================================================================
