---------------------------- MODULE EpochChange ----------------------------
(***************************************************************************)
(* A shard enters epochs: the block processor of a shard node              *)
(* (process/block/shardblock.go) with its epoch start trigger.             *)
(*                                                                         *)
(* The node processes the blocks of its shard.  A start of epoch block is  *)
(* accepted when the trigger knows its epoch; when it does not, the node   *)
(* throws the epoch start metablock out of the pool, so that its arrival   *)
(* reaches the trigger once more.  The trigger moves on between the checks *)
(* of a block and its commit, blocks are rolled back, a commit may fail    *)
(* after the trigger was told of the block, and the node may restart: it   *)
(* then loads the trigger state the last block's bootstrap record names.   *)
(***************************************************************************)
EXTENDS EpochStartTrigger, Sequences

CONSTANTS
  GracePeriod,   \* rounds an old epoch may outlast the confirmation of a new
  BlockRounds,   \* the rounds of ordinary blocks of the shard
  StartRounds,   \* StartRounds[e]: those of its start of epoch blocks of epoch e
  MaxRollBacks,  \* bound on forks
  MaxFailures,   \* bound on commits that fail
  MaxRestarts,   \* bound on restarts
  MaxFaults      \* bound on all three together

ASSUME ChangeAssumption ==
  /\ {GracePeriod, MaxRollBacks, MaxFailures, MaxRestarts, MaxFaults} \subseteq Nat
  /\ BlockRounds \subseteq Rounds
  /\ StartRounds \in [Epochs -> SUBSET Rounds]

VARIABLES
  chain,      \* the committed blocks
  final,      \* how many of them are final
  used,       \* the rounds of all blocks ever committed: a round has one block
  processing, \* the block between its checks and the end of its commit
  rollBacks, failures, restarts

faultVars == <<rollBacks, failures, restarts>>
chainVars == <<chain, final, used, processing, faultVars>>
vars == <<netVars, calls, missingVars, triggerVars, chainVars>>

Last == chain[Len(chain)]

\* A block; the key is that of the trigger state in its bootstrap record.
Blocks == [round : Rounds, prev : Rounds, epoch : Epochs, metaHash : HashOrNone,
           key : Rounds]
NoBlock == [at |-> "none"]

FirstBlock == [round |-> 0, prev |-> 0, epoch |-> 0, metaHash |-> NoHash, key |-> 0]

IsStart(b) == b.metaHash # NoHash
HeaderOf(b) == [round |-> b.round, prev |-> b.prev, epoch |-> b.epoch]

TypeOK ==
  /\ TriggerTypeOK
  /\ chain \in Seq(Blocks) /\ final \in 1 .. Len(chain)
  /\ used \subseteq Rounds
  /\ processing \in {NoBlock} \cup [at : {"checked", "processed"}, block : Blocks]
  /\ rollBacks \in 0 .. MaxRollBacks /\ failures \in 0 .. MaxFailures
  /\ restarts \in 0 .. MaxRestarts

Init ==
  /\ TriggerInit
  /\ chain = <<FirstBlock>> /\ final = 1 /\ used = {0}
  /\ processing = NoBlock
  /\ rollBacks = 0 /\ failures = 0 /\ restarts = 0

\* The blocks the shard may propose on top of the last one.
Proposals ==
  {b \in [round : Rounds \ used, prev : {Last.round}, epoch : Epochs,
          metaHash : StartHashes \cup {NoHash}, key : {Last.key}] :
     /\ b.round > Last.round
     /\ IF IsStart(b)
          THEN b.epoch = MetaHdr[b.metaHash].epoch /\ b.round \in StartRounds[b.epoch]
          ELSE b.epoch = Last.epoch /\ b.round \in BlockRounds}

FaultsAreLeft == rollBacks + failures + restarts < MaxFaults

---------------------------------------------------------------------------
(* checkEpochCorrectnessCrossChain: the last blocks outlast the grace      *)
(* period of an epoch that is confirmed, and are not final.                *)
ChainIsLate ==
  /\ t.epochStartRound < t.epochFinalityAttestingRound
  /\ Last.round > t.epochFinalityAttestingRound + GracePeriod
  /\ Last.epoch < t.metaEpoch
  /\ Last.round > chain[final].round

epochChangeConfirmed(b) ==
  \/ t.epochStartRound < t.epochFinalityAttestingRound
  \/ b.epoch >= AndromedaEpoch /\ t.epochStartRound = t.epochFinalityAttestingRound

isOldEpochAndShouldBeNew(b) ==
  /\ t.isEpochStart
  /\ b.round > t.epochFinalityAttestingRound + GracePeriod
  /\ b.epoch < t.metaEpoch
  /\ epochChangeConfirmed(b)

\* Mutant: any epoch start metablock of the epoch will do.
AnyStartOfTheEpoch(b) == TRUE

EpochStartMetaHashIsCorrect(b) ==
  IsStart(b) /\ b.epoch = t.metaEpoch => b.metaHash = t.epochMetaBlockHash

EpochIsKnown(b) ==
  /\ b.epoch >= Last.epoch
  /\ ~(b.epoch # Last.epoch /\ t.metaEpoch = Last.epoch)
  /\ b.epoch <= t.metaEpoch

checkEpochCorrectness(b) ==
  /\ EpochIsKnown(b)
  /\ ~(b.epoch = Last.epoch /\ IsStart(b))
  /\ ~isOldEpochAndShouldBeNew(b)
  /\ EpochStartMetaHashIsCorrect(b)
  /\ b.epoch # Last.epoch => IsStart(b)
  /\ IsStart(b) /\ b.epoch < t.metaEpoch =>
       b.metaHash \in pool /\ MetaHdr[b.metaHash].epoch = b.epoch

\* requestEpochStartInfo finds the trigger not ready, or checkEpochCorrectness
\* finds it in the epoch of the last block.
TriggerIsBehind(b) ==
  /\ IsStart(b) /\ b.epoch > t.metaEpoch
  /\ ~t.isEpochStart \/ t.metaEpoch = Last.epoch

ProcessBlock(b) ==
  /\ processing = NoBlock /\ Unlocked
  /\ ~TriggerIsBehind(b) /\ ~ChainIsLate /\ checkEpochCorrectness(b)
  /\ processing' = [at |-> "checked", block |-> b]
  /\ UNCHANGED <<netVars, calls, missingVars, triggerVars,
                 chain, final, used, faultVars>>

\* Mutant: the metablock is requested without being removed.
KeptInPool(h) == pool

\* RemoveHeaderByHash
RemovedFromPool(h) == pool \ {h}

\* The metablock is removed from the pool and requested.
RequestEpochStartInfo(b) ==
  /\ processing = NoBlock /\ Unlocked
  /\ TriggerIsBehind(b)
  /\ pool' = RemovedFromPool(b.metaHash)
  /\ UNCHANGED <<proofs, bodies, calls, missingVars, triggerVars, chainVars>>

\* CommitBlock tells the trigger of a start of epoch block ...
CommitStart ==
  /\ processing.at = "checked" /\ ~ChainIsLate
  /\ LET b == processing.block
     IN  IF IsStart(b) THEN SetProcessed(HeaderOf(b), b.metaHash)
                       ELSE UNCHANGED <<netVars, calls, missingVars, triggerVars>>
  /\ processing' = [processing EXCEPT !.at = "processed"]
  /\ UNCHANGED <<chain, final, used, faultVars>>

\* ... before it stores the block and its bootstrap record.
CommitEnd ==
  /\ processing.at = "processed"
  /\ chain' = Append(chain, [processing.block EXCEPT !.key = key])
  /\ used' = used \cup {processing.block.round}
  /\ processing' = NoBlock
  /\ UNCHANGED <<netVars, calls, missingVars, triggerVars, final, faultVars>>

GiveUp ==
  /\ processing' = NoBlock
  /\ UNCHANGED <<netVars, calls, missingVars, triggerVars,
                 chain, final, used, rollBacks, restarts>>

\* The commit is given up on a late chain, or when it fails further on.
CommitIsLate ==
  /\ processing.at = "checked" /\ ChainIsLate
  /\ GiveUp /\ UNCHANGED failures

CommitFails ==
  /\ processing.at = "processed" /\ failures < MaxFailures /\ FaultsAreLeft
  /\ failures' = failures + 1
  /\ GiveUp

RollBackOneBlock ==
  /\ processing = NoBlock /\ Len(chain) > final
  /\ chain' = SubSeq(chain, 1, Len(chain) - 1)
  /\ RevertStateToBlock(Last.prev)
  /\ UNCHANGED <<final, used, processing, failures, restarts>>

\* The bootstrapper rolls back to the nonce checkEpochCorrectnessCrossChain
\* sets for a late chain, or because of a fork.
RollBackLate == ChainIsLate /\ RollBackOneBlock /\ UNCHANGED rollBacks

RollBackFork ==
  /\ rollBacks < MaxRollBacks /\ FaultsAreLeft
  /\ rollBacks' = rollBacks + 1
  /\ RollBackOneBlock

Finalize ==
  /\ final < Len(chain)
  /\ final' = final + 1
  /\ UNCHANGED <<netVars, calls, missingVars, triggerVars,
                 chain, used, processing, faultVars>>

Restart ==
  /\ restarts < MaxRestarts /\ FaultsAreLeft
  /\ restarts' = restarts + 1
  /\ LoadState(Last.key)
  /\ processing' = NoBlock
  /\ UNCHANGED <<chain, final, used, rollBacks, failures>>

Next ==
  \/ TriggerNext /\ UNCHANGED chainVars
  \/ \E b \in Proposals : ProcessBlock(b) \/ RequestEpochStartInfo(b)
  \/ CommitStart \/ CommitEnd \/ CommitIsLate \/ CommitFails
  \/ RollBackLate \/ RollBackFork \/ Finalize \/ Restart

Spec == Init /\ [][Next]_vars

(* The network answers the requests of the node, its goroutines run, and   *)
(* the shard's validators propose the start of the newest epoch until it   *)
(* is committed.                                                           *)
HonestStarts == {b \in Proposals : IsStart(b) /\ b.metaHash \in Canonical}

Fairness ==
  /\ \A h \in MetaHashes :
       /\ WF_vars(AddHeader(h) /\ UNCHANGED chainVars)
       /\ WF_vars(AddProof(h) /\ UNCHANGED chainVars)
       /\ WF_vars(ReceivedMetaBlock(h) /\ UNCHANGED chainVars)
       /\ WF_vars(ReceivedProof(h) /\ UNCHANGED chainVars)
       /\ WF_vars(CheckEpochStart(h) /\ UNCHANGED chainVars)
  /\ \A k \in KindSet :
       /\ \A h \in StartHashes : WF_vars(AddBody(h, k) /\ UNCHANGED chainVars)
       /\ WF_vars(RequestMissing(k) /\ UNCHANGED chainVars)
       /\ WF_vars(UpdateMissing(k) /\ UNCHANGED chainVars)
       /\ WF_vars(UpdateTriggerFromMeta(k) /\ UNCHANGED chainVars)
  /\ WF_vars(\E b \in HonestStarts : ProcessBlock(b))
  /\ WF_vars(\E b \in HonestStarts : RequestEpochStartInfo(b))
  /\ WF_vars(CommitStart) /\ WF_vars(CommitEnd)
  /\ WF_vars(CommitIsLate) /\ WF_vars(RollBackLate)

FairSpec == Spec /\ Fairness

---------------------------------------------------------------------------
(* The trigger is never behind the chain: it was told of the epoch of the  *)
(* last block, and knows no older epoch as the newest one than that.  This *)
(* is so after a rollback, a failed commit and a restart with the trigger  *)
(* state the last block's bootstrap record names (SetProcessed, LoadState).*)
TriggerCoversChain == Last.epoch <= t.epoch /\ t.epoch <= t.metaEpoch

(* The newest epoch the trigger knows never decreases, in whatever order   *)
(* epochs are confirmed and blocks rolled back (updateTriggerFromMeta,     *)
(* SetProcessed); only a restart may load an older state.                  *)
MetaEpochGrows == [][restarts' > restarts \/ t'.metaEpoch >= t.metaEpoch]_vars

(* The start of epoch header stored for an epoch is that of the committed  *)
(* block that starts it, after every sequence of commits, commits that     *)
(* fail and rollbacks (SetProcessed, RevertStateToBlock): contracts read   *)
(* it through GetEpochStartHdrFromStorage.                                 *)
StoredStartIsCommitted ==
  \A i \in DOMAIN chain :
    IsStart(chain[i]) => shardStart[chain[i].epoch] = HeaderOf(chain[i])

(* The trigger confirms, and stores as the start of an epoch, only blocks  *)
(* that stay on the metachain, in whatever order metablocks, proofs and    *)
(* the blocks of a fork reach it (checkIfTriggerCanBeActivated).           *)
ConfirmedIsCanonical ==
  /\ t.epochMetaBlockHash # NoHash => t.epochMetaBlockHash \in Canonical
  /\ \A e \in Epochs : metaStart[e] # NoHash =>
       metaStart[e] \in Canonical /\ MetaHdr[metaStart[e]].epoch = e

(* The fields of the trigger belong together: the newest epoch is that of  *)
(* the confirmed metablock, whose round is the start round, and the round  *)
(* that attests its finality is that of a block on top of it, or its own   *)
(* with the Andromeda flag (updateTriggerFromMeta,                         *)
(* changeEpochFinalityAttestingRoundIfNeeded, LoadState).                  *)
FinalityIsAttested ==
  LET h == t.epochMetaBlockHash
  IN  IF t.metaEpoch = 0 THEN h = NoHash
      ELSE /\ h # NoHash /\ MetaHdr[h].epoch = t.metaEpoch
           /\ MetaHdr[h].round = t.epochStartRound
           /\ IF AndromedaFlag(h)
                THEN t.epochFinalityAttestingRound = MetaHdr[h].round
                ELSE \E c \in OnTopOf(h, MetaHashes) :
                       MetaHdr[c].round = t.epochFinalityAttestingRound

(* A committed block that starts the newest epoch the trigger knows names  *)
(* the metablock the trigger confirmed: checkEpochCorrectness compares the *)
(* two when the block is processed, and nothing that happens until the end *)
(* of its commit, or after it, sets them apart.                            *)
StartNamesConfirmed ==
  \A i \in DOMAIN chain :
    IsStart(chain[i]) /\ chain[i].epoch = t.metaEpoch =>
      chain[i].metaHash = t.epochMetaBlockHash

(* The node enters the newest epoch and stays in it, although the trigger  *)
(* may drop an epoch start metablock it has not yet confirmed when it is   *)
(* told of the start before, and may not be called again by the pool.      *)
EpochIsEntered == <>[](Last.epoch = MaxEpoch)
============================================================================
