------------------------- MODULE EpochStartTrigger -------------------------
(***************************************************************************)
(* The epoch start trigger of a shard (epochStart/shardchain/trigger.go).  *)
(*                                                                         *)
(* The trigger learns of a new epoch from metablocks, which reach the pool *)
(* in any order: an epoch start metablock opens the epoch once the block   *)
(* before it is known, what it refers to was synchronised and it is final. *)
(* Before the Andromeda flag a block is final when another is built on it, *)
(* afterwards when its proof is known.  The shard's start of epoch block   *)
(* then closes the matter (SetProcessed), and everything the trigger       *)
(* collected is dropped.                                                   *)
(*                                                                         *)
(* Pools call the trigger in goroutines of their own, after they added the *)
(* header or proof; two more goroutines ask for what is missing.  All take *)
(* mutTrigger, held for the whole of updateTriggerFromMeta: its loop is    *)
(* one step per epoch start header here, since pools change meanwhile.     *)
(* MetaBlockValidity and BlockFinality are 1, as in process/constants.go.  *)
(* A hash determines its header; mapNonceHashes is mapHashHdr by nonces.   *)
(***************************************************************************)
EXTENDS Integers, FiniteSets, FiniteSetsExt

CONSTANTS
  MetaHashes,      \* the metablocks, by their hashes
  MetaHdr,         \* MetaHdr[h]: the header; see MetaHdrType
  Canonical,       \* the metablocks that stay on the metachain
  NoHash,
  AndromedaEpoch,  \* the first epoch with the Andromeda flag
  Kinds,           \* what an epoch start header refers to, in the order it is
                   \* synchronised: "miniBlocks", then, with the flag
                   \* RefactorPeersMiniBlocks, "validatorsInfo"
  InitPool,        \* the metablocks that are in the pool when the node starts
  InitBodies,      \* what the pools hold by then of what they refer to
  MaxEpoch,        \* bound on epochs
  MaxRound         \* bound on rounds

Epochs == 0 .. MaxEpoch
Rounds == 0 .. MaxRound
HashOrNone == MetaHashes \cup {NoHash}

MetaHdrType == [nonce : Nat, prev : HashOrNone, epoch : Epochs, round : Rounds,
                start : BOOLEAN]

KindSet == {Kinds[i] : i \in DOMAIN Kinds}
StartHashes == {h \in MetaHashes : MetaHdr[h].start}
AndromedaFlag(h) == MetaHdr[h].epoch >= AndromedaEpoch

(* The blocks the metachain keeps are consecutive, one per nonce, in       *)
(* epochs that do not decrease.  It drops no block that another is built   *)
(* on: BlockFinality is 1.                                                 *)
ASSUME TriggerAssumption ==
  /\ {AndromedaEpoch, MaxEpoch, MaxRound} \subseteq Nat
  /\ NoHash \notin MetaHashes
  /\ MetaHdr \in [MetaHashes -> MetaHdrType]
  /\ Canonical \subseteq MetaHashes
  /\ \A g, h \in Canonical :
       /\ MetaHdr[g].nonce = MetaHdr[h].nonce => g = h
       /\ MetaHdr[h].nonce = MetaHdr[g].nonce + 1 => MetaHdr[h].prev = g
       /\ MetaHdr[g].nonce <= MetaHdr[h].nonce => MetaHdr[g].epoch <= MetaHdr[h].epoch
  /\ \A h \in MetaHashes :
       LET p == MetaHdr[h].prev
       IN  p # NoHash =>
             /\ p \in Canonical
             /\ MetaHdr[h].nonce = MetaHdr[p].nonce + 1
             /\ MetaHdr[h].round > MetaHdr[p].round
             /\ MetaHdr[h].epoch - MetaHdr[p].epoch = IF MetaHdr[h].start THEN 1 ELSE 0
  /\ \A h \in StartHashes : MetaHdr[h].prev # NoHash
  /\ Kinds \in {<<"miniBlocks">>, <<"miniBlocks", "validatorsInfo">>}
  /\ InitPool \subseteq MetaHashes \ StartHashes
  /\ InitBodies \subseteq StartHashes \X KindSet

VARIABLES
  pool,      \* the metablocks in the headers pool
  proofs,    \* those with a proof in the proofs pool
  bodies,    \* <<h, k>>: all that h refers to of kind k is in its pool
  calls,     \* the goroutines of pools and updaters that have yet to run
  t,         \* the fields of the trigger that are saved; see Registry
  key,       \* triggerStateKey
  saved,     \* triggerStorage: the saved states by their keys
  mapHashHdr,
  mapEpochStartHdrs,
  mapFinalizedEpochs,
  epochStartMeta,
  requestedFinalityAttestingBlock,
  missing,   \* mapMissingMiniBlocks and mapMissingValidatorsInfo, by headers
  requested, \* the kinds whose missing items have just been requested
  todo,      \* the headers left in the loop of updateTriggerFromMeta
  metaStart, \* metaHdrStorage: the epoch start metablock of an epoch
  shardStart \* shardHdrStorage: the start of epoch header of an epoch

netVars == <<pool, proofs, bodies>>
mapVars == <<mapHashHdr, mapEpochStartHdrs, mapFinalizedEpochs, epochStartMeta,
             requestedFinalityAttestingBlock>>
missingVars == <<missing, requested>>
triggerVars == <<t, key, saved, mapVars, todo, metaStart, shardStart>>

\* A start of epoch header of the shard; the round stands for the hash.
NoRound == -1
StartHeaders == [round : Rounds, prev : Rounds \cup {NoRound}, epoch : Epochs]
EmptyHeader == [round |-> 0, prev |-> NoRound, epoch |-> 0]
NoHeader == [round |-> 0, prev |-> 0, epoch |-> 0]

Registry ==
  [epoch : Epochs, metaEpoch : Epochs, isEpochStart : BOOLEAN,
   newEpochHdrReceived : BOOLEAN, epochStartRound : Rounds,
   epochFinalityAttestingRound : Rounds, epochMetaBlockHash : HashOrNone,
   epochStartShardHeader : StartHeaders]

NewTrigger ==
  [epoch |-> 0, metaEpoch |-> 0, isEpochStart |-> FALSE,
   newEpochHdrReceived |-> FALSE, epochStartRound |-> 0,
   epochFinalityAttestingRound |-> 0, epochMetaBlockHash |-> NoHash,
   epochStartShardHeader |-> EmptyHeader]

Calls == [of : {"header", "proof"}, hash : MetaHashes] \cup [of : {"update"}, kind : KindSet]

TriggerTypeOK ==
  /\ pool \subseteq MetaHashes /\ proofs \subseteq MetaHashes
  /\ bodies \subseteq StartHashes \X KindSet
  /\ calls \subseteq Calls
  /\ t \in Registry /\ key \in Rounds
  /\ DOMAIN saved \subseteq Rounds /\ \A k \in DOMAIN saved : saved[k] \in Registry
  /\ key \in DOMAIN saved
  /\ mapHashHdr \subseteq MetaHashes
  /\ mapEpochStartHdrs \subseteq mapHashHdr \cap StartHashes
  /\ mapFinalizedEpochs \in [Epochs -> mapEpochStartHdrs \cup {NoHash}]
  /\ epochStartMeta \in StartHashes \cup {NoHash}
  /\ requestedFinalityAttestingBlock \in BOOLEAN
  /\ missing \in [KindSet -> SUBSET StartHashes]
  /\ requested \subseteq KindSet
  /\ todo \subseteq mapEpochStartHdrs
  /\ metaStart \in [Epochs -> StartHashes \cup {NoHash}]
  /\ shardStart \in [Epochs -> StartHeaders \cup {NoHeader}]

NoneFinalized == [e \in Epochs |-> NoHash]

TriggerInit ==
  /\ pool = InitPool /\ proofs = {} /\ bodies = InitBodies /\ calls = {}
  /\ t = NewTrigger /\ key = 0 /\ saved = [k \in {0} |-> NewTrigger]
  /\ mapHashHdr = {} /\ mapEpochStartHdrs = {}
  /\ mapFinalizedEpochs = NoneFinalized
  /\ epochStartMeta = NoHash /\ requestedFinalityAttestingBlock = FALSE
  /\ missing = [k \in KindSet |-> {}] /\ requested = {}
  /\ todo = {}
  /\ metaStart = [e \in Epochs |-> NoHash]
  /\ shardStart = [e \in Epochs |-> NoHeader]

\* mutTrigger is free.
Unlocked == todo = {}

---------------------------------------------------------------------------
(* The pools: a header, a proof, or all that a header refers to, arrives.  *)

AddHeader(h) ==
  /\ h \notin pool
  /\ pool' = pool \cup {h}
  /\ calls' = calls \cup {[of |-> "header", hash |-> h]}
  /\ UNCHANGED <<proofs, bodies, missingVars, triggerVars>>

AddProof(h) ==
  /\ AndromedaFlag(h) /\ h \in Canonical \ proofs
  /\ proofs' = proofs \cup {h}
  /\ calls' = calls \cup {[of |-> "proof", hash |-> h]}
  /\ UNCHANGED <<pool, bodies, missingVars, triggerVars>>

AddBody(h, k) ==
  /\ <<h, k>> \notin bodies
  /\ bodies' = bodies \cup {<<h, k>>}
  /\ UNCHANGED <<pool, proofs, calls, missingVars, triggerVars>>

---------------------------------------------------------------------------
(* Looking headers up: in the maps, then in the pool.  What is found in    *)
(* the pool joins the maps.                                                *)

\* getHeaderWithNonceAndHash
HeaderIsKnown(h) == h \in mapHashHdr \cup pool

\* getHeaderWithNonceAndPrevHash: the headers on top of h.
OnTopOf(h, known) == {c \in known : MetaHdr[c].prev = h}

\* Mutant: the headers with the next nonce, whatever they are built on.
WithNextNonce(h) == {c \in mapHashHdr : MetaHdr[c].nonce = MetaHdr[h].nonce + 1}

NextHeaders(h) ==
  IF OnTopOf(h, mapHashHdr) # {} THEN OnTopOf(h, mapHashHdr) ELSE OnTopOf(h, pool)

LowestRound(hs) == Min({MetaHdr[c].round : c \in hs})

---------------------------------------------------------------------------
(* A metablock or a proof is received.                                     *)

shouldUpdateTrigger(h) ==
  /\ t.newEpochHdrReceived \/ MetaHdr[h].start
  /\ ~(MetaHdr[h].start /\ MetaHdr[h].epoch <= t.epoch)
  /\ ~(h \in mapHashHdr \cap mapEpochStartHdrs
       /\ mapFinalizedEpochs[MetaHdr[h].epoch] = h)

\* updateTriggerHeaderData, and the list the loop of updateTriggerFromMeta
\* goes through.
UpdateTrigger(h) ==
  /\ mapHashHdr' = mapHashHdr \cup {h}
  /\ mapEpochStartHdrs' = mapEpochStartHdrs \cup ({h} \cap StartHashes)
  /\ t' = [t EXCEPT !.newEpochHdrReceived = @ \/ MetaHdr[h].start]
  /\ todo' = {s \in mapEpochStartHdrs' : mapFinalizedEpochs[MetaHdr[s].epoch] = NoHash}
  /\ UNCHANGED <<mapFinalizedEpochs, epochStartMeta, requestedFinalityAttestingBlock>>

checkMetaHeaderForEpochTriggerEquivalentProofs(h) ==
  IF shouldUpdateTrigger(h) THEN UpdateTrigger(h) ELSE UNCHANGED <<t, mapVars, todo>>

\* isPreviousEpochStartMetaBlock
IsPreviousEpochStart(h) == \E s \in mapEpochStartHdrs : MetaHdr[s].prev = h

\* changeEpochFinalityAttestingRoundIfNeeded, for a block one or two nonces
\* above the epoch start block.
ChangeAttestingRound(h) ==
  LET s     == mapFinalizedEpochs[MetaHdr[h].epoch]
      above == MetaHdr[h].nonce - MetaHdr[s].nonce
      prev  == MetaHdr[h].prev
      Attest(b) == t' = [t EXCEPT !.epochFinalityAttestingRound = MetaHdr[b].round]
      OnStart == above = 1 /\ epochStartMeta # NoHash /\ prev = epochStartMeta
  IN  /\ UNCHANGED <<mapEpochStartHdrs, mapFinalizedEpochs, epochStartMeta, todo>>
      /\ \/ /\ above = 2 /\ HeaderIsKnown(prev)
            /\ Attest(prev)
            /\ mapHashHdr' = mapHashHdr \cup {prev}
            /\ UNCHANGED requestedFinalityAttestingBlock
         \/ /\ above = 2 /\ ~HeaderIsKnown(prev)
            /\ requestedFinalityAttestingBlock' = TRUE
            /\ UNCHANGED <<t, mapHashHdr>>
         \/ /\ OnStart /\ requestedFinalityAttestingBlock
            /\ mapHashHdr' = mapHashHdr \cup NextHeaders(h)
            /\ IF NextHeaders(h) = {}
                 THEN UNCHANGED <<t, requestedFinalityAttestingBlock>>
                 ELSE Attest(h) /\ requestedFinalityAttestingBlock' = FALSE
         \/ /\ OnStart /\ ~requestedFinalityAttestingBlock
            /\ IF MetaHdr[h].round < t.epochFinalityAttestingRound THEN Attest(h)
                                                                   ELSE UNCHANGED t
            /\ UNCHANGED <<mapHashHdr, requestedFinalityAttestingBlock>>
         \/ /\ above # 2 /\ ~OnStart
            /\ UNCHANGED <<t, mapHashHdr, requestedFinalityAttestingBlock>>

checkMetaHeaderForEpochTriggerLegacy(h) ==
  LET e == MetaHdr[h].epoch
  IN  IF /\ ~IsPreviousEpochStart(h)
         /\ t.metaEpoch = e /\ mapFinalizedEpochs[e] # NoHash
        THEN ChangeAttestingRound(h)
        ELSE checkMetaHeaderForEpochTriggerEquivalentProofs(h)

\* With the Andromeda flag a header without a proof is left to its proof;
\* nothing is locked to find that out.
ReceivedMetaBlock(h) ==
  LET call == [of |-> "header", hash |-> h]
  IN  /\ call \in calls
      /\ calls' = calls \ {call}
      /\ \/ /\ AndromedaFlag(h) /\ h \notin proofs
            /\ UNCHANGED <<t, mapVars, todo>>
         \/ /\ AndromedaFlag(h) /\ h \in proofs /\ Unlocked
            /\ checkMetaHeaderForEpochTriggerEquivalentProofs(h)
         \/ /\ ~AndromedaFlag(h) /\ Unlocked
            /\ checkMetaHeaderForEpochTriggerLegacy(h)
      /\ UNCHANGED <<netVars, missingVars, key, saved, metaStart, shardStart>>

ReceivedProof(h) ==
  LET call == [of |-> "proof", hash |-> h]
  IN  /\ call \in calls /\ Unlocked
      /\ calls' = calls \ {call}
      /\ IF h \in pool THEN checkMetaHeaderForEpochTriggerEquivalentProofs(h)
                       ELSE UNCHANGED <<t, mapVars, todo>>
      /\ UNCHANGED <<netVars, missingVars, key, saved, metaStart, shardStart>>

---------------------------------------------------------------------------
(* updateTriggerFromMeta: one header of the list after the other.          *)

\* metaInfoSlice.Less; hashes decide between equals, which is left open.
Before(g, h) ==
  \/ MetaHdr[g].epoch < MetaHdr[h].epoch
  \/ MetaHdr[g].epoch = MetaHdr[h].epoch /\ MetaHdr[g].nonce < MetaHdr[h].nonce

isMetaBlockValid(h) == HeaderIsKnown(MetaHdr[h].prev)

Synced(h) == \A k \in KindSet : <<h, k>> \in bodies

isMetaBlockFinal(h) ==
  IF AndromedaFlag(h) THEN h \in proofs ELSE NextHeaders(h) # {}

\* Mutant: before Andromeda, too, the block attests itself.
AttestedByItself(h) == MetaHdr[h].round

FinalityAttestingRound(h) ==
  IF AndromedaFlag(h) THEN MetaHdr[h].round ELSE LowestRound(NextHeaders(h))

\* The headers isMetaBlockValid and isMetaBlockFinalLegacy add to the maps.
Fetched(h) ==
  ({MetaHdr[h].prev} \cap (mapHashHdr \cup pool))
    \cup (IF isMetaBlockValid(h) /\ Synced(h) /\ ~AndromedaFlag(h) THEN NextHeaders(h) ELSE {})

\* saveCurrentState
Save(k, state) ==
  /\ key' = k
  /\ saved' = [j \in DOMAIN saved \cup {k} |-> IF j = k THEN state ELSE saved[j]]

Activate(h) ==
  LET state == [t EXCEPT !.metaEpoch = MetaHdr[h].epoch, !.isEpochStart = TRUE,
                         !.epochStartRound = MetaHdr[h].round,
                         !.epochFinalityAttestingRound = FinalityAttestingRound(h),
                         !.epochMetaBlockHash = h]
  IN  /\ t' = state
      /\ epochStartMeta' = h
      /\ Save(MetaHdr[h].round, state)
      /\ missing' = [k \in KindSet |->
                       {g \in missing[k] : MetaHdr[g].epoch > MetaHdr[h].epoch}]

\* Mutant: an epoch start block of an older epoch activates the trigger.
ActivatesAnyEpoch(h) == TRUE

ActivatesEpoch(h) == t.metaEpoch < MetaHdr[h].epoch

\* checkIfTriggerCanBeActivated stops at the first kind of which something is
\* missing.  When the last item arrives just after the time ran out, the list of
\* the missing ones is empty.
SyncFails(h) ==
  /\ ~Synced(h)
  /\ LET k == Kinds[Min({i \in DOMAIN Kinds : <<h, Kinds[i]>> \notin bodies})]
     IN  \E listed \in {{}, {h}} : missing' = [missing EXCEPT ![k] = @ \cup listed]

\* NotifyAllPrepare and NotifyEpochChangeConfirmed leave the trigger alone.
CheckEpochStart(h) ==
  /\ h \in todo /\ \A g \in todo : ~Before(g, h)
  /\ todo' = todo \ {h}
  /\ LET e == MetaHdr[h].epoch
         Stay == UNCHANGED <<t, key, saved, epochStartMeta>>
     IN  \/ /\ mapFinalizedEpochs[e] # NoHash
            /\ Stay /\ UNCHANGED <<mapHashHdr, mapFinalizedEpochs, metaStart, missing>>
         \/ /\ mapFinalizedEpochs[e] = NoHash
            /\ mapHashHdr' = mapHashHdr \cup Fetched(h)
            /\ \/ /\ ~isMetaBlockValid(h)
                  /\ Stay /\ UNCHANGED <<mapFinalizedEpochs, metaStart, missing>>
               \/ /\ isMetaBlockValid(h) /\ SyncFails(h)
                  /\ Stay /\ UNCHANGED <<mapFinalizedEpochs, metaStart>>
               \/ /\ isMetaBlockValid(h) /\ Synced(h) /\ ~isMetaBlockFinal(h)
                  /\ Stay /\ UNCHANGED <<mapFinalizedEpochs, metaStart, missing>>
               \/ /\ isMetaBlockValid(h) /\ Synced(h) /\ isMetaBlockFinal(h)
                  /\ IF ActivatesEpoch(h) THEN Activate(h) ELSE Stay /\ UNCHANGED missing
                  /\ mapFinalizedEpochs' = [mapFinalizedEpochs EXCEPT ![e] = h]
                  /\ metaStart' = [metaStart EXCEPT ![e] = h]
  /\ UNCHANGED <<netVars, calls, requested, mapEpochStartHdrs,
                 requestedFinalityAttestingBlock, shardStart>>

---------------------------------------------------------------------------
(* The goroutines that request what is missing, one for each kind.         *)

RequestMissing(k) ==
  /\ k \notin requested /\ missing[k] # {}
  /\ requested' = requested \cup {k}
  /\ UNCHANGED <<netVars, calls, missing, triggerVars>>

UpdateMissing(k) ==
  /\ k \in requested
  /\ requested' = requested \ {k}
  /\ missing' = [missing EXCEPT ![k] = {h \in @ : <<h, k>> \notin bodies}]
  /\ calls' = IF missing'[k] = {} THEN calls \cup {[of |-> "update", kind |-> k]}
                                  ELSE calls
  /\ UNCHANGED <<netVars, triggerVars>>

\* ... which ends in updateTriggerFromMeta once nothing is missing.
UpdateTriggerFromMeta(k) ==
  LET call == [of |-> "update", kind |-> k]
  IN  /\ call \in calls /\ Unlocked
      /\ calls' = calls \ {call}
      /\ todo' = {s \in mapEpochStartHdrs : mapFinalizedEpochs[MetaHdr[s].epoch] = NoHash}
      /\ UNCHANGED <<netVars, missingVars, t, key, saved, mapVars, metaStart, shardStart>>

TriggerNext ==
  \/ \E h \in MetaHashes : AddHeader(h) \/ AddProof(h)
  \/ \E h \in StartHashes, k \in KindSet : AddBody(h, k)
  \/ \E h \in MetaHashes : ReceivedMetaBlock(h) \/ ReceivedProof(h) \/ CheckEpochStart(h)
  \/ \E k \in KindSet : RequestMissing(k) \/ UpdateMissing(k) \/ UpdateTriggerFromMeta(k)

---------------------------------------------------------------------------
(* What the block processor and the bootstrapper call.                     *)

\* Mutant: the state is saved before the epoch is set.
SaveBefore(b, state) == Save(b.round, t)

SaveProcessed(b, state) == Save(b.round, state)

\* Mutant: the finalized epochs are not forgotten.
KeptFinalized == mapFinalizedEpochs

ForgetFinalized == NoneFinalized

\* SetProcessed for the start of epoch header b, with the metablock in it.
\* The finalized metablocks are stored once more.
SetProcessed(b, metaHash) ==
  LET behind == t.metaEpoch < b.epoch
      state == [t EXCEPT !.epoch = b.epoch,
                         !.metaEpoch = IF behind THEN b.epoch ELSE @,
                         !.epochMetaBlockHash = IF behind THEN metaHash ELSE @,
                         !.isEpochStart = FALSE, !.newEpochHdrReceived = FALSE,
                         !.epochStartShardHeader = b]
  IN  /\ Unlocked
      /\ t' = state
      /\ mapHashHdr' = {} /\ mapEpochStartHdrs' = {}
      /\ mapFinalizedEpochs' = ForgetFinalized
      /\ SaveProcessed(b, state)
      /\ shardStart' = [shardStart EXCEPT ![b.epoch] = b]
      /\ metaStart' = [e \in Epochs |-> IF mapFinalizedEpochs[e] # NoHash
                                         THEN mapFinalizedEpochs[e] ELSE metaStart[e]]
      /\ UNCHANGED <<netVars, calls, missingVars, epochStartMeta,
                     requestedFinalityAttestingBlock, todo>>

\* Mutant: the start of epoch header that is found is removed.
RemovesFound(last, found) == found

RemovesReverted(last, found) == last

\* RevertStateToBlock, for the block of the given round: behind a start of
\* epoch block the trigger takes up the start of epoch header before it.
RevertStateToBlock(round) ==
  LET last    == t.epochStartShardHeader
      earlier == {e \in 1 .. last.epoch - 1 : shardStart[e] # NoHeader}
      Reverted(b) == [t EXCEPT !.epochStartShardHeader = b, !.isEpochStart = TRUE,
                               !.newEpochHdrReceived = TRUE]
  IN  /\ Unlocked
      /\ \/ /\ last.prev # round
            /\ UNCHANGED <<t, shardStart>>
         \/ /\ last.prev = round /\ earlier = {}
            /\ t' = Reverted(EmptyHeader)
            /\ UNCHANGED shardStart
         \/ /\ last.prev = round /\ earlier # {}
            /\ t' = Reverted(shardStart[Max(earlier)])
            /\ shardStart' = [shardStart EXCEPT
                              ![RemovesReverted(last.epoch, Max(earlier))] = NoHeader]
      /\ UNCHANGED <<netVars, calls, missingVars, key, saved, mapVars, todo, metaStart>>

\* After a restart: NewEpochStartTrigger, and LoadState of the recorded key.
LoadState(k) ==
  /\ key' = k /\ t' = saved[k]
  /\ pool' = InitPool /\ proofs' = {} /\ bodies' = InitBodies /\ calls' = {}
  /\ mapHashHdr' = {} /\ mapEpochStartHdrs' = {}
  /\ mapFinalizedEpochs' = NoneFinalized
  /\ epochStartMeta' = NoHash /\ requestedFinalityAttestingBlock' = FALSE
  /\ missing' = [i \in KindSet |-> {}] /\ requested' = {}
  /\ todo' = {}
  /\ UNCHANGED <<saved, metaStart, shardStart>>
============================================================================
