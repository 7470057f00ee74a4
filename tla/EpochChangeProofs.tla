------------------------- MODULE EpochChangeProofs -------------------------
(***************************************************************************)
(* A shard enters epochs with a trigger that knows them, for any stretch   *)
(* of the metachain, any blocks of the shard, any order in which headers,  *)
(* proofs and bodies arrive, and any number of rollbacks, failed commits   *)
(* and restarts.                                                           *)
(***************************************************************************)
EXTENDS EpochChange, FiniteSetsExt, WellFoundedInduction, TLAPS

(* What Min and Max of FiniteSetsExt return. *)

\* A nonempty set of natural numbers has a least element, which Min returns.
LEMMA MinIsLeast ==
    ASSUME NEW S, S \subseteq Nat, S # {}
    PROVE  Min(S) \in S /\ \A y \in S : Min(S) <= y
<1> DEFINE R == {ss \in Nat \X Nat : ss[1] < ss[2]}
<1>1. IsWellFoundedOn(R, Nat)
  BY NatLessThanWellFounded, Zenon DEF OpToRel
<1>2. \A x, y \in Nat : y < x => <<y, x>> \in R
  OBVIOUS
<1> HIDE DEF R
<1>3. PICK x \in S : \A y \in S : ~ (<<y, x>> \in R)
  BY <1>1, WFMin
<1>4. \A y \in S : x =< y
  <2> SUFFICES ASSUME NEW y \in S PROVE x =< y
    OBVIOUS
  <2>1. ~ (y < x)
    BY <1>2, <1>3, Zenon
  <2> QED
    BY <2>1
<1> QED
  BY <1>4 DEF Min

\* A nonempty set of natural numbers with an upper bound has a greatest element,
\* which Max returns.
LEMMA MaxIsGreatest ==
    ASSUME NEW b \in Nat, NEW S, S \subseteq 0 .. b, S # {}
    PROVE  Max(S) \in S /\ \A y \in S : y <= Max(S)
<1> DEFINE T == {b - x : x \in S}
<1>1. T \subseteq Nat /\ T # {}
  <2>1. PICK x \in S : TRUE
    OBVIOUS
  <2>2. b - x \in T
    OBVIOUS
  <2>3. \A y \in S : b - y \in Nat
    OBVIOUS
  <2> QED
    BY <2>2, <2>3
<1>2. Min(T) \in T /\ \A y \in T : Min(T) <= y
  BY <1>1, MinIsLeast
<1>3. PICK m \in S : Min(T) = b - m
  BY <1>2
<1>4. \A y \in S : m >= y
  <2> SUFFICES ASSUME NEW y \in S PROVE m >= y
    OBVIOUS
  <2>1. b - y \in T
    OBVIOUS
  <2>2. b - m <= b - y
    BY <2>1, <1>2, <1>3
  <2>3. b \in Int /\ m \in Int /\ y \in Int
    OBVIOUS
  <2> HIDE DEF T
  <2> QED
    BY <2>2, <2>3
<1>5. \E x \in S : \A y \in S : x >= y
  BY <1>4
<1>6. Max(S) \in S /\ \A y \in S : Max(S) >= y
  BY <1>5 DEF Max
<1> QED
  BY <1>6

-----------------------------------------------------------------------------
----------------------------------------------------------------------------
(* The inductive invariant *)

\* h is a start of epoch e that stays on the metachain.
StartsEpoch(h, e) == h \in Canonical \cap StartHashes /\ MetaHdr[h].epoch = e

\* The fields of a state of the trigger belong together.
Attested(s) ==
    LET h == s.epochMetaBlockHash
    IN  /\ s.epoch <= s.metaEpoch
        /\ s.metaEpoch = 0 => h = NoHash
        /\ s.metaEpoch # 0 =>
             /\ StartsEpoch(h, s.metaEpoch)
             /\ MetaHdr[h].round = s.epochStartRound
             /\ AndromedaFlag(h) => s.epochFinalityAttestingRound = MetaHdr[h].round
             /\ ~AndromedaFlag(h) => \E c \in OnTopOf(h, MetaHashes) :
                                       MetaHdr[c].round = s.epochFinalityAttestingRound

\* A block that starts the newest epoch of a state names its metablock.
Names(b, s) == IsStart(b) /\ b.epoch = s.metaEpoch => b.metaHash = s.epochMetaBlockHash

\* The block before a start of epoch header, when it is committed, is of an earlier epoch.
Fits(header) ==
    header.prev # NoRound =>
      /\ header.prev \in used
      /\ \A i \in DOMAIN chain : chain[i].round = header.prev => chain[i].epoch < header.epoch

\* Blocks are linked and their epochs grow.
Chained ==
    /\ \A i \in DOMAIN chain : /\ chain[i].round \in used
                               /\ i > 1 => chain[i].prev = chain[i - 1].round
    /\ \A i, j \in DOMAIN chain : i <= j => chain[i].epoch <= chain[j].epoch

\* What was checked of a block holds until the end of its commit.
Checked ==
    processing # NoBlock =>
      LET b == processing.block
      IN  /\ b.prev = Last.round /\ b.round \notin used
          /\ b.epoch <= t.metaEpoch /\ Names(b, t)
          /\ IsStart(b) => b.epoch > Last.epoch
          /\ ~IsStart(b) => b.epoch = Last.epoch
          /\ processing.at = "processed" /\ IsStart(b) =>
               t.epoch = b.epoch /\ shardStart[b.epoch] = HeaderOf(b)

\* The trigger covers the chain, and so does the state it would be restarted with.
Recorded ==
    /\ saved[key].epoch = t.epoch /\ saved[key].metaEpoch = t.metaEpoch
    /\ saved[key].epochMetaBlockHash = t.epochMetaBlockHash
    /\ Last.epoch <= t.epoch
    /\ \A i \in DOMAIN chain : Names(chain[i], t)
    /\ \A j \in DOMAIN chain :
         /\ chain[j].key \in DOMAIN saved
         /\ chain[j].epoch <= saved[chain[j].key].epoch
         /\ \A i \in DOMAIN chain : i <= j => Names(chain[i], saved[chain[j].key])

\* The trigger, now and as it was saved, confirms canonical metablocks.
Confirmed ==
    /\ proofs \subseteq Canonical
    /\ Attested(t) /\ \A k \in DOMAIN saved : Attested(saved[k])
    /\ \A e \in Epochs :
         /\ mapFinalizedEpochs[e] # NoHash => StartsEpoch(mapFinalizedEpochs[e], e)
         /\ metaStart[e] # NoHash => StartsEpoch(metaStart[e], e)
    /\ epochStartMeta # NoHash => epochStartMeta = t.epochMetaBlockHash

\* So do the headers that a rollback may take up or remove.
Fitting ==
    /\ Fits(t.epochStartShardHeader)
    /\ \A k \in DOMAIN saved : Fits(saved[k].epochStartShardHeader)
    /\ \A e \in Epochs : shardStart[e] # NoHeader => Fits(shardStart[e])

IInv == /\ TypeOK /\ Chained /\ Checked /\ Recorded /\ Confirmed /\ Fitting
        /\ StoredStartIsCommitted

----------------------------------------------------------------------------
(* Facts about the metachain *)

\* What the header of a metablock is.
LEMMA HeaderType ==
    ASSUME NEW h \in MetaHashes
    PROVE  /\ MetaHdr[h].nonce \in Nat /\ MetaHdr[h].prev \in HashOrNone
           /\ MetaHdr[h].epoch \in Epochs /\ MetaHdr[h].round \in Rounds
           /\ MetaHdr[h].start \in BOOLEAN
  BY TriggerAssumption DEF MetaHdrType

\* An epoch start block starts an epoch after the first one, on a canonical block.
LEMMA StartFollows ==
    ASSUME NEW h \in StartHashes
    PROVE  LET p == MetaHdr[h].prev
           IN  /\ h \in MetaHashes /\ p \in Canonical /\ MetaHdr[h].epoch > 0
               /\ MetaHdr[h].epoch = MetaHdr[p].epoch + 1
               /\ MetaHdr[h].nonce = MetaHdr[p].nonce + 1
<1> DEFINE p == MetaHdr[h].prev
<1>1. h \in MetaHashes /\ MetaHdr[h].start
  BY DEF StartHashes
<1>2. p # NoHash
  BY TriggerAssumption
<1>3. /\ p \in Canonical /\ p \in MetaHashes
      /\ MetaHdr[h].nonce = MetaHdr[p].nonce + 1
      /\ MetaHdr[h].epoch - MetaHdr[p].epoch = 1
  BY <1>1, <1>2, TriggerAssumption
<1>4. MetaHdr[h].epoch \in Nat /\ MetaHdr[p].epoch \in Nat
  BY <1>1, <1>3, HeaderType, TriggerAssumption DEF Epochs
<1>5. QED
  BY <1>1, <1>3, <1>4

\* The metachain starts an epoch once.
LEMMA UniqueStart ==
    ASSUME NEW e, NEW g, NEW h, StartsEpoch(g, e), StartsEpoch(h, e)
    PROVE  g = h
<1>1. ASSUME NEW a \in Canonical \cap StartHashes, NEW b \in Canonical \cap StartHashes,
             MetaHdr[a].epoch = MetaHdr[b].epoch
      PROVE  ~(MetaHdr[a].nonce < MetaHdr[b].nonce)
  <2> DEFINE p == MetaHdr[b].prev
  <2>1. /\ p \in Canonical /\ MetaHdr[b].epoch = MetaHdr[p].epoch + 1
        /\ MetaHdr[b].nonce = MetaHdr[p].nonce + 1
    BY StartFollows
  <2>2. a \in MetaHashes /\ b \in MetaHashes /\ p \in MetaHashes
    BY <2>1, TriggerAssumption
  <2>3. /\ MetaHdr[a].nonce \in Nat /\ MetaHdr[p].nonce \in Nat
        /\ MetaHdr[a].epoch \in Nat /\ MetaHdr[p].epoch \in Nat
    BY <2>2, HeaderType, TriggerAssumption DEF Epochs
  <2>4. MetaHdr[a].nonce <= MetaHdr[p].nonce => MetaHdr[a].epoch <= MetaHdr[p].epoch
    BY <2>1, TriggerAssumption
  <2>5. QED
    BY <1>1, <2>1, <2>3, <2>4
<1>2. g \in Canonical \cap StartHashes /\ h \in Canonical \cap StartHashes
  BY DEF StartsEpoch
<1>3. MetaHdr[g].epoch = MetaHdr[h].epoch
  BY DEF StartsEpoch
<1>4. MetaHdr[g].nonce \in Nat /\ MetaHdr[h].nonce \in Nat
  BY <1>2, HeaderType DEF StartHashes
<1>5. MetaHdr[g].nonce = MetaHdr[h].nonce
  BY <1>1, <1>2, <1>3, <1>4
<1>6. QED
  BY <1>2, <1>5, TriggerAssumption

\* The headers the trigger finds on top of another are on top of it.
LEMMA NextHeadersOnTop ==
    ASSUME TypeOK, NEW h
    PROVE  NextHeaders(h) \subseteq OnTopOf(h, MetaHashes)
  BY DEF NextHeaders, OnTopOf, TypeOK, TriggerTypeOK

\* A final epoch start block stays on the metachain, and its finality is attested by a
\* block on top of it, or with the Andromeda flag by itself.
LEMMA FinalIsAttested ==
    ASSUME TypeOK, proofs \subseteq Canonical, NEW h \in StartHashes, isMetaBlockFinal(h)
    PROVE  LET r == FinalityAttestingRound(h)
           IN  /\ h \in Canonical /\ r \in Rounds
               /\ AndromedaFlag(h) => r = MetaHdr[h].round
               /\ ~AndromedaFlag(h) => \E c \in OnTopOf(h, MetaHashes) : MetaHdr[c].round = r
<1>1. h \in MetaHashes
  BY DEF StartHashes
<1>2. CASE AndromedaFlag(h)
  BY <1>1, <1>2, HeaderType DEF isMetaBlockFinal, FinalityAttestingRound
<1>3. CASE ~AndromedaFlag(h)
  <2> DEFINE rounds == {MetaHdr[c].round : c \in NextHeaders(h)}
  <2>1. NextHeaders(h) # {} /\ NextHeaders(h) \subseteq OnTopOf(h, MetaHashes)
    BY <1>3, NextHeadersOnTop DEF isMetaBlockFinal
  <2>2. rounds # {} /\ rounds \subseteq Nat
    BY <2>1, HeaderType, TriggerAssumption DEF OnTopOf, Rounds
  <2>3. Min(rounds) \in rounds
    BY <2>2, MinIsLeast
  <2>4. PICK c \in NextHeaders(h) : MetaHdr[c].round = Min(rounds)
    BY <2>3
  <2>5. FinalityAttestingRound(h) = Min(rounds)
    BY <1>3 DEF FinalityAttestingRound, LowestRound
  <2>6. c \in MetaHashes /\ MetaHdr[c].prev = h
    BY <2>1, <2>4 DEF OnTopOf
  <2>7. h \in Canonical
    BY <1>1, <2>6, TriggerAssumption
  <2>8. QED
    BY <1>3, <2>4, <2>5, <2>6, <2>7, HeaderType DEF OnTopOf
<1>4. QED
  BY <1>2, <1>3

----------------------------------------------------------------------------
(* Facts about the chain *)

\* The chain is never empty.
LEMMA LastType ==
    ASSUME TypeOK
    PROVE  /\ Len(chain) \in Nat /\ Len(chain) >= 1 /\ DOMAIN chain = 1 .. Len(chain)
           /\ Len(chain) \in DOMAIN chain /\ Last = chain[Len(chain)]
           /\ \A i \in DOMAIN chain : chain[i] \in Blocks
  BY DEF TypeOK, Last

\* The last block is of the newest epoch of the chain.
LEMMA LastIsNewest ==
    ASSUME TypeOK, Chained
    PROVE  \A i \in DOMAIN chain : chain[i].epoch <= Last.epoch
  BY LastType DEF Chained

\* What depends on the chain and on the epochs of the trigger only.
ChainInv == Chained /\ Checked /\ Recorded /\ Fitting /\ StoredStartIsCommitted

\* A step of the trigger that sets none of its epochs disturbs none of it.
LEMMA ChainInvUnchanged ==
    ASSUME ChainInv, UNCHANGED <<chain, used, processing, key, saved, shardStart>>,
           t'.epoch = t.epoch, t'.metaEpoch = t.metaEpoch,
           t'.epochMetaBlockHash = t.epochMetaBlockHash,
           t'.epochStartShardHeader = t.epochStartShardHeader
    PROVE  ChainInv'
<1>1. Last' = Last
  BY DEF Last
<1>2. Chained' /\ StoredStartIsCommitted'
  BY DEF ChainInv, Chained, StoredStartIsCommitted
<1>3. Fitting'
  BY DEF ChainInv, Fitting, Fits
<1>4. Checked'
  BY <1>1 DEF ChainInv, Checked, Names
<1>5. Recorded'
  BY <1>1 DEF ChainInv, Recorded, Names
<1>6. QED
  BY <1>2, <1>3, <1>4, <1>5 DEF ChainInv

\* The parts of the type invariant.
ChainTypeOK ==
    /\ chain \in Seq(Blocks) /\ final \in 1 .. Len(chain)
    /\ used \subseteq Rounds
    /\ processing \in {NoBlock} \cup [at : {"checked", "processed"}, block : Blocks]
    /\ rollBacks \in 0 .. MaxRollBacks /\ failures \in 0 .. MaxFailures
    /\ restarts \in 0 .. MaxRestarts

LEMMA IInvParts == IInv <=> TriggerTypeOK /\ ChainTypeOK /\ ChainInv /\ Confirmed
  BY DEF IInv, TypeOK, ChainTypeOK, ChainInv

LEMMA IInvPartsNext ==
    ASSUME TriggerTypeOK', ChainTypeOK', ChainInv', Confirmed'
    PROVE  IInv'
  BY DEF IInv, TypeOK, ChainTypeOK, ChainInv

----------------------------------------------------------------------------
(* Initially *)

LEMMA InitIInv == Init => IInv
<1> SUFFICES ASSUME Init PROVE IInv
  OBVIOUS
<1>1. 0 \in Rounds /\ 0 \in Epochs
  BY TriggerAssumption DEF Rounds, Epochs
<1>2. EmptyHeader \in StartHeaders /\ EmptyHeader.prev = NoRound
  BY <1>1 DEF EmptyHeader, StartHeaders
<1>3. NewTrigger \in Registry /\ Attested(NewTrigger)
  BY <1>1, <1>2 DEF NewTrigger, Registry, HashOrNone, Attested
<1>4. FirstBlock \in Blocks /\ ~IsStart(FirstBlock)
  BY <1>1 DEF FirstBlock, Blocks, IsStart, HashOrNone
<1>5. TriggerTypeOK
  BY <1>1, <1>3, TriggerAssumption DEF Init, TriggerInit, TriggerTypeOK, NoneFinalized
<1>6. /\ chain = <<FirstBlock>> /\ Len(chain) = 1 /\ DOMAIN chain = {1}
      /\ Last = FirstBlock /\ chain[1] = FirstBlock
  BY DEF Init, Last
<1>7. ChainTypeOK
  BY <1>1, <1>4, <1>6, ChangeAssumption DEF Init, ChainTypeOK
<1>8. t = NewTrigger /\ key = 0 /\ DOMAIN saved = {0} /\ saved[0] = NewTrigger
  BY DEF Init, TriggerInit
<1>9. Chained /\ Checked /\ StoredStartIsCommitted
  BY <1>4, <1>6 DEF Init, Chained, Checked, StoredStartIsCommitted, FirstBlock
<1>10. Recorded
  <2>1. FirstBlock.key = 0 /\ FirstBlock.epoch = 0 /\ NewTrigger.epoch = 0
    BY DEF FirstBlock, NewTrigger
  <2>2. QED
    BY <1>4, <1>6, <1>8, <2>1 DEF Recorded, Names
<1>11. Fitting
  <2>1. NewTrigger.epochStartShardHeader = EmptyHeader
    BY DEF NewTrigger
  <2>2. \A e \in Epochs : shardStart[e] = NoHeader
    BY DEF Init, TriggerInit
  <2>3. QED
    BY <1>2, <1>8, <2>1, <2>2 DEF Fitting, Fits
<1>12. Confirmed
  BY <1>3, <1>8 DEF Init, TriggerInit, Confirmed, NoneFinalized
<1>13. QED
  BY <1>5, <1>7, <1>9, <1>10, <1>11, <1>12, IInvParts DEF ChainInv
----------------------------------------------------------------------------
(* Steps of the trigger *)

\* The epochs of the trigger, and what it saved, stay.
EpochsUnchanged ==
    /\ t'.epoch = t.epoch /\ t'.metaEpoch = t.metaEpoch
    /\ t'.epochMetaBlockHash = t.epochMetaBlockHash
    /\ t'.epochStartShardHeader = t.epochStartShardHeader

LEMMA ConfirmedUnchanged ==
    ASSUME Confirmed, Attested(t)', proofs' \subseteq Canonical,
           t'.epochMetaBlockHash = t.epochMetaBlockHash,
           UNCHANGED <<saved, mapFinalizedEpochs, metaStart, epochStartMeta>>
    PROVE  Confirmed'
  BY DEF Confirmed, Attested

\* The types of what the receiving methods of the trigger set.
MapsTypeOK ==
    /\ t \in Registry
    /\ mapHashHdr \subseteq MetaHashes
    /\ mapEpochStartHdrs \subseteq mapHashHdr \cap StartHashes
    /\ mapFinalizedEpochs \in [Epochs -> mapEpochStartHdrs \cup {NoHash}]
    /\ epochStartMeta \in StartHashes \cup {NoHash}
    /\ requestedFinalityAttestingBlock \in BOOLEAN
    /\ todo \subseteq mapEpochStartHdrs

\* What arrives in the pools, and the goroutines that ask for it, leave the trigger alone.
LEMMA NetworkIInv ==
    ASSUME IInv, TriggerTypeOK', proofs' \subseteq Canonical, UNCHANGED chainVars,
           UNCHANGED <<t, key, saved, mapFinalizedEpochs, metaStart, epochStartMeta, shardStart>>
    PROVE  IInv'
<1>1. TriggerTypeOK /\ ChainTypeOK /\ ChainInv /\ Confirmed
  BY IInvParts
<1>2. ChainTypeOK'
  BY <1>1 DEF ChainTypeOK, chainVars, faultVars
<1>3. ChainInv'
  BY <1>1, ChainInvUnchanged DEF chainVars
<1>4. Attested(t)'
  BY <1>1 DEF Confirmed, Attested
<1>5. Confirmed'
  BY <1>1, <1>4, ConfirmedUnchanged
<1>6. QED
  BY <1>2, <1>3, <1>5, IInvPartsNext

LEMMA AddHeaderIInv ==
    ASSUME IInv, NEW h \in MetaHashes, AddHeader(h), UNCHANGED chainVars
    PROVE  IInv'
<1> USE DEF AddHeader, triggerVars, mapVars, missingVars
<1>1. [of |-> "header", hash |-> h] \in Calls
  BY DEF Calls
<1>2. TriggerTypeOK'
  BY <1>1 DEF IInv, TypeOK, TriggerTypeOK
<1>3. QED
  BY <1>2, NetworkIInv DEF IInv, Confirmed

\* Only a block that stays on the metachain has a proof.
LEMMA AddProofIInv ==
    ASSUME IInv, NEW h \in MetaHashes, AddProof(h), UNCHANGED chainVars
    PROVE  IInv'
<1> USE DEF AddProof, triggerVars, mapVars, missingVars
<1>1. [of |-> "proof", hash |-> h] \in Calls
  BY DEF Calls
<1>2. TriggerTypeOK'
  BY <1>1 DEF IInv, TypeOK, TriggerTypeOK
<1>3. QED
  BY <1>2, NetworkIInv DEF IInv, Confirmed

LEMMA AddBodyIInv ==
    ASSUME IInv, NEW h \in StartHashes, NEW k \in KindSet, AddBody(h, k), UNCHANGED chainVars
    PROVE  IInv'
<1> USE DEF AddBody, triggerVars, mapVars, missingVars
<1>1. TriggerTypeOK'
  BY DEF IInv, TypeOK, TriggerTypeOK
<1>2. QED
  BY <1>1, NetworkIInv DEF IInv, Confirmed

LEMMA RequestMissingIInv ==
    ASSUME IInv, NEW k \in KindSet, RequestMissing(k), UNCHANGED chainVars
    PROVE  IInv'
<1> USE DEF RequestMissing, triggerVars, mapVars, netVars
<1>1. TriggerTypeOK'
  BY DEF IInv, TypeOK, TriggerTypeOK
<1>2. QED
  BY <1>1, NetworkIInv DEF IInv, Confirmed

LEMMA UpdateMissingIInv ==
    ASSUME IInv, NEW k \in KindSet, UpdateMissing(k), UNCHANGED chainVars
    PROVE  IInv'
<1> USE DEF UpdateMissing, triggerVars, mapVars, netVars
<1>1. [of |-> "update", kind |-> k] \in Calls
  BY DEF Calls
<1>2. calls' \subseteq Calls
  BY <1>1 DEF IInv, TypeOK, TriggerTypeOK
<1>3. missing' \in [KindSet -> SUBSET StartHashes]
  BY DEF IInv, TypeOK, TriggerTypeOK
<1>4. TriggerTypeOK'
  BY <1>2, <1>3 DEF IInv, TypeOK, TriggerTypeOK
<1>5. QED
  BY <1>4, NetworkIInv DEF IInv, Confirmed

LEMMA UpdateTriggerFromMetaIInv ==
    ASSUME IInv, NEW k \in KindSet, UpdateTriggerFromMeta(k), UNCHANGED chainVars
    PROVE  IInv'
<1> USE DEF UpdateTriggerFromMeta, missingVars, mapVars, netVars
<1>1. TriggerTypeOK'
  BY DEF IInv, TypeOK, TriggerTypeOK
<1>2. QED
  BY <1>1, NetworkIInv DEF IInv, Confirmed

\* The metablock of a start of epoch block is thrown out of the pool.
LEMMA RequestEpochStartInfoIInv ==
    ASSUME IInv, NEW b, RequestEpochStartInfo(b)
    PROVE  IInv'
<1> USE DEF RequestEpochStartInfo, triggerVars, mapVars, missingVars
<1>1. TriggerTypeOK'
  BY DEF IInv, TypeOK, TriggerTypeOK, RemovedFromPool
<1>2. QED
  BY <1>1, NetworkIInv DEF IInv, Confirmed

\* A header is added to the maps.
LEMMA UpdateTriggerMoves ==
    ASSUME IInv, NEW h \in MetaHashes, UpdateTrigger(h)
    PROVE  MapsTypeOK' /\ EpochsUnchanged /\ Attested(t)'
<1>1. t \in Registry /\ Attested(t)
  BY DEF IInv, TypeOK, TriggerTypeOK, Confirmed
<1> DEFINE r == t.newEpochHdrReceived \/ MetaHdr[h].start
<1>2. r \in BOOLEAN /\ t' = [t EXCEPT !.newEpochHdrReceived = r]
  BY <1>1 DEF UpdateTrigger, Registry
<1> HIDE DEF r
<1>3. t' \in Registry
  BY <1>1, <1>2 DEF Registry
<1>4. /\ EpochsUnchanged /\ t'.epochStartRound = t.epochStartRound
      /\ t'.epochFinalityAttestingRound = t.epochFinalityAttestingRound
  BY <1>1, <1>2 DEF Registry, EpochsUnchanged
<1>5. Attested(t)'
  BY <1>1, <1>4 DEF Attested, EpochsUnchanged
<1>6. mapEpochStartHdrs' \subseteq mapHashHdr' \cap StartHashes /\ mapHashHdr' \subseteq MetaHashes
  BY DEF IInv, TypeOK, TriggerTypeOK, UpdateTrigger
<1>7. mapFinalizedEpochs' \in [Epochs -> mapEpochStartHdrs' \cup {NoHash}]
  BY DEF IInv, TypeOK, TriggerTypeOK, UpdateTrigger
<1>8. QED
  BY <1>3, <1>4, <1>5, <1>6, <1>7
  DEF IInv, TypeOK, TriggerTypeOK, UpdateTrigger, MapsTypeOK

\* A block on top of the confirmed one attests its finality.
LEMMA AttestMoves ==
    ASSUME IInv, NEW b \in MetaHashes, MetaHdr[b].prev = t.epochMetaBlockHash,
           t.epochMetaBlockHash # NoHash, ~AndromedaFlag(t.epochMetaBlockHash),
           t' = [t EXCEPT !.epochFinalityAttestingRound = MetaHdr[b].round]
    PROVE  t' \in Registry /\ EpochsUnchanged /\ Attested(t)'
<1>1. t \in Registry /\ Attested(t) /\ MetaHdr[b].round \in Rounds
  BY HeaderType DEF IInv, TypeOK, TriggerTypeOK, Confirmed
<1>2. t' \in Registry
  BY <1>1 DEF Registry
<1>3. /\ EpochsUnchanged /\ t'.epochStartRound = t.epochStartRound
      /\ t'.epochFinalityAttestingRound = MetaHdr[b].round
  BY <1>1 DEF Registry, EpochsUnchanged
<1>4. b \in OnTopOf(t.epochMetaBlockHash, MetaHashes)
  BY DEF OnTopOf
<1>5. Attested(t)'
  BY <1>1, <1>3, <1>4 DEF Attested, EpochsUnchanged
<1>6. QED
  BY <1>2, <1>3, <1>5

\* A block of the newest epoch changes the attesting round to that of a block on top of
\* the confirmed one: when it is two nonces above, its previous block is on top of it.
LEMMA ChangeAttestingRoundMoves ==
    ASSUME IInv, NEW h \in MetaHashes, ~AndromedaFlag(h), ChangeAttestingRound(h),
           t.metaEpoch = MetaHdr[h].epoch, mapFinalizedEpochs[MetaHdr[h].epoch] # NoHash
    PROVE  MapsTypeOK' /\ EpochsUnchanged /\ Attested(t)'
<1> DEFINE e == MetaHdr[h].epoch
           s == mapFinalizedEpochs[e]
           prev == MetaHdr[h].prev
<1>1. /\ t \in Registry /\ Attested(t) /\ e \in Epochs /\ MapsTypeOK
      /\ pool \subseteq MetaHashes
  BY HeaderType DEF IInv, TypeOK, TriggerTypeOK, Confirmed, MapsTypeOK
<1>2. StartsEpoch(s, e) /\ e > 0
  BY <1>1, StartFollows DEF IInv, Confirmed, StartsEpoch
<1>3. StartsEpoch(t.epochMetaBlockHash, e)
  BY <1>1, <1>2 DEF Attested
<1>4. s = t.epochMetaBlockHash /\ s \in Canonical /\ s \in MetaHashes /\ s # NoHash
  BY <1>2, <1>3, UniqueStart, TriggerAssumption DEF StartsEpoch
<1>5. ~AndromedaFlag(t.epochMetaBlockHash)
  BY <1>3 DEF StartsEpoch, AndromedaFlag
<1>6. UNCHANGED <<mapEpochStartHdrs, mapFinalizedEpochs, epochStartMeta, todo>>
  BY DEF ChangeAttestingRound
<1>7. ASSUME MetaHdr[h].nonce - MetaHdr[s].nonce = 2, HeaderIsKnown(prev)
      PROVE  prev \in MetaHashes /\ MetaHdr[prev].prev = t.epochMetaBlockHash
  <2>1. prev \in MetaHashes /\ prev # NoHash
    BY <1>1, <1>7, TriggerAssumption DEF HeaderIsKnown, MapsTypeOK
  <2>2. prev \in Canonical /\ MetaHdr[h].nonce = MetaHdr[prev].nonce + 1
    BY <2>1, TriggerAssumption
  <2>3. /\ MetaHdr[h].nonce \in Nat /\ MetaHdr[s].nonce \in Nat
        /\ MetaHdr[prev].nonce \in Nat
    BY <1>4, <2>1, HeaderType
  <2>4. MetaHdr[prev].nonce = MetaHdr[s].nonce + 1
    BY <1>7, <2>2, <2>3
  <2>5. MetaHdr[prev].prev = s
    BY <1>4, <2>2, <2>4, TriggerAssumption
  <2>6. QED
    BY <1>4, <2>1, <2>5
<1>8. /\ mapHashHdr \subseteq mapHashHdr' /\ mapHashHdr' \subseteq MetaHashes
      /\ requestedFinalityAttestingBlock' \in BOOLEAN
  <2>1. NextHeaders(h) \subseteq MetaHashes
    BY <1>1 DEF NextHeaders, OnTopOf, MapsTypeOK
  <2>2. HeaderIsKnown(prev) => prev \in MetaHashes
    BY <1>1 DEF HeaderIsKnown, MapsTypeOK
  <2>3. QED
    BY <1>1, <2>1, <2>2 DEF ChangeAttestingRound, MapsTypeOK
<1>9. \/ t' = t
      \/ \E b \in MetaHashes : /\ MetaHdr[b].prev = t.epochMetaBlockHash
                               /\ t' = [t EXCEPT !.epochFinalityAttestingRound = MetaHdr[b].round]
  <2>1. epochStartMeta # NoHash => epochStartMeta = t.epochMetaBlockHash
    BY DEF IInv, Confirmed
  <2>2. QED
    BY <1>7, <2>1 DEF ChangeAttestingRound
<1>10. t' \in Registry /\ EpochsUnchanged /\ Attested(t)'
  <2>1. CASE t' = t
    BY <1>1, <2>1 DEF EpochsUnchanged, Attested
  <2>2. CASE t' # t
    BY <1>4, <1>5, <1>9, <2>2, AttestMoves
  <2>3. QED
    BY <2>1, <2>2
<1>11. MapsTypeOK'
  BY <1>1, <1>6, <1>8, <1>10 DEF MapsTypeOK
<1>12. QED
  BY <1>10, <1>11
\* What the receiving methods do to the maps and the trigger keeps the invariant.
LEMMA ReceivedIInv ==
    ASSUME IInv, MapsTypeOK', EpochsUnchanged, Attested(t)', calls' \subseteq calls,
           UNCHANGED <<netVars, missingVars, key, saved, metaStart, shardStart>>,
           UNCHANGED <<mapFinalizedEpochs, epochStartMeta>>, UNCHANGED chainVars
    PROVE  IInv'
<1>1. TriggerTypeOK /\ ChainTypeOK /\ ChainInv /\ Confirmed
  BY IInvParts
<1>2. TriggerTypeOK'
  BY <1>1 DEF TriggerTypeOK, MapsTypeOK, netVars, missingVars
<1>3. ChainTypeOK'
  BY <1>1 DEF ChainTypeOK, chainVars, faultVars
<1>4. ChainInv'
  BY <1>1, ChainInvUnchanged DEF chainVars, EpochsUnchanged
<1>5. Confirmed'
  BY <1>1, ConfirmedUnchanged DEF netVars, Confirmed, EpochsUnchanged
<1>6. QED
  BY <1>2, <1>3, <1>4, <1>5, IInvPartsNext

LEMMA EquivalentProofsMoves ==
    ASSUME IInv, NEW h \in MetaHashes, checkMetaHeaderForEpochTriggerEquivalentProofs(h)
    PROVE  /\ MapsTypeOK' /\ EpochsUnchanged /\ Attested(t)'
           /\ UNCHANGED <<mapFinalizedEpochs, epochStartMeta>>
<1> USE DEF checkMetaHeaderForEpochTriggerEquivalentProofs
<1>1. CASE shouldUpdateTrigger(h)
  BY <1>1, UpdateTriggerMoves DEF UpdateTrigger
<1>2. CASE ~shouldUpdateTrigger(h)
  <2>1. UNCHANGED <<t, mapVars, todo>>
    BY <1>2
  <2>2. MapsTypeOK /\ Attested(t)
    BY DEF IInv, TypeOK, TriggerTypeOK, MapsTypeOK, Confirmed
  <2>3. QED
    BY <2>1, <2>2 DEF mapVars, MapsTypeOK, EpochsUnchanged, Attested
<1>3. QED
  BY <1>1, <1>2

LEMMA ReceivedMetaBlockIInv ==
    ASSUME IInv, NEW h \in MetaHashes, ReceivedMetaBlock(h), UNCHANGED chainVars
    PROVE  IInv'
<1>1. /\ calls' \subseteq calls
      /\ UNCHANGED <<netVars, missingVars, key, saved, metaStart, shardStart>>
  BY DEF ReceivedMetaBlock
<1>2. /\ MapsTypeOK' /\ EpochsUnchanged /\ Attested(t)'
      /\ UNCHANGED <<mapFinalizedEpochs, epochStartMeta>>
  <2>1. CASE UNCHANGED <<t, mapVars, todo>>
    <3>1. MapsTypeOK /\ Attested(t)
      BY DEF IInv, TypeOK, TriggerTypeOK, MapsTypeOK, Confirmed
    <3>2. QED
      BY <2>1, <3>1 DEF mapVars, MapsTypeOK, EpochsUnchanged, Attested
  <2>2. CASE checkMetaHeaderForEpochTriggerEquivalentProofs(h)
    BY <2>2, EquivalentProofsMoves
  <2>3. CASE ~AndromedaFlag(h) /\ checkMetaHeaderForEpochTriggerLegacy(h)
    <3>1. CASE checkMetaHeaderForEpochTriggerEquivalentProofs(h)
      BY <3>1, EquivalentProofsMoves
    <3>2. CASE /\ ChangeAttestingRound(h) /\ t.metaEpoch = MetaHdr[h].epoch
               /\ mapFinalizedEpochs[MetaHdr[h].epoch] # NoHash
      BY <2>3, <3>2, ChangeAttestingRoundMoves DEF ChangeAttestingRound
    <3>3. QED
      BY <2>3, <3>1, <3>2 DEF checkMetaHeaderForEpochTriggerLegacy
  <2>4. QED
    BY <2>1, <2>2, <2>3 DEF ReceivedMetaBlock
<1>3. QED
  BY <1>1, <1>2, ReceivedIInv

LEMMA ReceivedProofIInv ==
    ASSUME IInv, NEW h \in MetaHashes, ReceivedProof(h), UNCHANGED chainVars
    PROVE  IInv'
<1>1. /\ calls' \subseteq calls
      /\ UNCHANGED <<netVars, missingVars, key, saved, metaStart, shardStart>>
  BY DEF ReceivedProof
<1>2. CASE UNCHANGED <<t, mapVars, todo>>
  <2>1. MapsTypeOK /\ Attested(t)
    BY DEF IInv, TypeOK, TriggerTypeOK, MapsTypeOK, Confirmed
  <2>2. /\ MapsTypeOK' /\ EpochsUnchanged /\ Attested(t)'
        /\ UNCHANGED <<mapFinalizedEpochs, epochStartMeta>>
    BY <1>2, <2>1 DEF mapVars, MapsTypeOK, EpochsUnchanged, Attested
  <2>3. QED
    BY <1>1, <2>2, ReceivedIInv
<1>3. CASE checkMetaHeaderForEpochTriggerEquivalentProofs(h)
  BY <1>1, <1>3, EquivalentProofsMoves, ReceivedIInv
<1>4. QED
  BY <1>2, <1>3 DEF ReceivedProof

----------------------------------------------------------------------------
(* The confirmation of an epoch *)

\* A state is saved under the key it is restarted with.
LEMMA SaveMoves ==
    ASSUME TypeOK, NEW k \in Rounds, NEW state \in Registry, Save(k, state)
    PROVE  /\ key' = k /\ DOMAIN saved' = DOMAIN saved \cup {k} /\ saved'[k] = state
           /\ \A j \in DOMAIN saved : j # k => saved'[j] = saved[j]
           /\ key' \in Rounds /\ key' \in DOMAIN saved' /\ DOMAIN saved' \subseteq Rounds
           /\ \A j \in DOMAIN saved' : saved'[j] \in Registry
  BY DEF Save, TypeOK, TriggerTypeOK

\* The trigger enters the epoch of a final epoch start block that is newer than its own.
LEMMA ActivateMoves ==
    ASSUME IInv, NEW h \in StartHashes, isMetaBlockFinal(h), ActivatesEpoch(h), Activate(h)
    PROVE  /\ t' \in Registry /\ Attested(t)' /\ Save(MetaHdr[h].round, t')
           /\ t'.epoch = t.epoch /\ t'.metaEpoch = MetaHdr[h].epoch
           /\ t'.epochMetaBlockHash = h
           /\ t'.epochStartShardHeader = t.epochStartShardHeader
           /\ t.metaEpoch < t'.metaEpoch
<1> DEFINE r == FinalityAttestingRound(h)
<1>1. t \in Registry /\ Attested(t) /\ TypeOK
  BY DEF IInv, TypeOK, TriggerTypeOK, Confirmed
<1>2. /\ h \in Canonical /\ r \in Rounds
      /\ AndromedaFlag(h) => r = MetaHdr[h].round
      /\ ~AndromedaFlag(h) => \E c \in OnTopOf(h, MetaHashes) : MetaHdr[c].round = r
  BY <1>1, FinalIsAttested DEF IInv, Confirmed
<1>3. h \in MetaHashes /\ MetaHdr[h].epoch \in Epochs /\ MetaHdr[h].round \in Rounds
  BY HeaderType DEF StartHashes
<1>4. t' = [t EXCEPT !.metaEpoch = MetaHdr[h].epoch, !.isEpochStart = TRUE,
                     !.epochStartRound = MetaHdr[h].round,
                     !.epochFinalityAttestingRound = r, !.epochMetaBlockHash = h]
  BY DEF Activate
<1> HIDE DEF r
<1>5. t' \in Registry
  BY <1>1, <1>2, <1>3, <1>4 DEF Registry, HashOrNone
<1>6. /\ t'.epoch = t.epoch /\ t'.metaEpoch = MetaHdr[h].epoch /\ t'.epochMetaBlockHash = h
      /\ t'.epochStartShardHeader = t.epochStartShardHeader
      /\ t'.epochStartRound = MetaHdr[h].round /\ t'.epochFinalityAttestingRound = r
  BY <1>1, <1>4 DEF Registry
<1>7. t.metaEpoch < t'.metaEpoch
  BY <1>6 DEF ActivatesEpoch
<1>8. /\ t.epoch \in Nat /\ t.metaEpoch \in Nat /\ t'.metaEpoch \in Nat
      /\ t.epoch <= t.metaEpoch
  BY <1>1, <1>3, <1>6, TriggerAssumption DEF Registry, Epochs, Attested
<1>9. StartsEpoch(h, t'.metaEpoch) /\ t'.metaEpoch # 0 /\ t'.epoch <= t'.metaEpoch
  BY <1>2, <1>6, <1>7, <1>8 DEF StartsEpoch
<1>10. Attested(t)'
  BY <1>2, <1>6, <1>9 DEF Attested
<1>11. Save(MetaHdr[h].round, t')
  BY DEF Activate
<1>12. QED
  BY <1>5, <1>6, <1>7, <1>10, <1>11

\* The chain ends in older epochs than the one entered.
LEMMA ActivateChainInv ==
    ASSUME IInv, NEW h \in StartHashes, isMetaBlockFinal(h), ActivatesEpoch(h), Activate(h),
           UNCHANGED <<chain, used, processing, shardStart>>
    PROVE  ChainInv'
<1>1. /\ t' \in Registry /\ Save(MetaHdr[h].round, t')
      /\ t'.epoch = t.epoch /\ t'.epochStartShardHeader = t.epochStartShardHeader
      /\ t.metaEpoch < t'.metaEpoch
  BY ActivateMoves
<1>2. MetaHdr[h].round \in Rounds /\ TypeOK
  BY HeaderType DEF StartHashes, IInv
<1>3. /\ key' = MetaHdr[h].round /\ DOMAIN saved' = DOMAIN saved \cup {key'}
      /\ saved'[key'] = t'
      /\ \A j \in DOMAIN saved : j # key' => saved'[j] = saved[j]
  BY <1>1, <1>2, SaveMoves
<1>4. ChainInv /\ Last' = Last
  BY IInvParts DEF Last
<1>5. Chained' /\ StoredStartIsCommitted'
  BY <1>4 DEF ChainInv, Chained, StoredStartIsCommitted
<1>6. /\ t.epoch \in Nat /\ t.metaEpoch \in Nat /\ t'.metaEpoch \in Nat
      /\ t.epoch <= t.metaEpoch /\ Last.epoch <= t.epoch
  BY <1>1, TriggerAssumption
  DEF IInv, TypeOK, TriggerTypeOK, Registry, Epochs, Confirmed, Attested, Recorded
<1>7. \A i \in DOMAIN chain : /\ chain[i].epoch \in Nat /\ chain[i].epoch <= Last.epoch
                              /\ Last.epoch \in Nat
  BY <1>2, <1>4, LastType, LastIsNewest, TriggerAssumption DEF ChainInv, Blocks, Epochs
<1>8. \A i \in DOMAIN chain : chain[i].epoch <= t'.epoch /\ chain[i].epoch < t'.metaEpoch
  BY <1>1, <1>6, <1>7
<1>9. \A i \in DOMAIN chain : Names(chain[i], t')
  BY <1>6, <1>7, <1>8 DEF Names
<1>10. Fitting'
  <2>1. \A j \in DOMAIN saved' : Fits(saved'[j].epochStartShardHeader)
    BY <1>1, <1>3, <1>4 DEF ChainInv, Fitting
  <2>2. QED
    BY <1>1, <1>4, <2>1 DEF ChainInv, Fitting, Fits
<1>11. Checked'
  <2>1. CASE processing = NoBlock
    BY <2>1 DEF Checked
  <2>2. CASE processing # NoBlock
    <3>1. processing.block.epoch \in Nat
      BY <1>2, <2>2, TriggerAssumption DEF TypeOK, Blocks, Epochs
    <3>2. processing.block.epoch < t'.metaEpoch
      BY <1>1, <1>4, <1>6, <2>2, <3>1 DEF ChainInv, Checked
    <3>3. Names(processing.block, t')
      BY <1>6, <3>1, <3>2 DEF Names
    <3>4. processing.block.epoch <= t'.metaEpoch
      BY <1>6, <3>1, <3>2
    <3>5. QED
      BY <1>1, <1>4, <2>2, <3>3, <3>4 DEF ChainInv, Checked
  <2>3. QED
    BY <2>1, <2>2
<1>12. Recorded'
  <2>1. ASSUME NEW j \in DOMAIN chain
        PROVE  /\ chain[j].key \in DOMAIN saved'
               /\ chain[j].epoch <= saved'[chain[j].key].epoch
               /\ \A i \in DOMAIN chain : i <= j => Names(chain[i], saved'[chain[j].key])
    BY <1>3, <1>4, <1>8, <1>9 DEF ChainInv, Recorded
  <2>2. Last.epoch <= t'.epoch
    BY <1>1, <1>6
  <2>3. /\ saved'[key'].epoch = t'.epoch /\ saved'[key'].metaEpoch = t'.metaEpoch
        /\ saved'[key'].epochMetaBlockHash = t'.epochMetaBlockHash
    BY <1>3
  <2>4. QED
    BY <1>4, <1>9, <2>1, <2>2, <2>3 DEF Recorded, Names
<1>13. QED
  BY <1>5, <1>10, <1>11, <1>12 DEF ChainInv

LEMMA CheckEpochStartIInv ==
    ASSUME IInv, NEW h \in MetaHashes, CheckEpochStart(h), UNCHANGED chainVars
    PROVE  IInv'
<1> DEFINE e == MetaHdr[h].epoch
<1>1. TriggerTypeOK /\ ChainTypeOK /\ ChainInv /\ Confirmed /\ TypeOK
  BY IInvParts DEF IInv
<1>2. h \in StartHashes /\ h \in mapEpochStartHdrs /\ e \in Epochs
  BY <1>1, HeaderType DEF CheckEpochStart, TriggerTypeOK
<1>3. ChainTypeOK' /\ UNCHANGED <<chain, used, processing, shardStart, netVars, calls>>
  BY <1>1 DEF ChainTypeOK, chainVars, faultVars, CheckEpochStart
<1>4. /\ mapHashHdr \subseteq mapHashHdr' /\ mapHashHdr' \subseteq MetaHashes
      /\ todo' \subseteq mapEpochStartHdrs /\ requested' = requested
      /\ UNCHANGED <<mapEpochStartHdrs, requestedFinalityAttestingBlock>>
  <2>1. Fetched(h) \subseteq MetaHashes
    BY <1>1 DEF Fetched, NextHeaders, OnTopOf, TriggerTypeOK
  <2>2. QED
    BY <1>1, <2>1 DEF CheckEpochStart, TriggerTypeOK
<1>5. missing' \in [KindSet -> SUBSET StartHashes]
  <2>1. CASE SyncFails(h)
    BY <1>1, <1>2, <2>1 DEF SyncFails, TriggerTypeOK
  <2>2. CASE Activate(h)
    BY <1>1, <2>2 DEF Activate, TriggerTypeOK
  <2>3. CASE missing' = missing
    BY <1>1, <2>3 DEF TriggerTypeOK
  <2>4. QED
    BY <2>1, <2>2, <2>3 DEF CheckEpochStart
<1>6. CASE UNCHANGED <<t, key, saved, epochStartMeta, mapFinalizedEpochs, metaStart>>
  <2>1. TriggerTypeOK'
    BY <1>1, <1>3, <1>4, <1>5, <1>6 DEF TriggerTypeOK, netVars
  <2>2. ChainInv'
    BY <1>1, <1>3, <1>6, ChainInvUnchanged
  <2>3. Attested(t)'
    BY <1>1, <1>6 DEF Confirmed, Attested
  <2>4. Confirmed'
    BY <1>1, <1>3, <1>6, <2>3, ConfirmedUnchanged DEF netVars, Confirmed
  <2>5. QED
    BY <1>3, <2>1, <2>2, <2>4, IInvPartsNext
<1>7. CASE /\ isMetaBlockFinal(h)
           /\ mapFinalizedEpochs' = [mapFinalizedEpochs EXCEPT ![e] = h]
           /\ metaStart' = [metaStart EXCEPT ![e] = h]
           /\ \/ ActivatesEpoch(h) /\ Activate(h)
              \/ UNCHANGED <<t, key, saved, epochStartMeta>>
  <2>1. /\ mapFinalizedEpochs' \in [Epochs -> mapEpochStartHdrs \cup {NoHash}]
        /\ metaStart' \in [Epochs -> StartHashes \cup {NoHash}]
    BY <1>1, <1>2, <1>7 DEF TriggerTypeOK
  <2>2. StartsEpoch(h, e)
    BY <1>1, <1>2, <1>7, FinalIsAttested DEF Confirmed, StartsEpoch
  <2>3. \A d \in Epochs :
          /\ mapFinalizedEpochs'[d] # NoHash => StartsEpoch(mapFinalizedEpochs'[d], d)
          /\ metaStart'[d] # NoHash => StartsEpoch(metaStart'[d], d)
    <3>1. \A d \in Epochs : d # e => /\ mapFinalizedEpochs'[d] = mapFinalizedEpochs[d]
                                     /\ metaStart'[d] = metaStart[d]
      BY <1>1, <1>7 DEF TriggerTypeOK
    <3>2. mapFinalizedEpochs'[e] = h /\ metaStart'[e] = h
      BY <1>1, <1>2, <1>7 DEF TriggerTypeOK
    <3>3. QED
      BY <1>1, <2>2, <3>1, <3>2 DEF Confirmed
  <2>4. CASE ActivatesEpoch(h) /\ Activate(h)
    <3>1. /\ t' \in Registry /\ Attested(t)' /\ Save(MetaHdr[h].round, t')
          /\ t'.epochMetaBlockHash = h
      BY <1>2, <1>7, <2>4, ActivateMoves
    <3>2. MetaHdr[h].round \in Rounds /\ epochStartMeta' = h
      BY <2>4, HeaderType DEF Activate
    <3>3. /\ key' = MetaHdr[h].round /\ DOMAIN saved' = DOMAIN saved \cup {key'}
          /\ saved'[key'] = t'
          /\ \A j \in DOMAIN saved : j # key' => saved'[j] = saved[j]
          /\ key' \in Rounds /\ key' \in DOMAIN saved' /\ DOMAIN saved' \subseteq Rounds
          /\ \A j \in DOMAIN saved' : saved'[j] \in Registry
      BY <1>1, <3>1, <3>2, SaveMoves
    <3>4. TriggerTypeOK'
      BY <1>1, <1>2, <1>3, <1>4, <1>5, <2>1, <3>1, <3>2, <3>3 DEF TriggerTypeOK, netVars
    <3>5. ChainInv'
      BY <1>2, <1>3, <1>7, <2>4, ActivateChainInv
    <3>6. Attested(t')
      BY <3>1 DEF Attested
    <3>7. \A j \in DOMAIN saved' : Attested(saved'[j])
      BY <1>1, <3>3, <3>6 DEF Confirmed
    <3>8. Confirmed'
      BY <1>1, <1>3, <2>3, <3>1, <3>2, <3>6, <3>7 DEF Confirmed, netVars
    <3>9. QED
      BY <1>3, <3>4, <3>5, <3>8, IInvPartsNext
  <2>5. CASE UNCHANGED <<t, key, saved, epochStartMeta>>
    <3>1. TriggerTypeOK'
      BY <1>1, <1>3, <1>4, <1>5, <2>1, <2>5 DEF TriggerTypeOK, netVars
    <3>2. ChainInv'
      BY <1>1, <1>3, <2>5, ChainInvUnchanged
    <3>3. Confirmed'
      BY <1>1, <1>3, <2>3, <2>5 DEF Confirmed, netVars
    <3>4. QED
      BY <1>3, <3>1, <3>2, <3>3, IInvPartsNext
  <2>6. QED
    BY <1>7, <2>4, <2>5
<1>8. QED
  BY <1>6, <1>7 DEF CheckEpochStart
----------------------------------------------------------------------------
(* Steps of the block processor *)

\* What a block that is processed or committed is.
LEMMA ProcessingType ==
    ASSUME TypeOK, processing.at \in {"checked", "processed"}
    PROVE  /\ processing # NoBlock /\ processing.block \in Blocks
           /\ processing \in [at : {"checked", "processed"}, block : Blocks]
<1>1. NoBlock.at = "none"
  BY DEF NoBlock
<1>2. processing # NoBlock
  BY <1>1
<1>3. QED
  BY <1>2 DEF TypeOK

\* A step that leaves the trigger alone.
LEMMA TriggerUnchanged ==
    ASSUME IInv, UNCHANGED <<netVars, calls, missingVars, triggerVars>>
    PROVE  TriggerTypeOK' /\ Confirmed'
<1>1. TriggerTypeOK'
  BY DEF IInv, TypeOK, TriggerTypeOK, netVars, missingVars, triggerVars, mapVars
<1>2. Attested(t)'
  BY DEF IInv, Confirmed, Attested, triggerVars
<1>3. Confirmed'
  BY <1>2, ConfirmedUnchanged DEF IInv, Confirmed, netVars, triggerVars, mapVars
<1>4. QED
  BY <1>1, <1>3

\* The checks of a block.
LEMMA ProcessBlockIInv ==
    ASSUME IInv, NEW b \in Proposals, ProcessBlock(b)
    PROVE  IInv'
<1>1. TriggerTypeOK /\ ChainTypeOK /\ ChainInv /\ TypeOK
  BY IInvParts DEF IInv
<1>2. TriggerTypeOK' /\ Confirmed'
  BY TriggerUnchanged DEF ProcessBlock
<1>3. Last \in Blocks
  BY <1>1, LastType
<1>4. /\ b \in Blocks /\ b.prev = Last.round /\ b.round \notin used
      /\ ~IsStart(b) => b.epoch = Last.epoch
  <2>1. b \in [round : Rounds \ used, prev : {Last.round}, epoch : Epochs,
               metaHash : StartHashes \cup {NoHash}, key : {Last.key}]
    BY DEF Proposals
  <2>2. StartHashes \cup {NoHash} \subseteq HashOrNone
    BY DEF StartHashes, HashOrNone
  <2>3. b \in Blocks
    BY <1>3, <2>1, <2>2 DEF Blocks
  <2>4. QED
    BY <2>1, <2>3 DEF Proposals
<1>5. /\ processing' = [at |-> "checked", block |-> b] /\ UNCHANGED <<chain, final, used, faultVars>>
      /\ UNCHANGED <<t, key, saved, shardStart>> /\ checkEpochCorrectness(b)
  BY DEF ProcessBlock, triggerVars
<1>6. processing' \in [at : {"checked", "processed"}, block : Blocks]
  BY <1>4, <1>5
<1>7. ChainTypeOK'
  BY <1>1, <1>5, <1>6 DEF ChainTypeOK, faultVars
<1>8. Last' = Last
  BY <1>5 DEF Last
<1>9. Chained' /\ Recorded' /\ Fitting' /\ StoredStartIsCommitted'
  BY <1>1, <1>5, <1>8
  DEF ChainInv, Chained, Recorded, Names, Fitting, Fits, StoredStartIsCommitted
<1>10. b.epoch <= t.metaEpoch /\ Names(b, t)
  BY <1>5 DEF checkEpochCorrectness, EpochIsKnown, EpochStartMetaHashIsCorrect, Names
<1>11. IsStart(b) => b.epoch > Last.epoch
  <2>1. b.epoch >= Last.epoch /\ (IsStart(b) => b.epoch # Last.epoch)
    BY <1>5 DEF checkEpochCorrectness, EpochIsKnown
  <2>2. b.epoch \in Nat /\ Last.epoch \in Nat
    BY <1>3, <1>4, TriggerAssumption DEF Blocks, Epochs
  <2>3. QED
    BY <2>1, <2>2
<1>12. processing'.block = b /\ processing'.at # "processed"
  BY <1>5
<1>13. Checked'
  BY <1>4, <1>5, <1>8, <1>10, <1>11, <1>12 DEF Checked, Names
<1>14. QED
  BY <1>2, <1>7, <1>9, <1>13, IInvPartsNext DEF ChainInv

\* The trigger is told of a start of epoch block: it is not behind the block, since the
\* block was checked and the newest epoch the trigger knows only grew since then.
LEMMA SetProcessedMoves ==
    ASSUME IInv, processing.at = "checked", NEW b, b = processing.block, IsStart(b),
           SetProcessed(HeaderOf(b), b.metaHash)
    PROVE  /\ t' \in Registry /\ Save(b.round, t')
           /\ t'.epoch = b.epoch /\ t'.metaEpoch = t.metaEpoch
           /\ t'.epochMetaBlockHash = t.epochMetaBlockHash
           /\ t'.epochStartShardHeader = HeaderOf(b) /\ Attested(t)'
<1>1. t \in Registry /\ Attested(t) /\ TypeOK
  BY DEF IInv, TypeOK, TriggerTypeOK, Confirmed
<1>2. processing # NoBlock /\ b \in Blocks
  BY <1>1, ProcessingType
<1>3. b.epoch <= t.metaEpoch
  BY <1>2 DEF IInv, Checked
<1>4. HeaderOf(b) \in StartHeaders /\ HeaderOf(b).epoch = b.epoch /\ HeaderOf(b).round = b.round
  BY <1>2 DEF HeaderOf, StartHeaders, Blocks
<1>5. b.epoch \in Nat /\ t.metaEpoch \in Nat
  BY <1>1, <1>2, TriggerAssumption DEF Blocks, Registry, Epochs
<1>6. ~(t.metaEpoch < HeaderOf(b).epoch)
  BY <1>3, <1>4, <1>5
<1>7. t' = [t EXCEPT !.epoch = b.epoch, !.metaEpoch = t.metaEpoch,
                     !.epochMetaBlockHash = t.epochMetaBlockHash,
                     !.isEpochStart = FALSE, !.newEpochHdrReceived = FALSE,
                     !.epochStartShardHeader = HeaderOf(b)]
  BY <1>1, <1>4, <1>6 DEF SetProcessed, Registry
<1>8. Save(b.round, t')
  BY <1>4 DEF SetProcessed, SaveProcessed
<1>9. t' \in Registry
  BY <1>1, <1>2, <1>4, <1>7 DEF Registry, Blocks
<1>10. /\ t'.epoch = b.epoch /\ t'.metaEpoch = t.metaEpoch
       /\ t'.epochMetaBlockHash = t.epochMetaBlockHash
       /\ t'.epochStartShardHeader = HeaderOf(b)
       /\ t'.epochStartRound = t.epochStartRound
       /\ t'.epochFinalityAttestingRound = t.epochFinalityAttestingRound
  BY <1>1, <1>7 DEF Registry
<1>11. Attested(t)'
  BY <1>1, <1>3, <1>10 DEF Attested
<1>12. QED
  BY <1>8, <1>9, <1>10, <1>11

LEMMA SetProcessedIInv ==
    ASSUME IInv, processing.at = "checked", NEW b, b = processing.block, IsStart(b),
           SetProcessed(HeaderOf(b), b.metaHash),
           processing' = [processing EXCEPT !.at = "processed"],
           UNCHANGED <<chain, final, used, faultVars>>
    PROVE  IInv'
<1>1. TriggerTypeOK /\ ChainTypeOK /\ ChainInv /\ Confirmed /\ TypeOK
  BY IInvParts DEF IInv
<1>2. /\ processing # NoBlock /\ b \in Blocks
      /\ processing \in [at : {"checked", "processed"}, block : Blocks]
  BY <1>1, ProcessingType
<1>3. /\ t' \in Registry /\ Save(b.round, t')
      /\ t'.epoch = b.epoch /\ t'.metaEpoch = t.metaEpoch
      /\ t'.epochMetaBlockHash = t.epochMetaBlockHash
      /\ t'.epochStartShardHeader = HeaderOf(b) /\ Attested(t)'
  BY SetProcessedMoves
<1>4. b.round \in Rounds /\ b.epoch \in Epochs
  BY <1>2 DEF Blocks
<1>5. /\ key' = b.round /\ DOMAIN saved' = DOMAIN saved \cup {key'} /\ saved'[key'] = t'
      /\ \A j \in DOMAIN saved : j # key' => saved'[j] = saved[j]
      /\ key' \in Rounds /\ key' \in DOMAIN saved' /\ DOMAIN saved' \subseteq Rounds
      /\ \A j \in DOMAIN saved' : saved'[j] \in Registry
  BY <1>1, <1>3, <1>4, SaveMoves
<1>6. HeaderOf(b) = [round |-> b.round, prev |-> b.prev, epoch |-> b.epoch]
      /\ HeaderOf(b) \in StartHeaders
  BY <1>2 DEF HeaderOf, Blocks, StartHeaders
<1>7. /\ mapHashHdr' = {} /\ mapEpochStartHdrs' = {} /\ mapFinalizedEpochs' = NoneFinalized
      /\ shardStart' = [shardStart EXCEPT ![b.epoch] = HeaderOf(b)]
      /\ metaStart' = [e \in Epochs |-> IF mapFinalizedEpochs[e] # NoHash
                                          THEN mapFinalizedEpochs[e] ELSE metaStart[e]]
      /\ UNCHANGED <<netVars, calls, missingVars, epochStartMeta,
                     requestedFinalityAttestingBlock, todo>> /\ todo = {}
  BY <1>6 DEF SetProcessed, ForgetFinalized, Unlocked
<1>8. metaStart' \in [Epochs -> StartHashes \cup {NoHash}]
  BY <1>1, <1>7 DEF TriggerTypeOK
<1>9. /\ shardStart' \in [Epochs -> StartHeaders \cup {NoHeader}]
      /\ shardStart'[b.epoch] = HeaderOf(b)
      /\ \A e \in Epochs : e # b.epoch => shardStart'[e] = shardStart[e]
  BY <1>1, <1>4, <1>6, <1>7 DEF TriggerTypeOK
<1>10. TriggerTypeOK'
  BY <1>1, <1>3, <1>5, <1>7, <1>8, <1>9 DEF TriggerTypeOK, NoneFinalized, netVars, missingVars
<1>11. /\ processing' \in [at : {"checked", "processed"}, block : Blocks]
       /\ processing'.block = b /\ processing'.at = "processed"
  BY <1>2
<1>12. ChainTypeOK'
  BY <1>1, <1>11 DEF ChainTypeOK, faultVars
<1>13. Confirmed'
  <2>1. \A e \in Epochs : /\ mapFinalizedEpochs'[e] = NoHash
                          /\ metaStart'[e] # NoHash => StartsEpoch(metaStart'[e], e)
    BY <1>1, <1>7 DEF NoneFinalized, Confirmed
  <2>2. Attested(t')
    BY <1>3 DEF Attested
  <2>3. \A j \in DOMAIN saved' : Attested(saved'[j])
    BY <1>1, <1>5, <2>2 DEF Confirmed
  <2>4. QED
    BY <1>1, <1>3, <1>7, <2>1, <2>2, <2>3 DEF Confirmed, netVars
<1>14. Last' = Last /\ Last \in Blocks
  BY <1>1, LastType DEF Last
<1>15. /\ b.prev = Last.round /\ b.round \notin used /\ b.epoch <= t.metaEpoch /\ Names(b, t)
       /\ b.epoch > Last.epoch
  BY <1>1, <1>2 DEF ChainInv, Checked
<1>16. \A i \in DOMAIN chain : /\ chain[i].epoch < b.epoch /\ chain[i].epoch \in Nat
                               /\ chain[i].epoch \in Epochs
  <2>1. \A i \in DOMAIN chain : chain[i].epoch <= Last.epoch /\ chain[i] \in Blocks
    BY <1>1, LastIsNewest, LastType DEF ChainInv
  <2>2. \A c \in Blocks : c.epoch \in Nat /\ c.epoch \in Epochs
    BY TriggerAssumption DEF Blocks, Epochs
  <2>3. QED
    BY <1>2, <1>14, <1>15, <2>1, <2>2
<1>17. b.epoch \in Nat /\ Last.epoch \in Nat
  BY <1>2, <1>14, TriggerAssumption DEF Blocks, Epochs
<1>18. Chained'
  BY <1>1 DEF ChainInv, Chained
<1>19. Checked'
  BY <1>3, <1>9, <1>11, <1>14, <1>15 DEF Checked, Names
<1>20. Recorded'
  <2>1. \A i \in DOMAIN chain : Names(chain[i], t')
    BY <1>1, <1>3 DEF ChainInv, Recorded, Names
  <2>2. ASSUME NEW j \in DOMAIN chain
        PROVE  /\ chain[j].key \in DOMAIN saved'
               /\ chain[j].epoch <= saved'[chain[j].key].epoch
               /\ \A i \in DOMAIN chain : i <= j => Names(chain[i], saved'[chain[j].key])
    <3>1. CASE chain[j].key = key'
      BY <1>3, <1>5, <1>16, <1>17, <2>1, <3>1
    <3>2. CASE chain[j].key # key'
      BY <1>1, <1>5, <3>2 DEF ChainInv, Recorded
    <3>3. QED
      BY <3>1, <3>2
  <2>3. Last.epoch <= t'.epoch
    BY <1>3, <1>15, <1>17
  <2>4. QED
    BY <1>5, <1>14, <2>1, <2>2, <2>3 DEF Recorded, Names
<1>21. Fitting'
  <2>1. Fits(HeaderOf(b))
    <3>1. Last.round \in used
      BY <1>1, LastType DEF ChainInv, Chained
    <3>2. HeaderOf(b).prev \in used /\ HeaderOf(b).epoch = b.epoch
      BY <1>6, <1>15, <3>1
    <3>3. QED
      BY <1>16, <3>2 DEF Fits
  <2>2. /\ \A j \in DOMAIN saved' : Fits(saved'[j].epochStartShardHeader)
        /\ Fits(t'.epochStartShardHeader)
    BY <1>1, <1>3, <1>5, <2>1 DEF ChainInv, Fitting
  <2>3. \A e \in Epochs : shardStart'[e] # NoHeader => Fits(shardStart'[e])
    BY <1>1, <1>9, <2>1 DEF ChainInv, Fitting
  <2>4. QED
    BY <2>2, <2>3 DEF Fitting, Fits
<1>22. StoredStartIsCommitted'
  <2>1. \A i \in DOMAIN chain : chain[i].epoch # b.epoch
    BY <1>16, <1>17
  <2>2. QED
    BY <1>1, <1>9, <1>16, <2>1 DEF ChainInv, StoredStartIsCommitted
<1>23. QED
  BY <1>10, <1>12, <1>13, <1>18, <1>19, <1>20, <1>21, <1>22, IInvPartsNext DEF ChainInv

LEMMA CommitStartIInv ==
    ASSUME IInv, CommitStart
    PROVE  IInv'
<1> DEFINE b == processing.block
<1>1. /\ processing.at = "checked" /\ processing' = [processing EXCEPT !.at = "processed"]
      /\ UNCHANGED <<chain, final, used, faultVars>>
  BY DEF CommitStart
<1>2. CASE IsStart(b)
  <2>1. SetProcessed(HeaderOf(b), b.metaHash)
    BY <1>2 DEF CommitStart
  <2>2. QED
    BY <1>1, <1>2, <2>1, SetProcessedIInv
<1>3. CASE ~IsStart(b)
  <2>1. UNCHANGED <<netVars, calls, missingVars, triggerVars>>
    BY <1>3 DEF CommitStart
  <2>2. TriggerTypeOK' /\ Confirmed'
    BY <2>1, TriggerUnchanged
  <2>3. TypeOK /\ ChainTypeOK /\ ChainInv
    BY IInvParts DEF IInv
  <2>4. /\ processing # NoBlock
        /\ processing \in [at : {"checked", "processed"}, block : Blocks]
    BY <1>1, <2>3, ProcessingType
  <2>5. /\ processing' \in [at : {"checked", "processed"}, block : Blocks]
        /\ processing'.block = b
    BY <1>1, <2>4
  <2>6. ChainTypeOK'
    BY <1>1, <2>3, <2>5 DEF ChainTypeOK, faultVars
  <2>7. Last' = Last /\ UNCHANGED <<t, key, saved, shardStart>>
    BY <1>1, <2>1 DEF Last, triggerVars
  <2>8. Chained' /\ Recorded' /\ Fitting' /\ StoredStartIsCommitted'
    BY <1>1, <2>3, <2>7
    DEF ChainInv, Chained, Recorded, Names, Fitting, Fits, StoredStartIsCommitted
  <2>9. Checked'
    BY <1>1, <1>3, <2>3, <2>4, <2>5, <2>7 DEF ChainInv, Checked, Names
  <2>10. QED
    BY <2>2, <2>6, <2>8, <2>9, IInvPartsNext DEF ChainInv
<1>4. QED
  BY <1>2, <1>3
\* The block joins the chain, with the key of the state that covers it.
LEMMA CommitEndIInv ==
    ASSUME IInv, CommitEnd
    PROVE  IInv'
<1> DEFINE b == processing.block
           nb == [b EXCEPT !.key = key]
           n == Len(chain)
<1>1. TriggerTypeOK /\ ChainTypeOK /\ ChainInv /\ TypeOK
  BY IInvParts DEF IInv
<1>2. /\ processing.at = "processed" /\ chain' = Append(chain, nb)
      /\ used' = used \cup {b.round} /\ processing' = NoBlock
      /\ UNCHANGED <<final, faultVars>> /\ UNCHANGED <<t, key, saved, shardStart>>
  BY DEF CommitEnd, triggerVars
<1>3. TriggerTypeOK' /\ Confirmed'
  BY TriggerUnchanged DEF CommitEnd
<1>4. processing # NoBlock /\ b \in Blocks
  BY <1>1, <1>2, ProcessingType
<1>5. /\ nb \in Blocks /\ nb.key = key /\ nb.round = b.round /\ nb.prev = b.prev
      /\ nb.epoch = b.epoch /\ nb.metaHash = b.metaHash
  BY <1>1, <1>4 DEF Blocks, TriggerTypeOK
<1>6. /\ b.prev = Last.round /\ b.round \notin used /\ Names(b, t)
      /\ IsStart(b) => /\ b.epoch > Last.epoch /\ t.epoch = b.epoch
                       /\ shardStart[b.epoch] = HeaderOf(b)
      /\ ~IsStart(b) => b.epoch = Last.epoch
  BY <1>1, <1>2, <1>4 DEF ChainInv, Checked
<1>7. /\ n \in Nat /\ n >= 1 /\ DOMAIN chain = 1 .. n /\ Last = chain[n] /\ n \in DOMAIN chain
      /\ \A i \in 1 .. n : chain[i] \in Blocks
  BY <1>1, LastType
<1> HIDE DEF nb
<1>8. /\ chain' \in Seq(Blocks) /\ Len(chain') = n + 1 /\ DOMAIN chain' = 1 .. n + 1
      /\ chain'[n + 1] = nb /\ \A i \in 1 .. n : chain'[i] = chain[i]
  BY <1>1, <1>2, <1>5, <1>7 DEF ChainTypeOK
<1> HIDE DEF b, n
<1>9. ChainTypeOK'
  <2>1. used' \subseteq Rounds
    BY <1>1, <1>2, <1>4 DEF ChainTypeOK, Blocks
  <2>2. final' \in 1 .. Len(chain')
    BY <1>1, <1>2, <1>7, <1>8 DEF ChainTypeOK, n
  <2>3. QED
    BY <1>1, <1>2, <1>8, <2>1, <2>2 DEF ChainTypeOK, faultVars
<1>10. Last' = nb
  BY <1>8 DEF Last
<1>11. b.epoch \in Nat /\ Last.epoch \in Nat /\ t.epoch \in Nat
  BY <1>1, <1>4, <1>7, TriggerAssumption DEF Blocks, Epochs, TriggerTypeOK, Registry
<1>12. Last.epoch <= t.epoch /\ \A i \in 1 .. n : chain[i].epoch <= Last.epoch
  BY <1>1, <1>7, LastIsNewest DEF ChainInv, Recorded
<1>13. Last.epoch <= b.epoch /\ b.epoch <= t.epoch
  BY <1>6, <1>11, <1>12
<1>14. \A i \in 1 .. n : chain[i].epoch \in Nat /\ chain[i].epoch <= b.epoch
  <2>1. \A i \in 1 .. n : chain[i].epoch \in Nat
    BY <1>7, TriggerAssumption DEF Blocks, Epochs
  <2>2. QED
    BY <1>11, <1>12, <1>13, <2>1
<1>15. Chained'
  <2>1. ASSUME NEW i \in 1 .. n + 1
        PROVE  /\ chain'[i].round \in used'
               /\ i > 1 => chain'[i].prev = chain'[i - 1].round
    <3>1. CASE i = n + 1
      BY <1>2, <1>5, <1>6, <1>7, <1>8, <3>1
    <3>2. CASE i \in 1 .. n
      <4>1. i > 1 => i - 1 \in 1 .. n
        BY <1>7, <3>2
      <4>2. QED
        BY <1>1, <1>2, <1>7, <1>8, <3>2, <4>1 DEF ChainInv, Chained
    <3>3. QED
      BY <1>7, <3>1, <3>2
  <2>2. ASSUME NEW i \in 1 .. n + 1, NEW j \in 1 .. n + 1, i <= j
        PROVE  chain'[i].epoch <= chain'[j].epoch
    <3>1. CASE j = n + 1
      <4>1. CASE i = n + 1
        BY <1>5, <1>8, <1>11, <3>1, <4>1
      <4>2. CASE i \in 1 .. n
        BY <1>5, <1>8, <1>14, <3>1, <4>2
      <4>3. QED
        BY <1>7, <4>1, <4>2
    <3>2. CASE j \in 1 .. n
      <4>1. i \in 1 .. n
        BY <1>7, <2>2, <3>2
      <4>2. QED
        BY <1>1, <1>7, <1>8, <2>2, <3>2, <4>1 DEF ChainInv, Chained
    <3>3. QED
      BY <1>7, <3>1, <3>2
  <2>3. QED
    BY <1>8, <2>1, <2>2 DEF Chained
<1>16. Checked'
  BY <1>2 DEF Checked
<1>17. Names(nb, t)
  BY <1>5, <1>6 DEF Names, IsStart
<1>18. \A i \in DOMAIN chain' : chain'[i] = nb \/ (i \in DOMAIN chain /\ chain'[i] = chain[i])
  BY <1>7, <1>8
<1>19. Recorded'
  <2>1. \A i \in DOMAIN chain' : Names(chain'[i], t) /\ Names(chain'[i], saved[key])
    BY <1>1, <1>17, <1>18 DEF ChainInv, Recorded, Names
  <2>2. ASSUME NEW j \in DOMAIN chain'
        PROVE  /\ chain'[j].key \in DOMAIN saved
               /\ chain'[j].epoch <= saved[chain'[j].key].epoch
               /\ \A i \in DOMAIN chain' : i <= j => Names(chain'[i], saved[chain'[j].key])
    <3>1. CASE j = n + 1
      <4>1. chain'[j].key = key /\ chain'[j].epoch = b.epoch
        BY <1>5, <1>8, <3>1
      <4>2. key \in DOMAIN saved /\ saved[key].epoch = t.epoch
        BY <1>1 DEF ChainInv, Recorded, TriggerTypeOK
      <4>3. QED
        BY <1>13, <2>1, <4>1, <4>2
    <3>2. CASE j \in 1 .. n
      <4>1. \A i \in DOMAIN chain' : i <= j => i \in 1 .. n
        BY <1>7, <1>8, <3>2
      <4>2. QED
        BY <1>1, <1>7, <1>8, <3>2, <4>1 DEF ChainInv, Recorded
    <3>3. QED
      BY <1>7, <1>8, <3>1, <3>2
  <2>3. Last'.epoch <= t.epoch
    BY <1>5, <1>10, <1>13
  <2>4. QED
    BY <1>1, <1>2, <2>1, <2>2, <2>3 DEF ChainInv, Recorded, Names
<1>20. Fitting'
  <2>1. \A header : Fits(header) =>
          /\ header.prev # NoRound => header.prev \in used'
          /\ \A i \in DOMAIN chain' : chain'[i].round = header.prev /\ header.prev # NoRound
                                        => chain'[i].epoch < header.epoch
    BY <1>2, <1>5, <1>6, <1>18 DEF Fits
  <2>2. QED
    BY <1>1, <1>2, <2>1 DEF ChainInv, Fitting, Fits
<1>21. StoredStartIsCommitted'
  <2>1. IsStart(nb) => shardStart[nb.epoch] = HeaderOf(nb)
    BY <1>5, <1>6 DEF IsStart, HeaderOf
  <2>2. QED
    BY <1>1, <1>2, <1>18, <2>1 DEF ChainInv, StoredStartIsCommitted
<1>22. QED
  BY <1>3, <1>9, <1>15, <1>16, <1>19, <1>20, <1>21, IInvPartsNext DEF ChainInv

\* A commit that is given up leaves the trigger told of the block.
LEMMA GiveUpIInv ==
    ASSUME IInv, CommitIsLate \/ CommitFails
    PROVE  IInv'
<1>1. ChainTypeOK /\ ChainInv
  BY IInvParts
<1>2. /\ processing' = NoBlock /\ UNCHANGED <<netVars, calls, missingVars, triggerVars>>
      /\ UNCHANGED <<chain, final, used, rollBacks, restarts>>
  BY DEF CommitIsLate, CommitFails, GiveUp
<1>3. TriggerTypeOK' /\ Confirmed'
  BY <1>2, TriggerUnchanged
<1>4. failures' \in 0 .. MaxFailures
  BY <1>1, ChangeAssumption DEF CommitIsLate, CommitFails, ChainTypeOK
<1>5. ChainTypeOK'
  BY <1>1, <1>2, <1>4 DEF ChainTypeOK
<1>6. Last' = Last /\ UNCHANGED <<t, key, saved, shardStart>>
  BY <1>2 DEF Last, triggerVars
<1>7. Chained' /\ Checked' /\ Recorded' /\ Fitting' /\ StoredStartIsCommitted'
  BY <1>1, <1>2, <1>6
  DEF ChainInv, Chained, Checked, Recorded, Names, Fitting, Fits, StoredStartIsCommitted
<1>8. QED
  BY <1>3, <1>5, <1>7, IInvPartsNext DEF ChainInv

LEMMA FinalizeIInv ==
    ASSUME IInv, Finalize
    PROVE  IInv'
<1>1. ChainTypeOK /\ ChainInv
  BY IInvParts
<1>2. TriggerTypeOK' /\ Confirmed'
  BY TriggerUnchanged DEF Finalize
<1>3. ChainTypeOK'
  BY <1>1 DEF ChainTypeOK, Finalize, faultVars
<1>4. ChainInv'
  BY <1>1, ChainInvUnchanged DEF Finalize, triggerVars
<1>5. QED
  BY <1>2, <1>3, <1>4, IInvPartsNext

\* A rollback behind a start of epoch block takes up an earlier header, and removes one
\* whose epoch the chain does not reach any more.
LEMMA RevertMoves ==
    ASSUME IInv, NEW round, RevertStateToBlock(round)
    PROVE  /\ t' \in Registry /\ Attested(t)'
           /\ t'.epoch = t.epoch /\ t'.metaEpoch = t.metaEpoch
           /\ t'.epochMetaBlockHash = t.epochMetaBlockHash
           /\ \/ t'.epochStartShardHeader = t.epochStartShardHeader
              \/ t'.epochStartShardHeader = EmptyHeader
              \/ \E e \in Epochs : /\ shardStart[e] # NoHeader
                                   /\ t'.epochStartShardHeader = shardStart[e]
           /\ shardStart' \in [Epochs -> StartHeaders \cup {NoHeader}]
           /\ \A e \in Epochs : \/ shardStart'[e] = shardStart[e]
                                \/ /\ shardStart'[e] = NoHeader
                                   /\ e = t.epochStartShardHeader.epoch
                                   /\ t.epochStartShardHeader.prev = round
<1> DEFINE last == t.epochStartShardHeader
           earlier == {e \in 1 .. last.epoch - 1 : shardStart[e] # NoHeader}
<1>1. /\ t \in Registry /\ Attested(t)
      /\ shardStart \in [Epochs -> StartHeaders \cup {NoHeader}]
  BY DEF IInv, TypeOK, TriggerTypeOK, Confirmed
<1>2. CASE UNCHANGED <<t, shardStart>>
  BY <1>1, <1>2 DEF Attested
<1>3. ASSUME NEW hd \in StartHeaders,
             t' = [t EXCEPT !.epochStartShardHeader = hd, !.isEpochStart = TRUE,
                            !.newEpochHdrReceived = TRUE]
      PROVE  /\ t' \in Registry /\ Attested(t)' /\ t'.epochStartShardHeader = hd
             /\ t'.epoch = t.epoch /\ t'.metaEpoch = t.metaEpoch
             /\ t'.epochMetaBlockHash = t.epochMetaBlockHash
  <2>1. t' \in Registry
    BY <1>1, <1>3 DEF Registry
  <2>2. /\ t'.epochStartShardHeader = hd
        /\ t'.epoch = t.epoch /\ t'.metaEpoch = t.metaEpoch
        /\ t'.epochMetaBlockHash = t.epochMetaBlockHash
        /\ t'.epochStartRound = t.epochStartRound
        /\ t'.epochFinalityAttestingRound = t.epochFinalityAttestingRound
    BY <1>1, <1>3 DEF Registry
  <2>3. Attested(t)'
    BY <1>1, <2>2 DEF Attested
  <2>4. QED
    BY <2>1, <2>2, <2>3
<1>4. CASE /\ t' = [t EXCEPT !.epochStartShardHeader = EmptyHeader, !.isEpochStart = TRUE,
                             !.newEpochHdrReceived = TRUE]
           /\ UNCHANGED shardStart
  <2>1. EmptyHeader \in StartHeaders
    BY TriggerAssumption DEF EmptyHeader, StartHeaders, Rounds, Epochs
  <2>2. QED
    BY <1>1, <1>3, <1>4, <2>1
<1>5. CASE /\ last.prev = round /\ earlier # {}
           /\ t' = [t EXCEPT !.epochStartShardHeader = shardStart[Max(earlier)],
                             !.isEpochStart = TRUE, !.newEpochHdrReceived = TRUE]
           /\ shardStart' = [shardStart EXCEPT ![last.epoch] = NoHeader]
  <2>1. last.epoch \in Epochs /\ MaxEpoch \in Nat
    BY <1>1, TriggerAssumption DEF Registry, StartHeaders
  <2>2. earlier \subseteq 0 .. MaxEpoch
    BY <2>1 DEF Epochs
  <2>3. Max(earlier) \in earlier
    BY <1>5, <2>1, <2>2, MaxIsGreatest
  <2>4. Max(earlier) \in Epochs /\ shardStart[Max(earlier)] # NoHeader
    BY <2>2, <2>3 DEF Epochs
  <2>5. shardStart[Max(earlier)] \in StartHeaders
    BY <1>1, <2>4
  <2>6. /\ shardStart' \in [Epochs -> StartHeaders \cup {NoHeader}]
        /\ \A e \in Epochs : shardStart'[e] = IF e = last.epoch THEN NoHeader ELSE shardStart[e]
    BY <1>1, <1>5
  <2>7. /\ t' \in Registry /\ Attested(t)' /\ t'.epochStartShardHeader = shardStart[Max(earlier)]
        /\ t'.epoch = t.epoch /\ t'.metaEpoch = t.metaEpoch
        /\ t'.epochMetaBlockHash = t.epochMetaBlockHash
    BY <1>3, <1>5, <2>5
  <2> HIDE DEF earlier
  <2>8. QED
    BY <1>5, <2>4, <2>6, <2>7
<1>6. QED
  BY <1>2, <1>4, <1>5 DEF RevertStateToBlock, RemovesReverted

LEMMA RollBackOneBlockIInv ==
    ASSUME IInv, RollBackOneBlock, rollBacks' \in 0 .. MaxRollBacks
    PROVE  IInv'
<1> DEFINE n == Len(chain)
           last == t.epochStartShardHeader
<1>1. TriggerTypeOK /\ ChainTypeOK /\ ChainInv /\ Confirmed /\ TypeOK
  BY IInvParts DEF IInv
<1>2. /\ processing = NoBlock /\ n > final /\ chain' = SubSeq(chain, 1, n - 1)
      /\ RevertStateToBlock(Last.prev)
      /\ UNCHANGED <<final, used, processing, failures, restarts>>
  BY DEF RollBackOneBlock
<1>3. /\ t' \in Registry /\ Attested(t)'
      /\ t'.epoch = t.epoch /\ t'.metaEpoch = t.metaEpoch
      /\ t'.epochMetaBlockHash = t.epochMetaBlockHash
      /\ \/ t'.epochStartShardHeader = last
         \/ t'.epochStartShardHeader = EmptyHeader
         \/ \E e \in Epochs : /\ shardStart[e] # NoHeader
                              /\ t'.epochStartShardHeader = shardStart[e]
      /\ shardStart' \in [Epochs -> StartHeaders \cup {NoHeader}]
      /\ \A e \in Epochs : \/ shardStart'[e] = shardStart[e]
                           \/ /\ shardStart'[e] = NoHeader
                              /\ e = last.epoch /\ last.prev = Last.prev
  BY <1>2, RevertMoves
<1>4. /\ UNCHANGED <<netVars, calls, missingVars, key, saved, mapVars, todo, metaStart>>
  BY <1>2 DEF RevertStateToBlock
<1>5. TriggerTypeOK'
  BY <1>1, <1>3, <1>4 DEF TriggerTypeOK, netVars, missingVars, mapVars
<1>6. Confirmed'
  BY <1>1, <1>3, <1>4, ConfirmedUnchanged DEF netVars, mapVars, Confirmed
<1>7. /\ n \in Nat /\ n >= 2 /\ final \in 1 .. n - 1 /\ DOMAIN chain = 1 .. n
      /\ Last = chain[n] /\ chain \in Seq(Blocks) /\ \A i \in 1 .. n : chain[i] \in Blocks
  BY <1>1, <1>2, LastType DEF ChainTypeOK
<1>8. /\ chain' \in Seq(Blocks) /\ Len(chain') = n - 1 /\ DOMAIN chain' = 1 .. n - 1
      /\ \A i \in 1 .. n - 1 : chain'[i] = chain[i]
  BY <1>2, <1>7
<1> HIDE DEF n
<1>9. ChainTypeOK'
  BY <1>1, <1>2, <1>7, <1>8 DEF ChainTypeOK
<1>10. Last' = chain[n - 1] /\ n - 1 \in 1 .. n /\ 1 .. n - 1 \subseteq 1 .. n
  BY <1>7, <1>8 DEF Last
<1>11. Chained'
  <2>1. \A i \in 1 .. n - 1 : i > 1 => i - 1 \in 1 .. n - 1
    BY <1>7
  <2>2. QED
    BY <1>1, <1>2, <1>7, <1>8, <1>10, <2>1 DEF ChainInv, Chained
<1>12. Checked'
  BY <1>2 DEF Checked
<1>13. \A i \in DOMAIN chain' : i \in DOMAIN chain /\ chain'[i] = chain[i]
  BY <1>7, <1>8, <1>10
<1>14. Recorded'
  <2>1. chain[n - 1].epoch <= chain[n].epoch
    BY <1>1, <1>7, <1>10 DEF ChainInv, Chained
  <2>2. chain[n - 1].epoch \in Nat /\ chain[n].epoch \in Nat /\ t.epoch \in Nat
    BY <1>1, <1>7, <1>10, TriggerAssumption DEF Blocks, Epochs, TriggerTypeOK, Registry
  <2>3. Last'.epoch <= t'.epoch
    BY <1>1, <1>3, <1>7, <1>10, <2>1, <2>2 DEF ChainInv, Recorded
  <2>4. UNCHANGED <<key, saved>>
    BY <1>4
  <2>5. QED
    BY <1>1, <1>3, <1>13, <2>3, <2>4 DEF ChainInv, Recorded, Names
<1>15. Fitting'
  <2>1. \A header : Fits(header) =>
          /\ header.prev # NoRound => header.prev \in used'
          /\ \A i \in DOMAIN chain' : chain'[i].round = header.prev /\ header.prev # NoRound
                                        => chain'[i].epoch < header.epoch
    BY <1>2, <1>13 DEF Fits
  <2>2. Fits(EmptyHeader)
    BY DEF Fits, EmptyHeader
  <2>3. Fits(t'.epochStartShardHeader)
    BY <1>1, <1>3, <2>2 DEF ChainInv, Fitting
  <2>4. \A e \in Epochs : shardStart'[e] # NoHeader => Fits(shardStart'[e])
    BY <1>1, <1>3 DEF ChainInv, Fitting
  <2>5. \A k \in DOMAIN saved' : Fits(saved'[k].epochStartShardHeader)
    BY <1>1, <1>4 DEF ChainInv, Fitting
  <2>6. QED
    BY <2>1, <2>3, <2>4, <2>5 DEF Fitting, Fits
<1>16. StoredStartIsCommitted'
  <2>1. ASSUME NEW i \in DOMAIN chain', IsStart(chain'[i])
        PROVE  shardStart'[chain'[i].epoch] = HeaderOf(chain'[i])
    <3>1. /\ i \in DOMAIN chain /\ chain'[i] = chain[i] /\ chain[i].epoch \in Epochs
          /\ shardStart[chain[i].epoch] = HeaderOf(chain[i]) /\ i <= n - 1
      BY <1>1, <1>7, <1>8, <1>13, <2>1 DEF ChainInv, StoredStartIsCommitted, Blocks
    <3>2. CASE last.prev = Last.prev
      <4>1. chain[n].prev = chain[n - 1].round
        BY <1>1, <1>7 DEF ChainInv, Chained
      <4>2. last.prev = chain[n - 1].round /\ chain[n - 1].round # NoRound
        <5>1. chain[n - 1].round \in Rounds
          BY <1>7, <1>10 DEF Blocks
        <5>2. QED
          BY <1>7, <3>2, <4>1, <5>1, TriggerAssumption DEF Rounds, NoRound
      <4>3. chain[n - 1].epoch < last.epoch
        BY <1>1, <1>7, <1>10, <4>2 DEF ChainInv, Fitting, Fits
      <4>4. chain[i].epoch <= chain[n - 1].epoch
        BY <1>1, <1>7, <1>10, <3>1 DEF ChainInv, Chained
      <4>5. chain[i].epoch \in Nat /\ chain[n - 1].epoch \in Nat /\ last.epoch \in Nat
        <5>1. chain[n - 1].epoch \in Epochs
          BY <1>7, <1>10 DEF Blocks
        <5>2. last.epoch \in Epochs
          BY <1>1 DEF TriggerTypeOK, Registry, StartHeaders
        <5> QED
          BY ONLY <3>1, <5>1, <5>2, TriggerAssumption DEF Epochs
      <4>6. chain[i].epoch # last.epoch
        BY <4>3, <4>4, <4>5
      <4>7. QED
        BY <1>3, <3>1, <4>6
    <3>3. CASE last.prev # Last.prev
      BY <1>3, <3>1, <3>3
    <3>4. QED
      BY <3>2, <3>3
  <2>2. QED
    BY <2>1 DEF StoredStartIsCommitted
<1>17. QED
  BY <1>5, <1>6, <1>9, <1>11, <1>12, <1>14, <1>15, <1>16, IInvPartsNext DEF ChainInv

\* A restart loads the state the last block's record names.
LEMMA RestartIInv ==
    ASSUME IInv, Restart
    PROVE  IInv'
<1> DEFINE k == Last.key
<1>1. TriggerTypeOK /\ ChainTypeOK /\ ChainInv /\ Confirmed /\ TypeOK
  BY IInvParts DEF IInv
<1>2. /\ restarts < MaxRestarts /\ restarts' = restarts + 1 /\ processing' = NoBlock
      /\ UNCHANGED <<chain, final, used, rollBacks, failures>> /\ LoadState(k)
  BY DEF Restart
<1>3. /\ key' = k /\ t' = saved[k]
      /\ pool' = InitPool /\ proofs' = {} /\ bodies' = InitBodies /\ calls' = {}
      /\ mapHashHdr' = {} /\ mapEpochStartHdrs' = {}
      /\ mapFinalizedEpochs' = NoneFinalized
      /\ epochStartMeta' = NoHash /\ requestedFinalityAttestingBlock' = FALSE
      /\ missing' = [i \in KindSet |-> {}] /\ requested' = {} /\ todo' = {}
      /\ UNCHANGED <<saved, metaStart, shardStart>>
  BY <1>2 DEF LoadState
<1>4. /\ Len(chain) \in DOMAIN chain /\ Last = chain[Len(chain)]
      /\ DOMAIN chain = 1 .. Len(chain) /\ Last' = Last
  BY <1>1, <1>2, LastType DEF Last
<1>5. /\ k \in DOMAIN saved /\ Last.epoch <= saved[k].epoch
      /\ \A i \in DOMAIN chain : Names(chain[i], saved[k])
  BY <1>1, <1>4 DEF ChainInv, Recorded
<1>6. k \in Rounds /\ saved[k] \in Registry
  BY <1>1, <1>5 DEF TriggerTypeOK
<1>7. TriggerTypeOK'
  BY <1>1, <1>3, <1>5, <1>6, TriggerAssumption DEF TriggerTypeOK, NoneFinalized
<1>8. ChainTypeOK'
  BY <1>1, <1>2, ChangeAssumption DEF ChainTypeOK
<1>9. Confirmed'
  BY <1>1, <1>3, <1>5 DEF Confirmed, NoneFinalized, Attested
<1>10. Chained' /\ Checked' /\ StoredStartIsCommitted'
  BY <1>1, <1>2, <1>3 DEF ChainInv, Chained, Checked, StoredStartIsCommitted
<1>11. Fitting'
  BY <1>1, <1>2, <1>3, <1>5 DEF ChainInv, Fitting, Fits
<1>12. Recorded'
  BY <1>1, <1>2, <1>3, <1>4, <1>5 DEF ChainInv, Recorded, Names
<1>13. QED
  BY <1>7, <1>8, <1>9, <1>10, <1>11, <1>12, IInvPartsNext DEF ChainInv
LEMMA RollBackIInv ==
    ASSUME IInv, RollBackLate \/ RollBackFork
    PROVE  IInv'
<1>1. rollBacks' \in 0 .. MaxRollBacks
  BY ChangeAssumption DEF IInv, TypeOK, RollBackLate, RollBackFork
<1>2. QED
  BY <1>1, RollBackOneBlockIInv DEF RollBackLate, RollBackFork

LEMMA TriggerNextIInv ==
    ASSUME IInv, TriggerNext, UNCHANGED chainVars
    PROVE  IInv'
<1>1. ASSUME NEW h \in MetaHashes, AddHeader(h) PROVE IInv'
  BY <1>1, AddHeaderIInv
<1>2. ASSUME NEW h \in MetaHashes, AddProof(h) PROVE IInv'
  BY <1>2, AddProofIInv
<1>3. ASSUME NEW h \in StartHashes, NEW k \in KindSet, AddBody(h, k) PROVE IInv'
  BY <1>3, AddBodyIInv
<1>4. ASSUME NEW h \in MetaHashes, ReceivedMetaBlock(h) PROVE IInv'
  BY <1>4, ReceivedMetaBlockIInv
<1>5. ASSUME NEW h \in MetaHashes, ReceivedProof(h) PROVE IInv'
  BY <1>5, ReceivedProofIInv
<1>6. ASSUME NEW h \in MetaHashes, CheckEpochStart(h) PROVE IInv'
  BY <1>6, CheckEpochStartIInv
<1>7. ASSUME NEW k \in KindSet, RequestMissing(k) PROVE IInv'
  BY <1>7, RequestMissingIInv
<1>8. ASSUME NEW k \in KindSet, UpdateMissing(k) PROVE IInv'
  BY <1>8, UpdateMissingIInv
<1>9. ASSUME NEW k \in KindSet, UpdateTriggerFromMeta(k) PROVE IInv'
  BY <1>9, UpdateTriggerFromMetaIInv
<1>10. QED
  BY <1>1, <1>2, <1>3, <1>4, <1>5, <1>6, <1>7, <1>8, <1>9 DEF TriggerNext

LEMMA StutterIInv ==
    ASSUME IInv, UNCHANGED vars
    PROVE  IInv'
<1> USE DEF vars, chainVars
<1>1. TriggerTypeOK' /\ Confirmed'
  BY TriggerUnchanged
<1>2. proofs' \subseteq Canonical
  BY <1>1 DEF Confirmed
<1>3. QED
  BY <1>1, <1>2, NetworkIInv DEF triggerVars, mapVars

LEMMA NextIInv == IInv /\ [Next]_vars => IInv'
<1> SUFFICES ASSUME IInv, [Next]_vars PROVE IInv'
  OBVIOUS
<1>1. CASE TriggerNext /\ UNCHANGED chainVars
  BY <1>1, TriggerNextIInv
<1>2. ASSUME NEW b \in Proposals, ProcessBlock(b) PROVE IInv'
  BY <1>2, ProcessBlockIInv
<1>3. ASSUME NEW b \in Proposals, RequestEpochStartInfo(b) PROVE IInv'
  BY <1>3, RequestEpochStartInfoIInv
<1>4. CASE CommitStart
  BY <1>4, CommitStartIInv
<1>5. CASE CommitEnd
  BY <1>5, CommitEndIInv
<1>6. CASE CommitIsLate \/ CommitFails
  BY <1>6, GiveUpIInv
<1>7. CASE RollBackLate \/ RollBackFork
  BY <1>7, RollBackIInv
<1>8. CASE Finalize
  BY <1>8, FinalizeIInv
<1>9. CASE Restart
  BY <1>9, RestartIInv
<1>10. CASE UNCHANGED vars
  BY <1>10, StutterIInv
<1>11. QED
  BY <1>1, <1>2, <1>3, <1>4, <1>5, <1>6, <1>7, <1>8, <1>9, <1>10 DEF Next

\* Every step but a restart leaves the newest epoch or enters a newer one.
LEMMA NextMetaEpoch ==
    IInv /\ [Next]_vars => restarts' > restarts \/ t'.metaEpoch >= t.metaEpoch
<1> SUFFICES ASSUME IInv, [Next]_vars
             PROVE  restarts' > restarts \/ t'.metaEpoch >= t.metaEpoch
  OBVIOUS
<1> USE DEF triggerVars, chainVars, vars
<1>1. /\ t \in Registry /\ t.metaEpoch \in Nat /\ restarts \in Nat /\ TypeOK
  <2>1. TypeOK
    BY Zenon DEF IInv
  <2>2. TriggerTypeOK /\ restarts \in 0 .. MaxRestarts
    BY <2>1, Zenon DEF TypeOK
  <2>3. t \in Registry
    BY <2>2, Zenon DEF TriggerTypeOK
  <2>4. t.metaEpoch \in Nat
    BY <2>3, TriggerAssumption DEF Registry, Epochs
  <2> QED
    BY <2>1, <2>2, <2>3, <2>4, ChangeAssumption
<1>2. CASE t' = t
  BY <1>1, <1>2
<1>3. ASSUME NEW h \in MetaHashes, ReceivedMetaBlock(h), UNCHANGED chainVars
      PROVE  t'.metaEpoch = t.metaEpoch
  <2>1. \/ t' = t
        \/ t' = [t EXCEPT !.newEpochHdrReceived = @ \/ MetaHdr[h].start]
        \/ \E b : t' = [t EXCEPT !.epochFinalityAttestingRound = MetaHdr[b].round]
    BY <1>3 DEF ReceivedMetaBlock, checkMetaHeaderForEpochTriggerLegacy, UpdateTrigger,
                checkMetaHeaderForEpochTriggerEquivalentProofs, ChangeAttestingRound
  <2>2. QED
    BY <1>1, <2>1 DEF Registry
<1>4. ASSUME NEW h \in MetaHashes, ReceivedProof(h), UNCHANGED chainVars
      PROVE  t'.metaEpoch = t.metaEpoch
  <2>1. t' = t \/ t' = [t EXCEPT !.newEpochHdrReceived = @ \/ MetaHdr[h].start]
    BY <1>4 DEF ReceivedProof, UpdateTrigger, checkMetaHeaderForEpochTriggerEquivalentProofs
  <2>2. QED
    BY <1>1, <2>1 DEF Registry
<1>5. ASSUME NEW h \in MetaHashes, CheckEpochStart(h)
      PROVE  t' = t \/ t'.metaEpoch > t.metaEpoch
  <2>1. h \in StartHashes
    BY <1>1, <1>5 DEF CheckEpochStart, TypeOK, TriggerTypeOK
  <2>2. t' = t \/ (isMetaBlockFinal(h) /\ ActivatesEpoch(h) /\ Activate(h))
    BY <1>5 DEF CheckEpochStart
  <2>3. ASSUME isMetaBlockFinal(h), ActivatesEpoch(h), Activate(h)
        PROVE  t'.metaEpoch > t.metaEpoch
    <3>1. t.metaEpoch < t'.metaEpoch /\ t' \in Registry
      BY <2>1, <2>3, ActivateMoves
    <3>2. t'.metaEpoch \in Nat
      BY <3>1, TriggerAssumption DEF Registry, Epochs
    <3>3. QED
      BY <1>1, <3>1, <3>2
  <2>4. QED
    BY <2>2, <2>3
<1>6. CASE CommitStart
  <2>1. CASE ~IsStart(processing.block)
    BY <1>2, <1>6, <2>1 DEF CommitStart
  <2>2. CASE IsStart(processing.block)
    <3>1. /\ processing.at = "checked"
          /\ SetProcessed(HeaderOf(processing.block), processing.block.metaHash)
      BY <1>6, <2>2 DEF CommitStart
    <3>2. t'.metaEpoch = t.metaEpoch
      BY <2>2, <3>1, SetProcessedMoves
    <3>3. QED
      BY <1>1, <3>2
  <2>3. QED
    BY <2>1, <2>2
<1>7. CASE RollBackLate \/ RollBackFork
  <2>1. t'.metaEpoch = t.metaEpoch
    BY <1>7, RevertMoves DEF RollBackLate, RollBackFork, RollBackOneBlock
  <2>2. QED
    BY <1>1, <2>1
<1>8. CASE Restart
  BY <1>1, <1>8 DEF Restart
<1>9. CASE TriggerNext /\ UNCHANGED chainVars
  <2>1. \/ t' = t
        \/ \E h \in MetaHashes : ReceivedMetaBlock(h) \/ ReceivedProof(h) \/ CheckEpochStart(h)
    BY <1>9 DEF TriggerNext, AddHeader, AddProof, AddBody, RequestMissing, UpdateMissing,
                UpdateTriggerFromMeta
  <2>2. t' = t \/ t'.metaEpoch = t.metaEpoch \/ t'.metaEpoch > t.metaEpoch
    BY <1>3, <1>4, <1>5, <1>9, <2>1
  <2>3. t' \in Registry
    BY <1>9, TriggerNextIInv DEF IInv, TypeOK, TriggerTypeOK
  <2>4. t'.metaEpoch \in Nat
    BY <2>3, TriggerAssumption DEF Registry, Epochs
  <2>5. QED
    BY <1>1, <2>2, <2>4
<1>10. CASE \E b \in Proposals : ProcessBlock(b) \/ RequestEpochStartInfo(b)
  BY <1>2, <1>10 DEF ProcessBlock, RequestEpochStartInfo
<1>11. CASE CommitEnd \/ CommitIsLate \/ CommitFails \/ Finalize
  BY <1>2, <1>11 DEF CommitEnd, CommitIsLate, CommitFails, GiveUp, Finalize
<1>12. QED
  BY <1>2, <1>6, <1>7, <1>8, <1>9, <1>10, <1>11 DEF Next

----------------------------------------------------------------------------
(* The theorems *)

LEMMA IInvHolds == Spec => []IInv
  BY InitIInv, NextIInv, PTL DEF Spec

(* Every reachable state is of the type the run checks: the key of a       *)
(* record, the finalized epochs and the list of the loop stay within what  *)
(* the trigger stored (saveCurrentState, updateTriggerFromMeta).           *)
THEOREM TypeCorrect == Spec => []TypeOK
<1>1. IInv => TypeOK
  BY DEF IInv
<1>2. QED
  BY IInvHolds, <1>1, PTL

(* The trigger is never behind the chain, after any rollbacks, failed      *)
(* commits and restarts (SetProcessed, LoadState).                         *)
THEOREM TriggerNeverBehind == Spec => []TriggerCoversChain
<1>1. IInv => TriggerCoversChain
  BY DEF IInv, Recorded, Confirmed, Attested, TriggerCoversChain
<1>2. QED
  BY IInvHolds, <1>1, PTL

(* Only a restart may lower the newest epoch the trigger knows             *)
(* (updateTriggerFromMeta, SetProcessed).                                  *)
THEOREM MetaEpochMonotone == Spec => MetaEpochGrows
  BY IInvHolds, NextMetaEpoch, PTL DEF Spec, MetaEpochGrows

(* What the trigger confirms and stores as the start of an epoch stays on  *)
(* the metachain, in whatever order blocks, forks and proofs arrive        *)
(* (checkIfTriggerCanBeActivated).                                         *)
THEOREM OnlyCanonicalConfirmed == Spec => []ConfirmedIsCanonical
<1>1. IInv => ConfirmedIsCanonical
  BY DEF IInv, Confirmed, Attested, StartsEpoch, ConfirmedIsCanonical
<1>2. QED
  BY IInvHolds, <1>1, PTL

(* The fields of the trigger, saved and loaded separately from the blocks, *)
(* belong together (changeEpochFinalityAttestingRoundIfNeeded, LoadState). *)
THEOREM TriggerConsistent == Spec => []FinalityIsAttested
<1>1. IInv => FinalityIsAttested
  <2> SUFFICES ASSUME IInv PROVE FinalityIsAttested
    OBVIOUS
  <2>1. Attested(t)
    BY DEF IInv, Confirmed
  <2>2. t.metaEpoch # 0 => t.epochMetaBlockHash # NoHash
    BY <2>1, TriggerAssumption DEF Attested, StartsEpoch
  <2>3. QED
    BY <2>1, <2>2 DEF Attested, StartsEpoch, FinalityIsAttested
<1>2. QED
  BY IInvHolds, <1>1, PTL

(* Between the checks of a start of epoch block and any later state, the   *)
(* metablock it names stays the one the trigger confirmed                  *)
(* (checkEpochCorrectness, CommitBlock).                                   *)
THEOREM StartNamesStay == Spec => []StartNamesConfirmed
<1>1. IInv => StartNamesConfirmed
  BY DEF IInv, Recorded, Names, StartNamesConfirmed
<1>2. QED
  BY IInvHolds, <1>1, PTL

(* The stored start of an epoch is the committed one, after any commits    *)
(* that fail, rollbacks and restarts (SetProcessed, RevertStateToBlock).   *)
THEOREM StoredStartCorrect == Spec => []StoredStartIsCommitted
<1>1. IInv => StoredStartIsCommitted
  BY DEF IInv
<1>2. QED
  BY IInvHolds, <1>1, PTL
============================================================================
